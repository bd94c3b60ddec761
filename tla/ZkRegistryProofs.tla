-------------------------- MODULE ZkRegistryProofs --------------------------
(***************************************************************************)
(* Proofs about ZkRegistry, for any providers and services, every order of *)
(* publication and any number of restarts and failures: RegistryInv        *)
(* (ZkRegistryInv) is an inductive invariant, and the safety properties    *)
(* and the action properties the runs check follow from it.                *)
(***************************************************************************)
EXTENDS ZkRegistryInv, SequenceTheorems, TLAPS

-----------------------------------------------------------------------------
(***************************************************************************)
(* Facts about the data.                                                   *)
(***************************************************************************)

\* What a znode holds tells an absent, a permanent and an ephemeral node apart.
LEMMA Kinds ==
  /\ NoNode # Permanent
  /\ NoNode \notin Sessions
  /\ Permanent \notin Sessions
<1>1. NoNode # Permanent
  BY DEF NoNode, Permanent
<1>2. ASSUME NEW s \in Sessions PROVE Len(s) = 2
  BY <1>2 DEF Sessions
<1>3. Len(NoNode) = 1 /\ Len(Permanent) = 1
  BY DEF NoNode, Permanent
<1>. QED  BY <1>1, <1>2, <1>3

\* The plan of a provider: paths, a service before its methods
\* (rpc_provider.cc:81-96).
LEMMA Plans ==
  ASSUME NEW p \in Providers
  PROVE  /\ Len(Plan[p]) \in Nat
         /\ DOMAIN Plan[p] = 1 .. Len(Plan[p])
         /\ \A i \in DOMAIN Plan[p] : Plan[p][i] \in Paths
         /\ Plan[p] = <<>> => Len(Plan[p]) = 0
         /\ Plan[p] # <<>> => 1 \in DOMAIN Plan[p]
BY RegistryAssumption, EmptySeq DEF Paths

\* The sessions of two processes differ (rpc_provider.cc:79).
LEMMA SessionsDiffer ==
  ASSUME NEW p \in Providers, NEW q \in Providers, p # q
  PROVE  Session(p) # Session(q)
BY DEF Session

\* What ZkClient::Create may do to the registry: nothing, or one absent node
\* made by a process with a session (zookeeper_client.cc:83-89).
Makes(c) ==
  /\ pc[c] = "create"
  /\ CanCreate(c)
  /\ AddNode(c)

\* A step of one provider's registration leaves the others where they are.
LEMMA RegistersFrame ==
  ASSUME NEW c \in Providers, Registers(c)
  PROVE  /\ pc[c] \in {"exists", "create"}
         /\ node' = node \/ Makes(c)
         /\ UNCHANGED <<live, starts>>
         /\ calm' => calm
<1> USE DEF PassesOver, Advance, Goto, Fault
<1>1. CASE FindsNothing(c)
  BY <1>1 DEF FindsNothing
<1>2. CASE FindsNode(c)
  BY <1>2 DEF FindsNode
<1>3. CASE CheckFails(c)
  BY <1>3 DEF CheckFails
<1>4. CASE Creates(c)
  BY <1>4 DEF Creates, Makes
<1>5. CASE CreateRefused(c)
  BY <1>5 DEF CreateRefused
<1>6. CASE CreateFails(c)
  BY <1>6 DEF CreateFails, Makes
<1>. QED  BY <1>1, <1>2, <1>3, <1>4, <1>5, <1>6 DEF Registers

\* The same for what Run keeps of its own: only the registering process moves.
LEMMA RegistersLocal ==
  ASSUME TypeOK, NEW c \in Providers, Registers(c), NEW p \in Providers, p # c
  PROVE  pc'[p] = pc[p] /\ at'[p] = at[p] /\ passed'[p] = passed[p]
<1> USE DEF TypeOK, PassesOver, Advance, Goto
<1>1. CASE FindsNothing(c)
  BY <1>1 DEF FindsNothing
<1>2. CASE FindsNode(c)
  BY <1>2 DEF FindsNode
<1>3. CASE CheckFails(c)
  BY <1>3 DEF CheckFails
<1>4. CASE Creates(c)
  BY <1>4 DEF Creates
<1>5. CASE CreateRefused(c)
  BY <1>5 DEF CreateRefused
<1>6. CASE CreateFails(c)
  BY <1>6 DEF CreateFails
<1>. QED  BY <1>1, <1>2, <1>3, <1>4, <1>5, <1>6 DEF Registers

-----------------------------------------------------------------------------
(***************************************************************************)
(* Type correctness and the place of a provider in its plan.               *)
(***************************************************************************)

\* Making a node keeps the registry well typed: it gets a session's or a
\* permanent node (zookeeper_client.cc:87).
LEMMA TypeMakes ==
  ASSUME TypeOK, NEW c \in Providers, Makes(c), Current(c) \in Paths
  PROVE  /\ node' \in [Paths -> {NoNode, Permanent} \union Sessions]
         /\ \A x \in Services : node'[x] \in {NoNode, Permanent}
         /\ \A m \in Methods : node'[m] # Permanent
         /\ \A x \in Paths : x # Current(c) => node'[x] = node[x]
         /\ node'[Current(c)] = IF Current(c) \in Methods THEN Session(c) ELSE Permanent
BY Kinds, RegistryAssumption DEF TypeOK, Makes, CanCreate, AddNode, Paths

\* The path being created is a path of the plan.
LEMMA CurrentIsPath ==
  ASSUME NEW c \in Providers, PlaceInv(c), pc[c] \in {"exists", "create"}
  PROVE  at[c] \in DOMAIN Plan[c] /\ Current(c) \in Paths
BY Plans DEF PlaceInv, Current

\* Creating, finding, failing to find and leaving keep the types.
LEMMA TypeRegisters ==
  ASSUME TypeOK, NEW c \in Providers, PlaceInv(c), Registers(c)
  PROVE  TypeOK' /\ PlaceInv(c)'
<1>1. pc[c] \in {"exists", "create"} /\ (node' = node \/ Makes(c)) /\ UNCHANGED <<live, starts>>
  BY RegistersFrame
<1>2. at[c] \in DOMAIN Plan[c] /\ Current(c) \in Paths
  BY <1>1, CurrentIsPath
<1>3. /\ node' \in [Paths -> {NoNode, Permanent} \union Sessions]
      /\ \A x \in Services : node'[x] \in {NoNode, Permanent}
      /\ \A m \in Methods : node'[m] # Permanent
  BY <1>1, <1>2, TypeMakes DEF TypeOK
<1>4. live' \subseteq Sessions /\ starts' \in [Providers -> 0 .. MaxStarts]
  BY <1>1 DEF TypeOK
<1>5. /\ pc' \in [Providers -> {"down", "exists", "create", "serve", "exited"}]
      /\ at' \in [Providers -> Nat \ {0}]
      /\ passed' \in [Providers -> SUBSET Paths]
      /\ calm' \in BOOLEAN
      /\ PlaceInv(c)'
  <2>1. ASSUME Advance(c)
        PROVE  /\ pc' \in [Providers -> {"down", "exists", "create", "serve", "exited"}]
               /\ at' \in [Providers -> Nat \ {0}]
               /\ PlaceInv(c)'
    BY <1>2, <2>1, Plans DEF TypeOK, PlaceInv, Advance, Goto
  <2>2. ASSUME PassesOver(c)
        PROVE  passed' \in [Providers -> SUBSET Paths]
    <3>1. \A p \in Providers : passed'[p] \subseteq Paths
      BY <1>2, <2>2 DEF TypeOK, PassesOver
    <3>. QED  BY <2>2, <3>1 DEF TypeOK, PassesOver
  <2>3. CASE FindsNothing(c)
    BY <1>2, <2>3 DEF FindsNothing, TypeOK, PlaceInv, Goto
  <2>4. CASE FindsNode(c)
    BY <2>1, <2>2, <2>4 DEF FindsNode, PassesOver, TypeOK
  <2>5. CASE CheckFails(c)
    BY <2>1, <2>2, <2>5 DEF CheckFails, PassesOver, Fault
  <2>6. CASE Creates(c)
    BY <2>1, <2>6 DEF Creates, TypeOK
  <2>7. CASE CreateRefused(c)
    BY <2>7 DEF CreateRefused, TypeOK, PlaceInv, Goto
  <2>8. CASE CreateFails(c)
    BY <2>8 DEF CreateFails, TypeOK, PlaceInv, Goto, Fault
  <2>. QED  BY <2>3, <2>4, <2>5, <2>6, <2>7, <2>8 DEF Registers
<1>. QED  BY <1>3, <1>4, <1>5 DEF TypeOK

\* Starting (rpc_provider.cc:79) keeps the types.
LEMMA TypeStart ==
  ASSUME TypeOK, NEW c \in Providers, Start(c)
  PROVE  TypeOK' /\ PlaceInv(c)'
<1>1. starts[c] + 1 \in 1 .. MaxStarts
  BY RegistryAssumption DEF Start, TypeOK
<1>2. <<c, starts[c] + 1>> \in Sessions
  BY <1>1 DEF Sessions
<1>3. live' \subseteq Sessions
  BY <1>2 DEF Start, TypeOK
<1>4. PlaceInv(c)'
  BY Plans DEF Start, TypeOK, PlaceInv, Goto
<1>5. starts' \in [Providers -> 0 .. MaxStarts]
  BY <1>1 DEF Start, TypeOK
<1>. QED  BY <1>3, <1>4, <1>5 DEF Start, TypeOK, Goto

\* So do a kill and a session's time-out (zookeeper_client.cc:23).
LEMMA TypeEnds ==
  ASSUME TypeOK,
         \/ \E c \in Providers : Dies(c)
         \/ \E s \in Sessions : Expires(s)
  PROVE  TypeOK'
<1>1. CASE \E c \in Providers : Dies(c)
  BY <1>1 DEF Dies, Fault, Goto, TypeOK
<1>2. CASE \E s \in Sessions : Expires(s)
  <2>1. PICK s \in Sessions : Expires(s)
    BY <1>2
  <2>2. calm' \in BOOLEAN
    BY <2>1 DEF Expires, Fault, TypeOK
  <2>3. node' = [x \in Paths |-> IF node[x] = s THEN NoNode ELSE node[x]]
    BY <2>1 DEF Expires
  <2>4. /\ node' \in [Paths -> {NoNode, Permanent} \union Sessions]
        /\ \A x \in Services : node'[x] \in {NoNode, Permanent}
        /\ \A m \in Methods : node'[m] # Permanent
    BY <2>3, Kinds DEF TypeOK, Paths
  <2>5. live' \subseteq Sessions
    BY <2>1 DEF Expires, TypeOK
  <2>. QED  BY <2>1, <2>2, <2>4, <2>5 DEF Expires, TypeOK
<1>. QED  BY <1>1, <1>2

-----------------------------------------------------------------------------
(***************************************************************************)
(* The registering provider: what it leaves behind.                        *)
(***************************************************************************)

\* Going on to the next path puts the current one behind.
LEMMA BehindAdvances ==
  ASSUME TypeOK, NEW c \in Providers, PlaceInv(c), pc[c] \in {"exists", "create"},
         Advance(c)
  PROVE  /\ \A i \in Behind(c)' : i \in Behind(c) \/ Plan[c][i] = Current(c)
         /\ \A i \in Behind(c)' : i \in DOMAIN Plan[c]
BY Plans DEF TypeOK, PlaceInv, Advance, Behind, Current

LEMMA VisitedRegisters ==
  ASSUME TypeOK, NEW c \in Providers, PlaceInv(c), VisitedInv(c), Registers(c)
  PROVE  VisitedInv(c)'
<1>1. pc[c] \in {"exists", "create"} /\ UNCHANGED <<live, starts>> /\ RunsNow(c)
  BY RegistersFrame DEF RunsNow
<1>2. Session(c)' = Session(c) /\ Current(c) \in Paths
  BY <1>1, CurrentIsPath DEF Session
<1>3. \A i \in DOMAIN Plan[c] : Plan[c][i] \in Paths
  BY Plans
<1>4. CASE FindsNothing(c)
  BY <1>1, <1>2, <1>4 DEF FindsNothing, VisitedInv, Behind
<1>5. CASE FindsNode(c) \/ CheckFails(c)
  <2>1. PassesOver(c)
    BY <1>5 DEF FindsNode, CheckFails
  <2>2. passed'[c] = passed[c] \union {Current(c)} /\ UNCHANGED node /\ Advance(c)
    BY <2>1 DEF PassesOver, TypeOK
  <2>. QED  BY <1>1, <1>2, <2>2, BehindAdvances DEF VisitedInv
<1>6. CASE Creates(c)
  <2>1. Makes(c) /\ Advance(c) /\ UNCHANGED passed
    BY <1>6 DEF Creates, Makes
  <2>2. /\ \A x \in Paths : x # Current(c) => node'[x] = node[x]
        /\ Current(c) \in Methods => node'[Current(c)] = Session(c)
    BY <1>2, <2>1, TypeMakes
  <2>. QED  BY <1>1, <1>2, <1>3, <2>1, <2>2, BehindAdvances DEF VisitedInv
<1>7. CASE CreateRefused(c) \/ CreateFails(c)
  BY <1>7 DEF CreateRefused, CreateFails, Goto, TypeOK, VisitedInv, RunsNow
<1>. QED  BY <1>4, <1>5, <1>6, <1>7 DEF Registers

LEMMA CalmRegisters ==
  ASSUME TypeOK, NEW c \in Providers, PlaceInv(c), CalmInv(c), Registers(c), calm'
  PROVE  CalmInv(c)'
<1>1. /\ pc[c] \in {"exists", "create"} /\ UNCHANGED <<live, starts>>
      /\ calm /\ RunsNow(c)
  BY RegistersFrame DEF RunsNow
<1>2. Session(c)' = Session(c) /\ Current(c) \in Paths
  BY <1>1, CurrentIsPath DEF Session
<1>3. /\ Session(c) \in live' /\ Session(c) \in Sessions
      /\ \A i \in Behind(c) : Plan[c][i] \in Services => node[Plan[c][i]] # NoNode
  BY <1>1 DEF CalmInv, TypeOK
<1>4. CASE FindsNothing(c)
  <2>1. UNCHANGED <<node, at>> /\ node[Current(c)] = NoNode
    BY <1>4 DEF FindsNothing
  <2>2. Current(c)' = Current(c) /\ Behind(c)' = Behind(c)
    BY <2>1 DEF Current, Behind
  <2>. QED  BY <1>2, <1>3, <2>1, <2>2, Kinds DEF CalmInv
<1>5. CASE FindsNode(c)
  <2>1. /\ UNCHANGED node /\ node[Current(c)] # NoNode
        /\ Advance(c) /\ pc'[c] # "create"
    BY <1>5 DEF FindsNode, PassesOver, Advance, Goto, TypeOK
  <2>. QED  BY <1>1, <1>2, <1>3, <2>1, BehindAdvances DEF CalmInv
<1>6. CASE Creates(c)
  <2>1. Makes(c) /\ Advance(c) /\ pc'[c] # "create"
    BY <1>6 DEF Creates, Makes, Advance, Goto, TypeOK
  <2>2. /\ \A x \in Paths : x # Current(c) => node'[x] = node[x]
        /\ Current(c) \in Services => node'[Current(c)] # NoNode
    BY <1>2, <2>1, TypeMakes, Kinds, RegistryAssumption
  <2>3. Services \subseteq Paths
    BY DEF Paths
  <2>. QED  BY <1>1, <1>2, <1>3, <2>1, <2>2, <2>3, BehindAdvances DEF CalmInv
<1>7. CASE CreateRefused(c)
  BY <1>7 DEF CreateRefused, Goto, TypeOK, CalmInv, RunsNow
<1>8. CASE CheckFails(c) \/ CreateFails(c)
  BY <1>8 DEF CheckFails, CreateFails, Fault
<1>. QED  BY <1>4, <1>5, <1>6, <1>7, <1>8 DEF Registers

-----------------------------------------------------------------------------
(***************************************************************************)
(* The other providers, and the steps that are no registration.            *)
(***************************************************************************)
PartsOf(p) == PlaceInv(p) /\ VisitedInv(p) /\ CalmInv(p)

\* A process that registers takes nothing from another: it makes absent nodes
\* only (zookeeper_client.cc:84).
LEMMA RegistersBystander ==
  ASSUME TypeOK, NEW c \in Providers, PlaceInv(c), Registers(c),
         NEW p \in Providers, p # c, PartsOf(p)
  PROVE  PartsOf(p)'
<1>1. /\ pc[c] \in {"exists", "create"} /\ (node' = node \/ Makes(c))
      /\ UNCHANGED <<live, starts>> /\ (calm' => calm)
  BY RegistersFrame
<1>2. pc'[p] = pc[p] /\ at'[p] = at[p] /\ passed'[p] = passed[p]
  BY RegistersLocal
<1>3. /\ Session(p)' = Session(p) /\ Current(p)' = Current(p)
      /\ Behind(p)' = Behind(p) /\ RunsNow(p)' = RunsNow(p)
  BY <1>1, <1>2 DEF Session, Current, Behind, RunsNow
<1>4. \A x \in Paths :
         \/ node'[x] = node[x]
         \/ node[x] = NoNode /\ node'[x] \in {Session(c), Permanent}
                             /\ node'[x] # NoNode
  <2>1. CASE Makes(c)
    <3>1. Current(c) \in Paths
      BY <1>1, CurrentIsPath
    <3>2. node[Current(c)] = NoNode /\ Session(c) \in Sessions
      BY <2>1 DEF Makes, CanCreate, TypeOK
    <3>. QED  BY <2>1, <3>1, <3>2, TypeMakes, Kinds
  <2>. QED  BY <1>1, <2>1
<1>5. Session(p) # Session(c) /\ (Session(p) \in live => Session(p) \in Sessions)
  BY SessionsDiffer DEF TypeOK
<1>6. PlaceInv(p)'
  BY <1>2 DEF PartsOf, PlaceInv
<1>7. VisitedInv(p)'
  <2>1. \A i \in Behind(p) : Plan[p][i] \in Paths
    BY Plans DEF Behind
  <2>. QED  BY <1>1, <1>2, <1>3, <1>4, <1>5, <2>1, Kinds DEF PartsOf, VisitedInv
<1>8. CalmInv(p)'
  <2>1. \A i \in Behind(p) : Plan[p][i] \in Paths
    BY Plans DEF Behind
  <2>2. pc[p] = "create" => Current(p) \in Paths
    BY CurrentIsPath DEF PartsOf
  <2>. QED  BY <1>1, <1>2, <1>3, <1>4, <1>5, <2>1, <2>2, Kinds DEF PartsOf, CalmInv
<1>. QED  BY <1>6, <1>7, <1>8 DEF PartsOf

\* A start opens a session of its own and is at the first path.
LEMMA StartKeeps ==
  ASSUME TypeOK, NEW c \in Providers, Start(c), NEW p \in Providers, PartsOf(p)
  PROVE  PartsOf(p)'
<1>1. /\ starts' = [starts EXCEPT ![c] = @ + 1]
      /\ live' = live \union {<<c, starts[c] + 1>>}
      /\ at' = [at EXCEPT ![c] = 1] /\ passed' = [passed EXCEPT ![c] = {}]
      /\ UNCHANGED <<node, calm>>
      /\ pc' = [pc EXCEPT ![c] = IF Plan[c] = <<>> THEN "serve" ELSE "exists"]
  BY DEF Start, Goto
<1>2. CASE p = c
  <2>1. PlaceInv(p)'
    BY <1>2, TypeStart
  <2>2. Behind(p)' = {} /\ pc'[p] # "create"
    BY <1>1, <1>2, Plans DEF TypeOK, Behind
  <2>3. Session(p)' \in live'
    BY <1>1, <1>2 DEF TypeOK, Session
  <2>. QED  BY <2>1, <2>2, <2>3 DEF PartsOf, VisitedInv, CalmInv
<1>3. CASE p # c
  <2>1. /\ pc'[p] = pc[p] /\ at'[p] = at[p] /\ passed'[p] = passed[p]
        /\ starts'[p] = starts[p]
    BY <1>1, <1>3 DEF TypeOK
  <2>2. /\ Session(p)' = Session(p) /\ Current(p)' = Current(p)
        /\ Behind(p)' = Behind(p) /\ RunsNow(p)' = RunsNow(p)
    BY <2>1 DEF Session, Current, Behind, RunsNow
  <2>3. Session(p) \in live' <=> Session(p) \in live
    BY <1>1, <1>3 DEF Session
  <2>. QED  BY <1>1, <2>1, <2>2, <2>3 DEF PartsOf, PlaceInv, VisitedInv, CalmInv
<1>. QED  BY <1>2, <1>3

\* A killed process keeps nothing, and takes nothing with it.
LEMMA DiesKeeps ==
  ASSUME TypeOK, NEW c \in Providers, Dies(c), NEW p \in Providers, PartsOf(p)
  PROVE  PartsOf(p)'
<1>1. /\ UNCHANGED <<node, live, starts, at, passed>> /\ ~calm'
      /\ pc' = [pc EXCEPT ![c] = "down"]
  BY DEF Dies, Goto, Fault
<1>2. Session(p)' = Session(p) /\ Behind(p)' = Behind(p)
  BY <1>1 DEF Session, Behind
<1>3. pc'[p] = pc[p] \/ pc'[p] = "down"
  BY <1>1 DEF TypeOK
<1>. QED  BY <1>1, <1>2, <1>3 DEF PartsOf, PlaceInv, VisitedInv, CalmInv, RunsNow

\* A session that times out takes its nodes along, and no others
\* (zookeeper_client.cc:23-26).
LEMMA ExpiresKeeps ==
  ASSUME TypeOK, NEW s \in Sessions, Expires(s), NEW p \in Providers, PartsOf(p)
  PROVE  PartsOf(p)'
<1>1. /\ live' = live \ {s} /\ UNCHANGED <<pc, starts, at, passed>>
      /\ node' = [x \in Paths |-> IF node[x] = s THEN NoNode ELSE node[x]]
      /\ calm' => calm /\ ~Alive(s)
  BY DEF Expires, Fault
<1>2. /\ Session(p)' = Session(p) /\ Current(p)' = Current(p)
      /\ Behind(p)' = Behind(p) /\ RunsNow(p)' = RunsNow(p)
  BY <1>1 DEF Session, Current, Behind, RunsNow
<1>3. \A i \in Behind(p) : Plan[p][i] \in Paths
  BY Plans DEF Behind
<1>4. PlaceInv(p)'
  BY <1>1 DEF PartsOf, PlaceInv
<1>5. VisitedInv(p)'
  BY <1>1, <1>2, <1>3 DEF PartsOf, VisitedInv
<1>6. CalmInv(p)'
  <2>1. SUFFICES ASSUME calm', RunsNow(p)
                 PROVE  /\ Session(p) \in live'
                        /\ \A i \in Behind(p) :
                             Plan[p][i] \in Services => node'[Plan[p][i]] # NoNode
                        /\ pc[p] = "create" => node'[Current(p)] # Session(p)
    BY <1>1, <1>2 DEF CalmInv
  <2>2. Session(p) \in live /\ Session(p) \in Sessions
    BY <1>1, <2>1 DEF PartsOf, CalmInv, TypeOK
  <2>3. Session(p) # s
    BY <1>1, <2>1 DEF Alive, Session, RunsNow
  <2>4. \A i \in Behind(p) :
           Plan[p][i] \in Services => node[Plan[p][i]] # NoNode /\ node[Plan[p][i]] # s
    BY <1>1, <2>1, Kinds DEF PartsOf, CalmInv, TypeOK
  <2>5. pc[p] = "create" => Current(p) \in Paths /\ node[Current(p)] # Session(p)
    BY <1>1, <2>1, CurrentIsPath DEF PartsOf, CalmInv
  <2>. QED  BY <1>1, <1>3, <2>2, <2>3, <2>4, <2>5, Kinds
<1>. QED  BY <1>4, <1>5, <1>6 DEF PartsOf

-----------------------------------------------------------------------------
(***************************************************************************)
(* The race between check and create.                                      *)
(***************************************************************************)

\* Without a failure a create is refused only because the node has come to be
\* there since the check: the parent is (rpc_provider.cc:82-94).
LEMMA RefusalMeansRace ==
  ASSUME TypeOK, NEW c \in Providers, PartsOf(c), CreateRefused(c), calm
  PROVE  Threatened(c) /\ node[Current(c)] # Session(c)
<1>1. pc[c] = "create" /\ ~CanCreate(c) /\ RunsNow(c)
  BY DEF CreateRefused, RunsNow
<1>2. /\ Session(c) \in live /\ node[Current(c)] # Session(c)
      /\ \A i \in Behind(c) : Plan[c][i] \in Services => node[Plan[c][i]] # NoNode
  BY <1>1 DEF PartsOf, CalmInv
<1>3. Current(c) \in Methods => node[ServiceOf[Current(c)]] # NoNode
  <2>1. SUFFICES ASSUME Current(c) \in Methods
                 PROVE  node[ServiceOf[Current(c)]] # NoNode
    OBVIOUS
  <2>2. at[c] \in DOMAIN Plan[c]
    BY <1>1, CurrentIsPath DEF PartsOf
  <2>3. PICK j \in 1 .. (at[c] - 1) : Plan[c][j] = ServiceOf[Current(c)]
    BY <2>1, <2>2, RegistryAssumption DEF Current
  <2>4. j \in Behind(c)
    BY <2>2, <2>3, Plans DEF Behind
  <2>5. Plan[c][j] \in Services
    BY <2>1, <2>3, RegistryAssumption
  <2>. QED  BY <1>2, <2>3, <2>4, <2>5
<1>. QED  BY <1>1, <1>2, <1>3 DEF CanCreate, Threatened

\* A registration step leaves somebody running and not threatened: the process
\* itself, unless it exits, and then whoever threatened it.
LEMMA SurvivorRegisters ==
  ASSUME TypeOK, NEW c \in Providers, PartsOf(c), SurvivorInv, Registers(c)
  PROVE  SurvivorInv'
<1>1. SUFFICES ASSUME calm'
               PROVE  \E q \in Providers : RunsNow(q)' /\ ~Threatened(q)'
  BY DEF SurvivorInv
<1>2. calm /\ pc[c] \in {"exists", "create"}
  BY <1>1, RegistersFrame
<1>3. CASE FindsNothing(c)
  BY <1>3 DEF FindsNothing, Goto, TypeOK, RunsNow, Threatened, Current
<1>4. CASE FindsNode(c)
  BY <1>4 DEF FindsNode, PassesOver, Advance, Goto, TypeOK, RunsNow, Threatened
<1>5. CASE Creates(c)
  BY <1>5 DEF Creates, Advance, Goto, TypeOK, RunsNow, Threatened
<1>6. CASE CreateRefused(c)
  <2>1. Threatened(c)
    BY <1>2, <1>6, RefusalMeansRace
  <2>2. PICK q \in Providers : RunsNow(q) /\ ~Threatened(q)
    BY <1>2, <2>1 DEF SurvivorInv
  <2>3. q # c
    BY <2>1, <2>2
  <2>. QED  BY <1>6, <2>2, <2>3 DEF CreateRefused, Goto, TypeOK, RunsNow, Threatened, Current
<1>7. CASE CheckFails(c) \/ CreateFails(c)
  BY <1>1, <1>7 DEF CheckFails, CreateFails, Fault
<1>. QED  BY <1>3, <1>4, <1>5, <1>6, <1>7 DEF Registers

LEMMA SurvivorExpires ==
  ASSUME TypeOK, \A p \in Providers : PartsOf(p), SurvivorInv,
         NEW s \in Sessions, Expires(s)
  PROVE  SurvivorInv'
<1>1. /\ UNCHANGED <<pc, starts, at, passed>> /\ (calm' => calm)
      /\ node' = [x \in Paths |-> IF node[x] = s THEN NoNode ELSE node[x]]
  BY DEF Expires, Fault
<1>2. \A p \in Providers : RunsNow(p)' = RunsNow(p) /\ Current(p)' = Current(p)
  BY <1>1 DEF RunsNow, Current
<1>3. \A p \in Providers : Threatened(p)' => Threatened(p)
  BY <1>1, <1>2, CurrentIsPath DEF Threatened, PartsOf
<1>. QED  BY <1>1, <1>2, <1>3 DEF SurvivorInv

-----------------------------------------------------------------------------
(***************************************************************************)
(* The invariant and the properties.                                       *)
(***************************************************************************)
LEMMA InitEstablishes == Init => RegistryInv
<1> SUFFICES ASSUME Init PROVE RegistryInv
  OBVIOUS
<1>1. TypeOK
  BY Kinds, RegistryAssumption DEF Init, TypeOK, Paths
<1>2. \A p \in Providers : PlaceInv(p) /\ VisitedInv(p) /\ CalmInv(p)
  BY DEF Init, PlaceInv, VisitedInv, CalmInv, RunsNow
<1>3. SurvivorInv
  BY DEF Init, SurvivorInv, Threatened
<1>. QED  BY <1>1, <1>2, <1>3 DEF RegistryInv

LEMMA StepKeeps == RegistryInv /\ [Next]_vars => RegistryInv'
<1> SUFFICES ASSUME RegistryInv, [Next]_vars PROVE RegistryInv'
  OBVIOUS
<1>1. TypeOK /\ SurvivorInv /\ \A p \in Providers : PartsOf(p)
  BY DEF RegistryInv, PartsOf
<1>2. SUFFICES TypeOK' /\ SurvivorInv' /\ \A p \in Providers : PartsOf(p)'
  BY DEF RegistryInv, PartsOf
<1>3. CASE \E c \in Providers : Start(c)
  <2>1. PICK c \in Providers : Start(c)
    BY <1>3
  <2>2. TypeOK' /\ \A p \in Providers : PartsOf(p)'
    BY <1>1, <2>1, TypeStart, StartKeeps
  <2>3. RunsNow(c)' /\ ~Threatened(c)'
    BY <1>1, <2>1 DEF Start, Goto, TypeOK, RunsNow, Threatened
  <2>. QED  BY <2>2, <2>3 DEF SurvivorInv
<1>4. CASE \E c \in Providers : Registers(c)
  <2>1. PICK c \in Providers : Registers(c)
    BY <1>4
  <2>2. TypeOK' /\ PartsOf(c)'
    BY <1>1, <2>1, TypeRegisters, VisitedRegisters, CalmRegisters DEF PartsOf, CalmInv
  <2>3. \A p \in Providers : p # c => PartsOf(p)'
    BY <1>1, <2>1, RegistersBystander DEF PartsOf
  <2>4. SurvivorInv'
    BY <1>1, <2>1, SurvivorRegisters
  <2>. QED  BY <2>2, <2>3, <2>4
<1>5. CASE \E c \in Providers : Dies(c)
  <2>1. PICK c \in Providers : Dies(c)
    BY <1>5
  <2>2. TypeOK' /\ \A p \in Providers : PartsOf(p)'
    BY <1>1, <2>1, TypeEnds, DiesKeeps
  <2>3. SurvivorInv'
    BY <2>1 DEF Dies, Fault, SurvivorInv
  <2>. QED  BY <2>2, <2>3
<1>6. CASE \E s \in Sessions : Expires(s)
  <2>1. PICK s \in Sessions : Expires(s)
    BY <1>6
  <2>. QED  BY <1>1, <2>1, TypeEnds, ExpiresKeeps, SurvivorExpires
<1>7. CASE UNCHANGED vars
  <2>1. TypeOK'
    BY <1>1, <1>7 DEF vars, TypeOK
  <2>2. \A p \in Providers : PartsOf(p)'
    BY <1>1, <1>7 DEF vars, PartsOf, PlaceInv, VisitedInv, CalmInv, Session, Current,
                      Behind, RunsNow
  <2>3. SurvivorInv'
    BY <1>1, <1>7 DEF vars, SurvivorInv, Threatened, RunsNow, Current
  <2>. QED  BY <2>1, <2>2, <2>3
<1>. QED  BY <1>3, <1>4, <1>5, <1>6, <1>7 DEF Next

\* The registry and the providers' progress satisfy RegistryInv, whatever
\* fails and however often processes are started.
THEOREM RegistryInvariance == Spec => []RegistryInv
BY InitEstablishes, StepKeeps, PTL DEF Spec

\* Every variable keeps its type.
THEOREM RegistryTypes == Spec => []TypeOK
<1>1. RegistryInv => TypeOK
  BY DEF RegistryInv
<1>. QED  BY <1>1, RegistryInvariance, PTL

\* The loops of Run skip no method, and nobody withdraws another's node
\* (rpc_provider.cc:81-96, zookeeper_client.cc:83-112).
THEOREM NothingMissed == Spec => []MissingOnlyIfPassed
<1>1. RegistryInv => MissingOnlyIfPassed
  <2> SUFFICES ASSUME RegistryInv, NEW p \in Providers, NEW m \in MethodsOf(p),
                      pc[p] = "serve", node[m] # Session(p)
               PROVE  Session(p) \notin live \/ m \in passed[p]
    BY DEF MissingOnlyIfPassed
  <2>1. PICK i \in DOMAIN Plan[p] : Plan[p][i] = m /\ m \in Methods
    BY DEF MethodsOf
  <2>2. i \in Behind(p) /\ VisitedInv(p)
    BY <2>1, Plans DEF RegistryInv, PlaceInv, Behind
  <2>. QED  BY <2>1, <2>2 DEF VisitedInv, RunsNow
<1>. QED  BY <1>1, RegistryInvariance, PTL

\* The races between check and create never end every provider.
THEOREM OneSurvives == Spec => []SomeoneSurvives
<1>1. RegistryInv => SomeoneSurvives
  BY DEF RegistryInv, SurvivorInv, SomeoneSurvives, RunsNow
<1>. QED  BY <1>1, RegistryInvariance, PTL

\* Only a process that is refused, or whose create fails, comes to exited.
LEMMA ExitSteps ==
  ASSUME TypeOK, [Next]_vars, NEW p \in Providers,
         pc[p] = "create", pc'[p] = "exited"
  PROVE  CreateRefused(p) \/ CreateFails(p)
<1>1. CASE \E c \in Providers : Start(c)
  BY <1>1 DEF Start, Goto, TypeOK
<1>2. ASSUME NEW c \in Providers, Registers(c)
      PROVE  CreateRefused(p) \/ CreateFails(p)
  <2>1. p = c
    BY <1>2, RegistersLocal
  <2>2. ~FindsNothing(c) /\ ~FindsNode(c) /\ ~CheckFails(c)
    BY <2>1 DEF FindsNothing, FindsNode, CheckFails
  <2>3. ~Creates(c)
    BY <2>1 DEF Creates, Advance, Goto, TypeOK
  <2>. QED  BY <1>2, <2>1, <2>2, <2>3 DEF Registers
<1>3. CASE \E c \in Providers : Dies(c)
  BY <1>3 DEF Dies, Goto, TypeOK
<1>4. CASE \E s \in Sessions : Expires(s)
  BY <1>4 DEF Expires
<1>5. CASE UNCHANGED vars
  BY <1>5 DEF vars
<1>. QED  BY <1>1, <1>2, <1>3, <1>4, <1>5 DEF Next

\* Without a failure a provider ends in Create only because another process
\* was faster, never because a parent is missing (rpc_provider.cc:82-96).
THEOREM ExitsAreRaces == Spec => ExitMeansRace
<1>1. RegistryInv /\ [Next]_vars =>
        \A p \in Providers :
          calm' /\ pc[p] = "create" /\ pc'[p] = "exited"
            => node[Current(p)] \notin {NoNode, Session(p)}
  <2> SUFFICES ASSUME RegistryInv, [Next]_vars, NEW p \in Providers,
                      calm', pc[p] = "create", pc'[p] = "exited"
               PROVE  node[Current(p)] \notin {NoNode, Session(p)}
    OBVIOUS
  <2>1. TypeOK /\ PartsOf(p)
    BY DEF RegistryInv, PartsOf
  <2>2. CreateRefused(p) \/ CreateFails(p)
    BY <2>1, ExitSteps
  <2>3. CreateRefused(p) /\ calm
    BY <2>2 DEF CreateFails, CreateRefused, Fault
  <2>. QED  BY <2>1, <2>3, RefusalMeansRace DEF Threatened
<1>. QED  BY <1>1, RegistryInvariance, PTL DEF Spec, ExitMeansRace

\* The address of a method stays what it is while the session that published
\* it lives (zookeeper_client.cc:105-108).
THEOREM AddressesStay == Spec => AddressStays
<1>1. RegistryInv /\ RegistryInv' /\ [Next]_vars =>
        \A m \in Methods : node[m] \in live' => node'[m] = node[m]
  <2> SUFFICES ASSUME RegistryInv, RegistryInv', [Next]_vars,
                      NEW m \in Methods, node[m] \in live'
               PROVE  node'[m] = node[m]
    OBVIOUS
  <2>1. m \in Paths /\ node[m] # NoNode
    BY Kinds DEF Paths, RegistryInv, TypeOK
  <2>2. CASE \E c \in Providers : Start(c) \/ Dies(c)
    BY <2>2 DEF Start, Dies
  <2>3. ASSUME NEW c \in Providers, Registers(c)
        PROVE  node'[m] = node[m]
    <3>1. TypeOK /\ PlaceInv(c)
      BY DEF RegistryInv
    <3>2. pc[c] \in {"exists", "create"} /\ (node' = node \/ Makes(c))
      BY <2>3, RegistersFrame
    <3>3. CASE Makes(c)
      <4>1. Current(c) \in Paths
        BY <3>1, <3>2, CurrentIsPath
      <4>2. m # Current(c)
        BY <2>1, <3>3 DEF Makes, CanCreate
      <4>. QED  BY <2>1, <3>1, <3>3, <4>1, <4>2, TypeMakes
    <3>. QED  BY <3>2, <3>3
  <2>4. CASE \E s \in Sessions : Expires(s)
    BY <2>1, <2>4 DEF Expires
  <2>5. CASE UNCHANGED vars
    BY <2>5 DEF vars
  <2>. QED  BY <2>2, <2>3, <2>4, <2>5 DEF Next
<1>. QED  BY <1>1, RegistryInvariance, PTL DEF Spec, AddressStays
=============================================================================
