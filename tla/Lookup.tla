------------------------------- MODULE Lookup -------------------------------
(***************************************************************************)
(* From the provider's configuration to the socket the caller connects:    *)
(* MprpcApplication::Init and MprpcConfig in both processes, the address   *)
(* RpcProvider::Run reads, publishes and listens on, ZkClient::Start with  *)
(* its semaphore and watcher, and the lookup in MprpcChannel::CallMethod,  *)
(* which makes a ZkClient of its own for every call.                       *)
(*                                                                         *)
(* The watcher runs in the ZooKeeper library's thread, at any time after   *)
(* zookeeper_init.  Who creates the node, and who else may, is ZkRegistry; *)
(* what follows the connect is RpcCall.                                    *)
(***************************************************************************)
EXTENDS ConfigFile

CONSTANTS
  Characters,   \* of texts
  CommandLines, \* sequences of "-i file", "-i missing", "-i" and "-x", and words
  Texts,        \* Texts[p]: what p's configuration file may hold
  Garbage,      \* what may stand between the data and the next zero byte in
                \* GetData's buffer
  MaxCalls,     \* bound: calls of the caller
  MaxLosses     \* bound: lost connections to ZooKeeper

Provider  == "provider"
Caller    == "caller"
Processes == {Provider, Caller}

IpKey   == <<"i">>   \* "rpcserverip"
PortKey == <<"p">>   \* "rpcserverport"

Digits == <<"0", "1", "2", "3", "4", "5", "6", "7", "8", "9">>

ASSUME LookupAssumption ==
  /\ MaxCalls \in Nat /\ MaxLosses \in Nat
  /\ ToSet(Digits) \union {":"} \subseteq Characters
  /\ DOMAIN Texts = Processes /\ \A p \in Processes : Texts[p] \subseteq Seq(Characters)
  /\ Garbage \subseteq Seq(Characters)

VARIABLES
  pc,        \* where main, Run or CallMethod is
  text,      \* the file that was loaded (history)
  config,    \* m_configMap
  link,      \* the handle's connection: "none", "down", "up" or "expired"
  context,   \* the handle's context: "null", "sem", or "gone" after Start returned
  posts,     \* value of the semaphore
  wasUp,     \* connected since zookeeper_init (history)
  stray,     \* a post went to a semaphore that is gone (history)
  endpoint,  \* address and port of the provider's TcpServer
  node,      \* data of the method's node, or none
  garbage,   \* what followed the data in GetData's buffer (history)
  host,      \* what GetData returned
  dest,      \* address and port the caller connects to
  calls,     \* calls begun
  losses     \* connections lost

vars == <<pc, text, config, link, context, posts, wasUp, stray, endpoint, node,
          garbage, host, dest, calls, losses>>
appVars    == <<text, config>>
handleVars == <<link, context, posts, wasUp, stray>>
lookupVars == <<garbage, host, dest>>

NoNode == <<>>
NoAddress == [ip |-> <<>>, port |-> 0]

Init ==
  /\ pc = [p \in Processes |-> "boot"]
  /\ text = [p \in Processes |-> <<>>] /\ config = [p \in Processes |-> NoConfig]
  /\ link = [p \in Processes |-> "none"] /\ context = [p \in Processes |-> "null"]
  /\ posts = [p \in Processes |-> 0]
  /\ wasUp = [p \in Processes |-> FALSE] /\ stray = [p \in Processes |-> FALSE]
  /\ endpoint = NoAddress /\ node = NoNode
  /\ garbage = <<>> /\ host = <<>> /\ dest = NoAddress
  /\ calls = 0 /\ losses = 0

Goto(p, to) == pc' = [pc EXCEPT ![p] = to]

-----------------------------------------------------------------------------
(***************************************************************************)
(* MprpcApplication::Init.                                                 *)
(***************************************************************************)
\* No argument, an unknown option or an -i without its file ends the process,
\* and so does a file that does not open: the last one named, or "" if none is.
Loads(args) ==
  /\ args # <<>>
  /\ ToSet(args) \intersect {"-x", "-i"} = {}
  /\ LET files == SelectSeq(args, LAMBDA a : a \in {"-i file", "-i missing"}) IN
       files # <<>> /\ Last(files) = "-i file"

AppInit(p, args, t) ==
  /\ pc[p] = "boot"
  /\ IF Loads(args)
     THEN /\ Goto(p, "main")
          /\ text' = [text EXCEPT ![p] = t]
          /\ config' = [config EXCEPT ![p] = LoadConfigFile(t)]
     ELSE Goto(p, "exited") /\ UNCHANGED appVars
  /\ UNCHANGED <<handleVars, endpoint, node, lookupVars, calls, losses>>

-----------------------------------------------------------------------------
(***************************************************************************)
(* Numbers as text.                                                        *)
(***************************************************************************)
White  == {" ", "\t", "\n", "\r"}

\* how many characters of S the text begins with
Leading(s, S) ==
  LET others == { i \in DOMAIN s : s[i] \notin S } IN
  IF others = {} THEN Len(s) ELSE Min(others) - 1

Shifted(v, digit) == 10 * v + Find(Digits, digit) - 1
Number(digits)    == FoldLeft(LAMBDA v, digit : Shifted(v, digit), 0, digits)

\* atoi is strtol, cut to an int: of the numbers below 2^63 its low 16 bits, all
\* that Port keeps, are these.
Atoi(s) ==
  LET t == SubSeq(s, Leading(s, White) + 1, Len(s))
      signed == t # <<>> /\ t[1] \in {"-", "+"}
      u == IF signed THEN Tail(t) ELSE t
      n == Number(SubSeq(u, 1, Leading(u, ToSet(Digits))))
  IN IF signed /\ t[1] = "-" THEN -n ELSE n

\* uint16_t port = atoi(...)
Word    == 256 * 256
Port(s) == Atoi(s) % Word

\* "%d" of a port
Decimal[n \in 0 .. Word - 1] ==
  IF n < 10 THEN <<Digits[n + 1]>> ELSE Decimal[n \div 10] \o <<Digits[(n % 10) + 1]>>

-----------------------------------------------------------------------------
(***************************************************************************)
(* ZkClient::Start and global_watcher.                                     *)
(***************************************************************************)
InStart(p) == pc[p] \in {"init", "set", "wait"}
HasHandle(p) == link[p] # "none" /\ pc[p] \notin {"exited", "crashed"}

\* zookeeper_init.  Run has read its address before; CallMethod starts here,
\* for every call.
StartBegins(p) ==
  /\ pc[p] = "main"
  /\ IF p = Provider
     THEN /\ endpoint' = [ip |-> Load(config[p], IpKey), port |-> Port(Load(config[p], PortKey))]
          /\ UNCHANGED calls
     ELSE calls < MaxCalls /\ calls' = calls + 1 /\ UNCHANGED endpoint
  /\ Goto(p, "init")
  /\ link' = [link EXCEPT ![p] = "down"]
  /\ context' = [context EXCEPT ![p] = "null"]
  /\ wasUp' = [wasUp EXCEPT ![p] = FALSE] /\ stray' = [stray EXCEPT ![p] = FALSE]
  /\ UNCHANGED <<appVars, posts, node, lookupVars, losses>>

\* zookeeper_init returns no handle.
StartExits(p) ==
  /\ pc[p] = "main"
  /\ Goto(p, "exited")
  /\ UNCHANGED <<appVars, handleVars, endpoint, node, lookupVars, calls, losses>>

\* sem_init and zoo_set_context.
SetsContext(p) ==
  /\ pc[p] = "init"
  /\ posts' = [posts EXCEPT ![p] = 0]
  /\ context' = [context EXCEPT ![p] = "sem"]
  /\ Goto(p, "set")
  /\ UNCHANGED <<appVars, link, wasUp, stray, endpoint, node, lookupVars, calls, losses>>

Waits(p) ==
  /\ pc[p] = "set"
  /\ Goto(p, "wait")
  /\ UNCHANGED <<appVars, handleVars, endpoint, node, lookupVars, calls, losses>>

\* sem_wait returns, and Start: its semaphore is gone, the context points to it.
StartEnds(p) ==
  /\ pc[p] = "wait" /\ posts[p] > 0
  /\ posts' = [posts EXCEPT ![p] = @ - 1]
  /\ context' = [context EXCEPT ![p] = "gone"]
  /\ Goto(p, "started")
  /\ UNCHANGED <<appVars, link, wasUp, stray, endpoint, node, lookupVars, calls, losses>>

\* Mutant: a signal that nobody waits for is lost, as a condition variable's.
Signal(p) == IF pc[p] = "wait" THEN posts[p] + 1 ELSE posts[p]

Post(p) == posts[p] + 1

\* sem_post(zoo_get_context(zh)): a null pointer, the semaphore, or the place
\* where it was, which by now is something else in the thread's stack.
WatcherPosts(p) ==
  \/ context[p] = "null" /\ Goto(p, "crashed") /\ UNCHANGED <<posts, stray>>
  \/ /\ context[p] = "sem"
     /\ posts' = [posts EXCEPT ![p] = Post(p)]
     /\ UNCHANGED <<pc, stray>>
  \/ /\ context[p] = "gone"
     /\ stray' = [stray EXCEPT ![p] = TRUE]
     /\ Goto(p, "crashed") \/ UNCHANGED pc
     /\ UNCHANGED posts

\* The session is connected: the watcher runs.
Connects(p) ==
  /\ HasHandle(p) /\ link[p] = "down"
  /\ link' = [link EXCEPT ![p] = "up"]
  /\ wasUp' = [wasUp EXCEPT ![p] = TRUE]
  /\ WatcherPosts(p)
  /\ UNCHANGED <<appVars, context, endpoint, node, lookupVars, calls, losses>>

\* Mutant: the watcher posts on any session event.
LinkLostPosts(p) ==
  /\ HasHandle(p) /\ link[p] \in {"up", "down"} /\ losses < MaxLosses
  /\ losses' = losses + 1
  /\ link' = [link EXCEPT ![p] = "down"]
  /\ WatcherPosts(p)
  /\ UNCHANGED <<appVars, context, wasUp, endpoint, node, lookupVars, calls>>

\* The connection is lost, or an attempt to connect fails: an event of another
\* state, which the watcher ignores.
LinkLost(p) ==
  /\ HasHandle(p) /\ link[p] \in {"up", "down"} /\ losses < MaxLosses
  /\ losses' = losses + 1
  /\ link' = [link EXCEPT ![p] = "down"]
  /\ UNCHANGED <<appVars, pc, context, posts, wasUp, stray, endpoint, node, lookupVars, calls>>

\* The watcher logs that the session expired.  Its ephemeral node is gone.
SessionExpires(p) ==
  /\ HasHandle(p) /\ link[p] = "down" /\ wasUp[p]
  /\ link' = [link EXCEPT ![p] = "expired"]
  /\ node' = IF p = Provider THEN NoNode ELSE node
  /\ UNCHANGED <<appVars, pc, context, posts, wasUp, stray, endpoint, lookupVars, calls, losses>>

-----------------------------------------------------------------------------
(***************************************************************************)
(* The two ends.                                                           *)
(***************************************************************************)
\* Run: sprintf, Create and server.start().  Without a connection the check in
\* Create fails, which is only logged.
Publishes ==
  /\ pc[Provider] = "started"
  /\ node' = IF link[Provider] = "up"
             THEN endpoint.ip \o <<":">> \o Decimal[endpoint.port] ELSE node
  /\ Goto(Provider, "serve")
  /\ UNCHANGED <<appVars, handleVars, endpoint, lookupVars, calls, losses>>

\* ~ZkClient: zookeeper_close.
Returns ==
  /\ Goto(Caller, "main")
  /\ link' = [link EXCEPT ![Caller] = "none"]
  /\ context' = [context EXCEPT ![Caller] = "null"]
  /\ UNCHANGED <<posts, wasUp, stray>>

\* zoo_get fails: there is no node, no connection, or the request fails for
\* another reason.  GetData returns "" and CallMethod gives up.
LookupFails ==
  /\ pc[Caller] = "started"
  /\ host' = <<>> /\ garbage' = <<>>
  /\ Returns
  /\ UNCHANGED <<appVars, endpoint, node, dest, calls, losses>>

\* Mutant: the colon stays in front of the port.
FromColon(s) == SubSeq(s, Find(s, ":"), Len(s))

AfterColon(s) == SubSeq(s, Find(s, ":") + 1, Len(s))

\* GetData returns its buffer up to the first zero byte, which zoo_get does
\* not write; CallMethod splits it at the first colon.
LookupSucceeds(g) ==
  /\ pc[Caller] = "started" /\ link[Caller] = "up"
  /\ node # NoNode
  /\ garbage' = g
  /\ host' = node \o g
  /\ dest' = [ip |-> SubSeq(host', 1, Find(host', ":") - 1), port |-> Port(AfterColon(host'))]
  /\ Goto(Caller, "connect")
  /\ UNCHANGED <<appVars, handleVars, endpoint, node, calls, losses>>

\* The rest of the call is RpcCall; the handle is open until it returns.
CallReturns ==
  /\ pc[Caller] = "connect"
  /\ Returns
  /\ UNCHANGED <<appVars, endpoint, node, lookupVars, calls, losses>>

-----------------------------------------------------------------------------
StartStep(p) == SetsContext(p) \/ Waits(p) \/ StartEnds(p)

Next ==
  \/ \E p \in Processes :
       \/ \E args \in CommandLines : \E t \in Texts[p] : AppInit(p, args, t)
       \/ StartBegins(p) \/ StartExits(p) \/ StartStep(p)
       \/ Connects(p) \/ LinkLost(p) \/ SessionExpires(p)
  \/ Publishes \/ LookupFails \/ CallReturns
  \/ \E g \in Garbage : LookupSucceeds(g)

Spec == Init /\ [][Next]_vars

\* Threads are scheduled, and the ZooKeeper server can be reached.
FairSpec ==
  /\ Spec
  /\ \A p \in Processes : WF_vars(StartStep(p)) /\ WF_vars(Connects(p))

-----------------------------------------------------------------------------
(***************************************************************************)
(* Properties.                                                             *)
(***************************************************************************)

\* LoadConfigFile reads what the file says line by line, the first setting of
\* a key, unless fgets cuts a line (mprpc_config.cc:20-57): with spaces, blank
\* lines, comments, lines without '=', repeated keys and no last newline.
ConfigAgrees ==
  \A p \in Processes :
    pc[p] \notin {"boot", "exited"} /\ ~HasLongLine(text[p]) => Means(text[p], config[p])

\* A caller connects to what the provider listens on: the port that Run cut to
\* 16 bits, printed, stored and read back.  Not so if the port is 0, for which
\* the kernel takes another one, if the address has a colon of its own, or if
\* what follows the data in GetData's buffer reads like more of the number
\* (zookeeper_client.cc:118-132).
AddressArrives ==
  pc[Caller] = "connect" /\ ~stray[Caller] /\ ~stray[Provider]
    /\ endpoint.port # 0 /\ ":" \notin ToSet(endpoint.ip)
    /\ Leading(garbage, ToSet(Digits)) = 0
      => dest = endpoint

\* Start returns only in a session that has been connected, whatever events
\* came before and between its steps, also for the second handle of a process.
StartMeansConnected ==
  \A p \in Processes : pc[p] \in {"started", "serve", "connect"} => wasUp[p]

\* Start returns once the server can be reached, wherever in Start the event
\* comes, unless it comes before zoo_set_context (zookeeper_client.cc:57-72).
StartReturns ==
  \A p \in Processes : InStart(p) ~> ~InStart(p)

\* What zookeeper_client.h:17 says of GetData, "get the value of the znode":
\* it returns what Run gave to Create.
GetDataIsNode ==
  host \in {<<>>, endpoint.ip \o <<":">> \o Decimal[endpoint.port]}
=============================================================================
