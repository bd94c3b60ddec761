----------------------------- MODULE LookupInv -----------------------------
(***************************************************************************)
(* The inductive invariant of Lookup: what a post tells Start, what the    *)
(* node holds once it is there, and what the caller has made of it.        *)
(***************************************************************************)
EXTENDS Lookup

Files   == UNION { Texts[p] : p \in Processes }
Configs == {NoConfig} \union { LoadConfigFile(t) : t \in Files }

TypeOK ==
  /\ pc \in [Processes -> {"boot", "main", "init", "set", "wait", "started", "serve", "connect",
                           "exited", "crashed"}]
  /\ text \in [Processes -> {<<>>} \union Files] /\ config \in [Processes -> Configs]
  /\ link \in [Processes -> {"none", "down", "up", "expired"}]
  /\ context \in [Processes -> {"null", "sem", "gone"}]
  /\ posts \in [Processes -> Nat]
  /\ wasUp \in [Processes -> BOOLEAN] /\ stray \in [Processes -> BOOLEAN]
  /\ calls \in 0 .. MaxCalls /\ losses \in 0 .. MaxLosses

\* A process that runs has loaded its file; one that does not yet has no handle,
\* whose watcher might crash it.
ConfigInv ==
  \A p \in Processes :
    /\ pc[p] = "boot" => link[p] = "none"
    /\ pc[p] \notin {"boot", "exited"} =>
         text[p] \in Texts[p] /\ config[p] = LoadConfigFile(text[p])

\* Start, once its semaphore is there, finds only posts of this connection.
SemaphoreInv ==
  \A p \in Processes :
    /\ pc[p] \in {"set", "wait"} /\ posts[p] > 0 => wasUp[p]
    /\ pc[p] \in {"started", "serve", "connect"} => wasUp[p]

Endpoints == [ip : Seq(Characters), port : 0 .. Word - 1]
TextOf(e) == e.ip \o <<":">> \o Decimal[e.port]

\* Run reads its address once, before there is a node, and publishes that.
Published == pc[Provider] \in {"serve", "crashed"}
NodeInv ==
  /\ pc[Provider] \in {"init", "set", "wait", "started", "serve"} => endpoint \in Endpoints
  /\ node # NoNode => Published /\ endpoint \in Endpoints /\ node = TextOf(endpoint)

\* The caller connects to what it read, which is still what was published,
\* though the node may be gone.
DestInv ==
  pc[Caller] = "connect" =>
    /\ Published /\ endpoint \in Endpoints /\ garbage \in Garbage
    /\ LET read == TextOf(endpoint) \o garbage IN
       dest = [ip |-> SubSeq(read, 1, Find(read, ":") - 1), port |-> Port(AfterColon(read))]

\* The inductive invariant (zookeeper_client.cc:9-134, rpc_provider.cc:53-94,
\* mprpc_channel.cc:97-117).
LookupInvariant == TypeOK /\ ConfigInv /\ SemaphoreInv /\ NodeInv /\ DestInv
=============================================================================
