-------------------------- MODULE CaptureSessionProofs --------------------------
(* What a session of the script spares, leaves behind and configures, for any number *)
(* of users of one namespace.                                                        *)
EXTENDS CaptureSession, TLAPS

\* A refused session has nothing left to do but end, one that saw the namespace no set-up; no
\* other works with the trap switched off.
Refused ==
  \A u \in Users :
    /\ seen[u] = "refused" => skipCleanup[u] /\ pc[u] \in {"cleanup", "done"}
    /\ seen[u] = "yes" => pc[u] \in Trap \cup {"refuse", "done"}
    /\ skipCleanup[u] => pc[u] \in {"parse_args", "cleanup", "done"}

\* The order in which a trap has deleted what is a user's, and who has nothing to delete.
Nothing(u) == u \notin {creator, agents, pod}
Deleted ==
  \A u \in Users :
    /\ skipCleanup[u] => Nothing(u)
    /\ pc[u] \in {"load_yamls", "parse_args", "check_cluster", "check_namespace",
                "refuse", "create_namespace"} =>
         Nothing(u)
    /\ pc[u] = "delete_pod" => agents # u
    /\ pc[u] \in {"delete_namespace", "await_deletion"} => u \notin {agents, pod}
    /\ pc[u] = "await_deletion" /\ creator = u => namespace = "terminating"
Emptied == namespace = "absent" => creator = NoOne /\ agents = NoOne /\ pod = NoOne

\* The set-up for TLS: no agents before the collector has started.
Deferred ==
  \A u \in Users :
    tlsEnabled[u] =>
      /\ pc[u] # "deploy_agents"
      /\ pc[u] \in {"create_services", "run_collector", "wait_collector", "deploy_deferred"} =>
           agents # u
      /\ pc[u] = "deploy_deferred" /\ pod = u => podState # "starting"
Configured == pod \in Users /\ podState # "starting" /\ tlsEnabled[pod] => tlsConfig

\* A trap past its copy has the output, or its user's word.
Kept(u) ==
  \/ output[u] = "copied" \/ copy[u] = "false"
  \/ output[u] = "declined" /\ copy[u] = "prompt"
CopyFirst ==
  \A u \in Users : pc[u] \in {"delete_agents", "delete_pod"} /\ captureStarted[u] => Kept(u)

Inv ==
  /\ TypeOK /\ Refused /\ Deleted /\ Emptied /\ SessionCleans
  /\ Deferred /\ Configured /\ AgentsFindTLSConfig /\ CopyFirst

\* The steps of a script that leave the cluster as it is.
Local(u) ==
  \/ LoadYAMLs(u) \/ ParseArgs(u) \/ CheckCluster(u) \/ CheckNamespace(u) \/ Refuse(u)
  \/ CreateServices(u) \/ WaitCollector(u) \/ Capture(u) \/ Fail(u) \/ BreakOff(u) \/ BeginCleanup(u)
  \/ CopyOutput(u) \/ DeclineCopy(u) \/ NamespaceDeleted(u) \/ CleanupCommand(u) \/ CopyCommand(u)

\* The start.
LEMMA InitInv == Init => Inv
<1> SUFFICES ASSUME Init PROVE Inv
  OBVIOUS
<1> USE SessionAssumption DEF Init
<1>1. TypeOK
  BY DEF TypeOK, Places, Working
<1>2. Refused /\ Deleted /\ Emptied /\ SessionCleans /\ CopyFirst
  BY DEF Refused, Deleted, Nothing, Emptied, SessionCleans, CopyFirst
<1>3. Deferred /\ Configured /\ AgentsFindTLSConfig
  BY DEF Deferred, Configured, AgentsFindTLSConfig
<1>4. QED
  BY <1>1, <1>2, <1>3 DEF Inv

\* Those steps.
LEMMA LocalStep ==
  ASSUME Inv, NEW u \in Users, UNCHANGED clusterVars, Local(u)
  PROVE  Inv'
<1> USE SessionAssumption
        DEF Inv, Local, clusterVars, podVars, settings, Step, Fail, LoadYAMLs, ParseArgs,
            ParseOptions, CheckCluster, CheckNamespace, NamespaceFree, NamespaceFound, Refuse, CreateServices,
            WaitCollector, Capture, BreakOff, BeginCleanup, CopyOutput, DeclineCopy,
            NamespaceDeleted, CleanupCommand, CopyCommand, TypeOK, Working, Trap, Places
<1>1. TypeOK'
  <2>1. CASE ParseArgs(u)
    BY <2>1
  <2>2. CASE CheckNamespace(u)
    BY <2>2
  <2>3. CASE Refuse(u)
    BY <2>3
  <2>4. CASE CleanupCommand(u)
    BY <2>4
  <2>5. CASE Fail(u) \/ BreakOff(u) \/ BeginCleanup(u)
    BY <2>5
  <2>6. CASE \/ LoadYAMLs(u) \/ CheckCluster(u) \/ CreateServices(u) \/ WaitCollector(u)
             \/ Capture(u) \/ CopyOutput(u) \/ DeclineCopy(u) \/ NamespaceDeleted(u) \/ CopyCommand(u)
    BY <2>6
  <2>7. QED
    BY <2>1, <2>2, <2>3, <2>4, <2>5, <2>6, Zenon
<1>2. Refused'
  BY DEF Refused
<1>3. Deleted' /\ Emptied'
  BY DEF Refused, Deleted, Nothing, Emptied
<1>4. SessionCleans'
  BY DEF Deleted, Nothing, SessionCleans
<1>5. Deferred' /\ Configured' /\ AgentsFindTLSConfig'
  BY DEF Deleted, Nothing, Deferred, Configured, AgentsFindTLSConfig
<1>6. CopyFirst'
  BY DEF CopyFirst, Kept
<1>7. QED
  BY <1>1, <1>2, <1>3, <1>4, <1>5, <1>6 DEF Inv

\* The steps of a session, or of the command stop, that change the cluster.
LEMMA ClusterStep ==
  ASSUME Inv, NEW u \in Users,
         \/ CreateNamespace(u) \/ DeployAgents(u) \/ RunCollector(u) \/ DeployDeferred(u)
         \/ DeleteAgents(u) \/ DeletePod(u) \/ DeleteNamespace(u) \/ StopCommand(u)
  PROVE  Inv'
<1> USE SessionAssumption
        DEF Inv, podVars, settings, scriptVars, Step, Deploy, CreateNamespace, DeployAgents,
            RunCollector, DeployDeferred, DeleteAgents, DeletePod, DeleteNamespace, StopCommand,
            TypeOK, Working, Trap, Places
<1>1. TypeOK'
  OBVIOUS
<1>2. Refused'
  BY DEF Refused
<1>3. Deleted'
  BY DEF Refused, Deleted, Nothing, Emptied
<1>4. Emptied'
  BY DEF Emptied
<1>5. SessionCleans'
  BY DEF Deleted, Nothing, SessionCleans
<1>6. Deferred'
  BY DEF Deleted, Nothing, Deferred
<1>7. Configured' /\ AgentsFindTLSConfig'
  BY DEF Deferred, Configured, AgentsFindTLSConfig
<1>8. CopyFirst'
  BY DEF CopyFirst, Kept
<1>9. QED
  BY <1>1, <1>2, <1>3, <1>4, <1>5, <1>6, <1>7, <1>8 DEF Inv

\* The steps of the cluster.
LEMMA SystemStep ==
  ASSUME Inv, Cluster
  PROVE  Inv'
<1> USE SessionAssumption
        DEF Inv, settings, scriptVars, Cluster, CollectorStarts, LimitReached,
            NamespaceTerminates, TypeOK
<1>1. TypeOK'
  OBVIOUS
<1>2. Refused' /\ Deleted' /\ Emptied' /\ SessionCleans' /\ CopyFirst'
  BY DEF Refused, Deleted, Nothing, Emptied, SessionCleans, CopyFirst, Kept
<1>3. Deferred' /\ Configured' /\ AgentsFindTLSConfig'
  BY DEF Deferred, Configured, AgentsFindTLSConfig
<1>4. QED
  BY <1>1, <1>2, <1>3 DEF Inv

\* They do.
LEMMA LocalSpares ==
  ASSUME NEW u \in Users, Local(u)
  PROVE  UNCHANGED clusterVars
BY DEF Local, Fail, LoadYAMLs, ParseArgs, ParseOptions, CheckCluster, CheckNamespace,
       NamespaceFree, NamespaceFound, Refuse, CreateServices, WaitCollector, Capture, BreakOff, BeginCleanup,
       CopyOutput, DeclineCopy, NamespaceDeleted, CleanupCommand, CopyCommand

\* Every step keeps the invariant: the system's, a user's on the cluster, a user's own.
LEMMA NextInv == Inv /\ [Next]_vars => Inv'
<1> SUFFICES ASSUME Inv, [Next]_vars PROVE Inv'
  OBVIOUS
<1>1. CASE Cluster
  BY <1>1, SystemStep
<1>2. ASSUME NEW u \in Users, Session(u) \/ Commands(u) PROVE Inv'
  BY <1>2, LocalStep, LocalSpares, ClusterStep DEF Local, Session, Setup, Collect, Cleanup, Commands
<1>3. CASE UNCHANGED vars
  BY <1>3, Zenon
     DEF vars, scriptVars, clusterVars, podVars, settings, Inv, TypeOK, Refused, Deleted,
         Nothing, Emptied, SessionCleans, Deferred, Configured, AgentsFindTLSConfig,
         CopyFirst, Kept
<1>4. QED
  BY <1>1, <1>2, <1>3 DEF Next

\* The invariant always holds.
LEMMA Invariance == Spec => []Inv
<1>1. Init => Inv
  BY InitInv
<1>2. Inv /\ [Next]_vars => Inv'
  BY NextInv
<1>3. QED
  BY <1>1, <1>2, PTL DEF Spec

\* However set-ups fail and sessions overlap, a trap that has come to its end leaves nothing
\* of its user's in the cluster.
THEOREM CleanupCorrect == Spec => []SessionCleans
<1>1. Inv => SessionCleans
  BY DEF Inv
<1>2. QED
  BY <1>1, Invariance, PTL

\* Agents of a TLS session come after the ConfigMap they read.
THEOREM TLSOrderCorrect == Spec => []AgentsFindTLSConfig
<1>1. Inv => AgentsFindTLSConfig
  BY DEF Inv
<1>2. QED
  BY <1>1, Invariance, PTL

\* A session that saw the namespace changes nothing in the cluster, from its trap neither,
\* unless that trap came before skipCleanup.
THEOREM RefusalCorrect == Spec => SeenIsSpared
<1>1. Inv /\ [Next]_vars =>
        [\A u \in Users :
           (seen[u] # "no" /\ pc'[u] # pc[u]) =>
             UNCHANGED clusterVars \/ (seen[u] = "yes" /\ pc[u] \in Trap)]_vars
  <2> SUFFICES ASSUME Inv, Next, NEW u \in Users, seen[u] # "no", pc'[u] # pc[u],
                      ~(seen[u] = "yes" /\ pc[u] \in Trap)
               PROVE  UNCHANGED clusterVars
    BY DEF vars
  <2>1. \/ skipCleanup[u] /\ pc[u] \in {"cleanup", "done"}
        \/ pc[u] \in {"refuse", "done"}
    BY DEF Inv, Refused, TypeOK
  <2>2. PICK v \in Users : Session(v) \/ Commands(v)
    BY DEF Next, Cluster, CollectorStarts, LimitReached, NamespaceTerminates, scriptVars
  <2>3. CASE v = u
    BY <2>1, <2>2, <2>3
       DEF Session, Setup, Collect, Cleanup, Commands, Fail, LoadYAMLs, ParseArgs, ParseOptions,
           CheckCluster, CheckNamespace, NamespaceFree, NamespaceFound, Refuse, CreateNamespace, CreateServices,
           Deploy, DeployAgents, RunCollector, WaitCollector, DeployDeferred, Capture, BreakOff,
           BeginCleanup, CopyOutput, DeclineCopy, DeleteAgents, DeletePod, DeleteNamespace,
           NamespaceDeleted, CleanupCommand, StopCommand, CopyCommand, Step, Working, scriptVars
  <2>4. CASE v # u
    <3>1. pc'[u] = pc[u]
      BY <2>2, <2>4
         DEF Inv, TypeOK, Session, Setup, Collect, Cleanup, Commands, Fail, LoadYAMLs,
             ParseArgs, ParseOptions, CheckCluster, CheckNamespace, NamespaceFree, NamespaceFound, Refuse,
             CreateNamespace, CreateServices, Deploy, DeployAgents, RunCollector, WaitCollector,
             DeployDeferred, Capture, BreakOff, BeginCleanup, CopyOutput, DeclineCopy,
             DeleteAgents, DeletePod, DeleteNamespace, NamespaceDeleted, CleanupCommand,
             StopCommand, CopyCommand, Step, scriptVars
    <3>2. QED
      BY <3>1
  <2>5. QED
    BY <2>3, <2>4
<1>2. QED
  BY <1>1, Invariance, PTL DEF Spec, SeenIsSpared

\* No trap deletes the collector of its capture before the output was copied or declined,
\* whichever of its commands fail.
THEOREM CopyCorrect == Spec => CopiedBeforeDeleted
<1>1. Inv =>
        [\A u \in Users :
           (pc[u] = "delete_pod" /\ pc'[u] # pc[u] /\ pod = u /\ pod' # u /\ captureStarted[u]) =>
             \/ output[u] = "copied" \/ copy[u] = "false"
             \/ output[u] = "declined" /\ copy[u] = "prompt"]_vars
  BY DEF Inv, CopyFirst, Kept
<1>2. QED
  BY <1>1, Invariance, PTL DEF CopiedBeforeDeleted
================================================================================
