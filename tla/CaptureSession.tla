----------------------------- MODULE CaptureSession -----------------------------
(***************************************************************************)
(* Sessions of the capture script (commands/netobserv, scripts/functions.sh)*)
(* that share one namespace of one cluster.  The script runs under set -e   *)
(* with the EXIT trap cleanup(); a failing command, an exit and a signal    *)
(* all lead there, and a command that fails inside the trap ends it.        *)
(* A session whose output is YAML only does nothing to the cluster.         *)
(***************************************************************************)
EXTENDS FiniteSets

CONSTANTS Users,  \* each runs one capture of the script, and the commands after it
          NoOne

ASSUME SessionAssumption == NoOne \notin Users

VARIABLES
  \* The script of a user:
  pc, runBackground, copy, tlsEnabled, skipCleanup, captureStarted,
  output,       \* what the trap has done about the output: "none", "copied", "declined"
  seen,         \* at its check the session saw the namespace: "no", "yes", or "refused" for it
  broken,       \* the trap could not finish
  \* The cluster; an object is named by the user who made it, or applied it last:
  namespace,    \* "absent", "active" or "terminating"
  creator,      \* who made the namespace
  agents,       \* the daemon set
  pod,          \* the collector
  podState,     \* "starting", "ready", or "ended": its capture has ended
  podRuns,      \* the pod's own command is the capture, in the background
  tlsConfig     \* the ConfigMap collector-tls-config

scriptVars == <<pc, runBackground, copy, tlsEnabled, skipCleanup, captureStarted,
                output, seen, broken>>
settings == <<runBackground, copy, tlsEnabled>>
podVars == <<pod, podState, podRuns, tlsConfig>>
clusterVars == <<namespace, creator, agents, podVars>>
vars == <<scriptVars, clusterVars>>

Init ==
  /\ pc = [u \in Users |-> "load_yamls"]
  /\ runBackground = [u \in Users |-> FALSE]
  /\ copy = [u \in Users |-> "prompt"]
  /\ tlsEnabled = [u \in Users |-> FALSE]
  /\ skipCleanup = [u \in Users |-> FALSE]
  /\ captureStarted = [u \in Users |-> FALSE]
  /\ output = [u \in Users |-> "none"]
  /\ seen = [u \in Users |-> "no"]
  /\ broken = [u \in Users |-> FALSE]
  /\ namespace = "absent" /\ creator = NoOne /\ agents = NoOne
  /\ pod = NoOne /\ podState = "starting" /\ podRuns = FALSE /\ tlsConfig = FALSE

--------------------------------------------------------------------------------
(* setup() *)

Step(u, from, to) == pc[u] = from /\ pc' = [pc EXCEPT ![u] = to]

\* Every command up to the trap may fail, and a signal may come before any of them.
Working ==
  {"load_yamls", "parse_args", "check_cluster", "check_namespace", "refuse",
   "create_namespace", "create_services", "deploy_agents", "run_collector", "wait_collector", "deploy_deferred",
   "capture"}

Fail(u) ==
  /\ pc[u] \in Working /\ pc' = [pc EXCEPT ![u] = "cleanup"]
  /\ UNCHANGED <<settings, skipCleanup, captureStarted, output, seen, broken, clusterVars>>

LoadYAMLs(u) ==
  /\ Step(u, "load_yamls", "parse_args")
  /\ skipCleanup' = [skipCleanup EXCEPT ![u] = TRUE]
  /\ UNCHANGED <<settings, captureStarted, output, seen, broken, clusterVars>>

ParseOptions(u) ==
  /\ Step(u, "parse_args", "check_cluster")
  /\ \E b \in BOOLEAN : runBackground' = [runBackground EXCEPT ![u] = b]
  /\ \E c \in {"prompt", "true", "false"} : copy' = [copy EXCEPT ![u] = c]
  /\ UNCHANGED <<tlsEnabled, captureStarted, output, seen, broken, clusterVars>>

\* Mutant: the trap stays switched off once the options are parsed.
ParseArgsOnly(u) == ParseOptions(u) /\ UNCHANGED skipCleanup

\* While parse_args runs the trap is switched off.
ParseArgs(u) == ParseOptions(u) /\ skipCleanup' = [skipCleanup EXCEPT ![u] = FALSE]

\* clusterIsReady and checkClusterVersion; where they do not hold, Fail.
CheckCluster(u) ==
  /\ Step(u, "check_cluster", "check_namespace")
  /\ UNCHANGED <<settings, skipCleanup, captureStarted, output, seen, broken, clusterVars>>

\* A kubectl get that fails is taken for a namespace that is absent.  On OpenShift, captures of
\* flows and packets use TLS.  getNodesByLabel may make it Fail then.
NamespaceFree(u) ==
  /\ Step(u, "check_namespace", "create_namespace")
  /\ \E tls \in BOOLEAN : tlsEnabled' = [tlsEnabled EXCEPT ![u] = tls]
  /\ UNCHANGED <<runBackground, copy, skipCleanup, captureStarted, output, seen, broken,
                 clusterVars>>

NamespaceFound(u) ==
  /\ namespace # "absent" /\ Step(u, "check_namespace", "refuse")
  /\ seen' = [seen EXCEPT ![u] = "yes"]
  /\ UNCHANGED <<settings, skipCleanup, captureStarted, output, broken, clusterVars>>

CheckNamespace(u) == NamespaceFree(u) \/ NamespaceFound(u)

\* Mutant: the refusal does not keep the trap from its work.
RefuseOnly(u) ==
  /\ Step(u, "refuse", "cleanup")
  /\ seen' = [seen EXCEPT ![u] = "refused"]
  /\ UNCHANGED <<settings, skipCleanup, captureStarted, output, broken, clusterVars>>

\* The message, then skipCleanup; where the message fails, or a signal comes first, Fail.
Refuse(u) ==
  /\ Step(u, "refuse", "cleanup")
  /\ seen' = [seen EXCEPT ![u] = "refused"]
  /\ skipCleanup' = [skipCleanup EXCEPT ![u] = TRUE]
  /\ UNCHANGED <<settings, captureStarted, output, broken, clusterVars>>

\* To apply a namespace that exists, or terminates, succeeds and makes nothing.
CreateNamespace(u) ==
  /\ Step(u, "create_namespace", "create_services")
  /\ IF namespace = "absent" THEN namespace' = "active" /\ creator' = u
                             ELSE UNCHANGED <<namespace, creator>>
  /\ UNCHANGED <<settings, skipCleanup, captureStarted, output, seen, broken, agents, podVars>>

\* Mutant: the agents are not deferred for TLS.
CreateServicesAtOnce(u) ==
  /\ namespace = "active" /\ Step(u, "create_services", "deploy_agents")
  /\ UNCHANGED <<settings, skipCleanup, captureStarted, output, seen, broken, clusterVars>>

\* The service account, the service and, for TLS, the CA; the agents wait for the collector then.
CreateServices(u) ==
  /\ namespace = "active"
  /\ Step(u, "create_services", IF tlsEnabled[u] THEN "run_collector" ELSE "deploy_agents")
  /\ UNCHANGED <<settings, skipCleanup, captureStarted, output, seen, broken, clusterVars>>

\* applyYAML of the agents, then waitDaemonset: where that fails, the next step does.
Deploy(u, from, to) ==
  /\ namespace = "active" /\ Step(u, from, to)
  /\ agents' = u
  /\ UNCHANGED <<settings, skipCleanup, captureStarted, output, seen, broken,
                 namespace, creator, podVars>>

DeployAgents(u) == Deploy(u, "deploy_agents", "run_collector")

--------------------------------------------------------------------------------
(* The rest of commands/netobserv *)

\* kubectl run fails on a pod that exists.
RunCollector(u) ==
  /\ namespace = "active" /\ pod = NoOne
  /\ Step(u, "run_collector", "wait_collector")
  /\ pod' = u /\ podState' = "starting" /\ podRuns' = runBackground[u]
  /\ UNCHANGED <<settings, skipCleanup, captureStarted, output, seen, broken,
                 namespace, creator, agents, tlsConfig>>

WaitCollector(u) ==
  /\ pod # NoOne /\ podState # "starting"
  /\ Step(u, "wait_collector", IF tlsEnabled[u] THEN "deploy_deferred" ELSE "capture")
  /\ captureStarted' = [captureStarted EXCEPT ![u] = TRUE]
  /\ UNCHANGED <<settings, skipCleanup, output, seen, broken, clusterVars>>

DeployDeferred(u) == Deploy(u, "deploy_deferred", "capture")

\* The foreground executes the capture in the pod until it ends; the background only says how
\* to go on.
Capture(u) ==
  /\ Step(u, "capture", "cleanup")
  /\ UNCHANGED <<settings, skipCleanup, captureStarted, output, seen, broken, clusterVars>>

--------------------------------------------------------------------------------
(* cleanup(), from the EXIT trap or the command of that name *)

Trap ==
  {"cleanup", "copy", "delete_agents", "delete_pod", "delete_namespace", "await_deletion"}

\* A command of the trap fails, or clusterIsReady does ("Cleanup namespace skipped").
BreakOff(u) ==
  /\ pc[u] \in Trap /\ pc' = [pc EXCEPT ![u] = "done"]
  /\ broken' = [broken EXCEPT ![u] = TRUE]
  /\ UNCHANGED <<settings, skipCleanup, captureStarted, output, seen, clusterVars>>

BeginCleanup(u) ==
  /\ Step(u, "cleanup",
       IF runBackground[u] \/ skipCleanup[u] THEN "done"
       ELSE IF captureStarted[u] /\ copy[u] # "false" THEN "copy" ELSE "delete_agents")
  /\ UNCHANGED <<settings, skipCleanup, captureStarted, output, seen, broken, clusterVars>>

\* Mutant: the trap goes on although kubectl cp has failed.
CopyOrNot(u) ==
  /\ Step(u, "copy", "delete_agents")
  /\ \E result \in {"none", "copied"} : output' = [output EXCEPT ![u] = result]
  /\ UNCHANGED <<settings, skipCleanup, captureStarted, seen, broken, clusterVars>>

\* copyOutput: where kubectl cp fails, so does the trap.
CopyOutput(u) ==
  /\ pod # NoOne /\ podState # "starting"
  /\ Step(u, "copy", "delete_agents")
  /\ output' = [output EXCEPT ![u] = "copied"]
  /\ UNCHANGED <<settings, skipCleanup, captureStarted, seen, broken, clusterVars>>

DeclineCopy(u) ==
  /\ copy[u] = "prompt" /\ Step(u, "copy", "delete_agents")
  /\ output' = [output EXCEPT ![u] = "declined"]
  /\ UNCHANGED <<settings, skipCleanup, captureStarted, seen, broken, clusterVars>>

DeleteAgents(u) ==
  /\ Step(u, "delete_agents", "delete_pod") /\ agents' = NoOne
  /\ UNCHANGED <<settings, skipCleanup, captureStarted, output, seen, broken,
                 namespace, creator, podVars>>

DeletePod(u) ==
  /\ Step(u, "delete_pod", "delete_namespace") /\ pod' = NoOne
  /\ UNCHANGED <<settings, skipCleanup, captureStarted, output, seen, broken,
                 namespace, creator, agents, podState, podRuns, tlsConfig>>

DeleteNamespace(u) ==
  /\ Step(u, "delete_namespace", "await_deletion")
  /\ namespace' = (IF namespace = "active" THEN "terminating" ELSE namespace)
  /\ UNCHANGED <<settings, skipCleanup, captureStarted, output, seen, broken,
                 creator, agents, podVars>>

\* kubectl delete returns once the namespace is gone; another may have taken its name.
NamespaceDeleted(u) ==
  /\ namespace # "terminating" /\ Step(u, "await_deletion", "done")
  /\ UNCHANGED <<settings, skipCleanup, captureStarted, output, seen, broken, clusterVars>>

--------------------------------------------------------------------------------
(* The other commands, each a process of its own, and the cluster *)

CleanupCommand(u) ==
  /\ Step(u, "done", "cleanup")
  /\ runBackground' = [runBackground EXCEPT ![u] = FALSE]
  /\ copy' = [copy EXCEPT ![u] = "prompt"]
  /\ skipCleanup' = [skipCleanup EXCEPT ![u] = FALSE]
  /\ captureStarted' = [captureStarted EXCEPT ![u] = FALSE]
  /\ seen' = [seen EXCEPT ![u] = "no"]
  /\ broken' = [broken EXCEPT ![u] = FALSE]
  /\ UNCHANGED <<tlsEnabled, output, clusterVars>>

StopCommand(u) ==
  /\ pc[u] = "done" /\ agents' = NoOne
  /\ UNCHANGED <<scriptVars, namespace, creator, podVars>>

CopyCommand(u) ==
  /\ pc[u] = "done" /\ pod # NoOne /\ podState # "starting"
  /\ output' = [output EXCEPT ![u] = "copied"]
  /\ UNCHANGED <<pc, settings, skipCleanup, captureStarted, seen, broken, clusterVars>>

\* With TLS, the init container resolve-tls has written its ConfigMap before the collector starts.
CollectorStarts ==
  /\ pod # NoOne /\ podState = "starting" /\ namespace = "active"
  /\ podState' = "ready" /\ tlsConfig' = (tlsConfig \/ tlsEnabled[pod])
  /\ UNCHANGED <<scriptVars, namespace, creator, agents, pod, podRuns>>

\* At its limit a capture in the background deletes the agents, and the pod stays.
LimitReached ==
  /\ pod # NoOne /\ podState = "ready" /\ podRuns
  /\ podState' = "ended" /\ agents' = NoOne
  /\ UNCHANGED <<scriptVars, namespace, creator, pod, podRuns, tlsConfig>>

NamespaceTerminates ==
  /\ namespace = "terminating" /\ namespace' = "absent"
  /\ creator' = NoOne /\ agents' = NoOne /\ pod' = NoOne /\ tlsConfig' = FALSE
  /\ UNCHANGED <<scriptVars, podState, podRuns>>

Setup(u) ==
  \/ LoadYAMLs(u) \/ ParseArgs(u) \/ CheckCluster(u) \/ CheckNamespace(u) \/ Refuse(u)
  \/ CreateNamespace(u) \/ CreateServices(u) \/ DeployAgents(u)
Collect(u) == RunCollector(u) \/ WaitCollector(u) \/ DeployDeferred(u) \/ Capture(u)
Cleanup(u) ==
  \/ BeginCleanup(u) \/ CopyOutput(u) \/ DeclineCopy(u) \/ DeleteAgents(u) \/ DeletePod(u)
  \/ DeleteNamespace(u) \/ NamespaceDeleted(u)
Session(u) == Setup(u) \/ Collect(u) \/ Fail(u) \/ Cleanup(u) \/ BreakOff(u)
Commands(u) == CleanupCommand(u) \/ StopCommand(u) \/ CopyCommand(u)
Cluster == CollectorStarts \/ LimitReached \/ NamespaceTerminates

Next == Cluster \/ \E u \in Users : Session(u) \/ Commands(u)

Spec == Init /\ [][Next]_vars

--------------------------------------------------------------------------------
(* Properties *)

Places == Working \cup Trap \cup {"done"}

TypeOK ==
  /\ pc \in [Users -> Places]
  /\ runBackground \in [Users -> BOOLEAN] /\ tlsEnabled \in [Users -> BOOLEAN]
  /\ copy \in [Users -> {"prompt", "true", "false"}]
  /\ skipCleanup \in [Users -> BOOLEAN] /\ captureStarted \in [Users -> BOOLEAN]
  /\ output \in [Users -> {"none", "copied", "declined"}]
  /\ seen \in [Users -> {"no", "yes", "refused"}] /\ broken \in [Users -> BOOLEAN]
  /\ namespace \in {"absent", "active", "terminating"}
  /\ {creator, agents, pod} \subseteq Users \cup {NoOne}
  /\ podState \in {"starting", "ready", "ended"}
  /\ podRuns \in BOOLEAN /\ tlsConfig \in BOOLEAN

\* A session that has seen the namespace changes nothing in the cluster, though its trap runs
\* all the same: "we should not override content".  The exception is a trap that came between
\* the sight and skipCleanup: it deletes what was seen.
SeenIsSpared ==
  [][\A u \in Users :
       (seen[u] # "no" /\ pc'[u] # pc[u]) =>
         UNCHANGED clusterVars \/ (seen[u] = "yes" /\ pc[u] \in Trap)]_vars

\* The trap deletes the collector of a capture that had started only after the output was
\* copied, or its user declined it: a copy that fails must not lose the output.
CopiedBeforeDeleted ==
  [][\A u \in Users :
       (pc[u] = "delete_pod" /\ pc'[u] # pc[u] /\ pod = u /\ pod' # u /\ captureStarted[u]) =>
         \/ output[u] = "copied" \/ copy[u] = "false"
         \/ output[u] = "declined" /\ copy[u] = "prompt"]_vars

\* Whatever step of a session fails and whatever others do meanwhile, nothing of a user's is
\* left in the cluster once the user's trap (or cleanup command) has come to its end.
SessionCleans ==
  \A u \in Users :
    (pc[u] = "done" /\ ~runBackground[u] /\ ~broken[u]) => u \notin {creator, agents, pod}

\* Agents that read their TLS settings from the ConfigMap come after the collector of the same
\* session has written it, however the set-up went.
AgentsFindTLSConfig ==
  \A u \in Users : (agents = u /\ pod = u /\ tlsEnabled[u]) => tlsConfig

================================================================================
