---------------------------- MODULE ServerLifecycle ----------------------------
(***************************************************************************)
(* Entrypoint.java: main starts the web server, then the push gateway,     *)
(* then registers the shutdown hook; a signal may stop the JVM between any *)
(* two of these steps.  WebServer is menton's, modelled as main and the    *)
(* hook use it.                                                            *)
(***************************************************************************)
EXTENDS PushGateway

VARIABLES
  main,  \* where the main thread stands
  web,   \* whether the web server accepts connections
  hook,  \* the shutdown hook and how far its thread has come
  jvm    \* Java's runtime

serverVars == <<manager, main, web, hook, jvm>>

ServerTypeOK ==
  /\ manager \in ManagerState
  /\ main \in {"settings", "web", "build", "start", "hook", "failed", "exit", "run"}
  /\ web \in {"down", "up", "closed"}
  /\ hook \in {"unset", "set", "web", "done", "dead"}
  /\ jvm \in {"up", "stopping", "dead"}

ServerInit ==
  /\ manager = "none"
  /\ main = "settings"
  /\ web = "down"
  /\ hook = "unset"
  /\ jvm = "up"

--------------------------------------------------------------------------------
(* main: start, and exit when it returns false *)

Goes(step) == main' = step
Running == jvm # "dead"

LoadSettings ==
  /\ Running /\ main = "settings"
  /\ Goes("web") \/ Goes("failed")
  /\ UNCHANGED <<manager, web, hook, jvm>>

\* Of its two ports the server may have opened one when it fails.
StartWeb ==
  /\ Running /\ main = "web"
  /\ \/ web' = "up" /\ (Goes("build") \/ Goes("failed"))
     \/ UNCHANGED web /\ Goes("failed")
  /\ UNCHANGED <<manager, hook, jvm>>

\* Mutant: a gateway that cannot be built is logged and left out.
BuildGatewayOrNot ==
  /\ Running /\ main = "build"
  /\ \/ BuildManager /\ Goes("start")
     \/ UNCHANGED manager /\ Goes("hook")
  /\ UNCHANGED <<web, hook, jvm>>

\* The certificate may be missing or wrong.
BuildGateway ==
  /\ Running /\ main = "build"
  /\ \/ BuildManager /\ Goes("start")
     \/ UNCHANGED manager /\ Goes("failed")
  /\ UNCHANGED <<web, hook, jvm>>

\* Mutant: the hook is registered before the manager is started.
StartGatewayAfterHook ==
  /\ Running /\ main = "start"
  /\ \/ StartManager /\ Goes("run")
     \/ UNCHANGED manager /\ Goes("failed")
  /\ hook' = IF jvm = "up" THEN "set" ELSE hook
  /\ UNCHANGED <<web, jvm>>

StartGateway ==
  /\ Running /\ main = "start"
  /\ \/ StartManager /\ Goes("hook")
     \/ UNCHANGED manager /\ Goes("failed")
  /\ UNCHANGED <<web, hook, jvm>>

\* addShutdownHook throws when the shutdown has begun.
AddHook ==
  /\ main = "hook"
  /\ \/ jvm = "up" /\ hook' = "set" /\ Goes("run")
     \/ jvm = "stopping" /\ Goes("failed") /\ UNCHANGED hook
  /\ UNCHANGED <<manager, web, jvm>>

\* Mutant: what start returns is ignored.
ExitForgotten ==
  /\ Running /\ main = "failed"
  /\ Goes("run")
  /\ UNCHANGED <<manager, web, hook, jvm>>

Exit ==
  /\ Running /\ main = "failed"
  /\ Goes("exit")
  /\ jvm' = "stopping"
  /\ UNCHANGED <<manager, web, hook>>

Main == LoadSettings \/ StartWeb \/ BuildGateway \/ StartGateway \/ AddHook \/ Exit

--------------------------------------------------------------------------------
(* The shutdown *)

Signal ==
  /\ jvm = "up"
  /\ jvm' = "stopping"
  /\ UNCHANGED <<manager, main, web, hook>>

\* A missing or unstarted manager throws, and the web server is not shut down.
HookStopsGateway ==
  /\ jvm = "stopping" /\ hook = "set"
  /\ IF manager = "started" THEN ShutdownManager /\ hook' = "web"
     ELSE hook' = "dead" /\ UNCHANGED manager
  /\ UNCHANGED <<main, web, jvm>>

\* Mutant: the hook halts the runtime itself, with System.exit, which waits for it.
HookExits ==
  /\ jvm = "stopping" /\ hook = "web"
  /\ web' = "closed"
  /\ UNCHANGED <<manager, main, hook, jvm>>

\* An exception of the web server is logged.
HookStopsWeb ==
  /\ jvm = "stopping" /\ hook = "web"
  /\ web' = "closed" \/ UNCHANGED web
  /\ hook' = "done"
  /\ UNCHANGED <<manager, main, jvm>>

\* The JVM ends when the hook is done, and with it every connection.
Halt ==
  /\ jvm = "stopping" /\ hook \in {"unset", "done", "dead"}
  /\ jvm' = "dead"
  /\ web' = "closed"
  /\ UNCHANGED <<manager, main, hook>>

Shutdown == HookStopsGateway \/ HookStopsWeb \/ Halt

ServerNext == Main \/ Signal \/ Shutdown

\* The main thread and the hook run on, and what they call returns.
ServerFairness == WF_serverVars(Main) /\ WF_serverVars(Shutdown)

ServerSpec == ServerInit /\ [][ServerNext]_serverVars /\ ServerFairness

--------------------------------------------------------------------------------
(* What start and shutdown promise *)

\* A server that reports to have started accepts connections, its push manager is
\* started and its hook is registered, so that no APNS push meets a missing manager
\* any more.  Before that pushes may: the web server is first.  Entrypoint.java:33-57,
\* ApnsGateway.java:41-72.
StartedMeansComplete ==
  main = "run" /\ jvm = "up" => web = "up" /\ manager = "started" /\ hook = "set"

\* The hook, whenever the signal comes, shuts the push manager down and then the web
\* server: it never dies of a manager that is not there.  Entrypoint.java:43-48, 67-80.
HookFindsManager ==
  /\ hook = "set" => manager = "started"
  /\ hook \in {"web", "done"} => manager = "shutdown"
  /\ hook # "dead"

\* A server that cannot start does not stay behind half started, accepting
\* connections: the process ends.  Entrypoint.java:26-28.
FailedStartEnds == main = "failed" ~> jvm = "dead"

\* A signal ends the process, at whatever moment of the start it comes.
SignalEnds == jvm = "stopping" ~> jvm = "dead"
================================================================================
