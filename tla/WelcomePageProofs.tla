--------------------------- MODULE WelcomePageProofs ---------------------------
(***************************************************************************)
(* Theorems about the start and the shutdown of the server, beside a       *)
(* browser that loads the home page from it.                               *)
(*                                                                         *)
(* That the hook finds its manager follows from no single step: main, a    *)
(* signal and the hook take turns.  The inductive invariant is a table of  *)
(* what web server, manager and hook are at each line of main (Started),   *)
(* and of what the hook leaves behind (Ended).                             *)
(***************************************************************************)
EXTENDS WelcomePage, TLAPS

\* What each line of main may count on.
Started ==
  /\ main \in {"build", "start", "hook"} /\ jvm # "dead" => web = "up"
  /\ main \in {"settings", "web", "build"} => manager = "none"
  /\ main = "start" => manager = "built"
  /\ main = "hook" => manager = "started"
  /\ main = "run" => hook # "unset"
  /\ main # "run" => hook = "unset"
  /\ hook = "set" => manager = "started" /\ (jvm # "dead" => web = "up")

\* What the shutdown hook leaves behind.
Ended ==
  /\ hook \in {"web", "done"} => manager = "shutdown" /\ jvm # "up"
  /\ hook # "dead"
  /\ main = "exit" => jvm # "up"

ServerInv == ServerTypeOK /\ Started /\ Ended
--------------------------------------------------------------------------------

\* Every step of main, the hook or the runtime keeps the invariant.
LEMMA ServerStep ==
  ASSUME ServerInv, [ServerNext]_serverVars
  PROVE  ServerInv'
  <1> USE DEF ServerInv, ServerTypeOK, Started, Ended, ManagerState, Goes, Running
  <1>1. CASE LoadSettings
    BY <1>1 DEF LoadSettings
  <1>2. CASE StartWeb
    BY <1>2 DEF StartWeb
  <1>3. CASE BuildGateway
    BY <1>3 DEF BuildGateway, BuildManager
  <1>4. CASE StartGateway
    BY <1>4 DEF StartGateway, StartManager
  <1>5. CASE AddHook
    BY <1>5 DEF AddHook
  <1>6. CASE Exit
    BY <1>6 DEF Exit
  <1>7. CASE Signal
    BY <1>7 DEF Signal
  <1>8. CASE HookStopsGateway
    BY <1>8 DEF HookStopsGateway, ShutdownManager
  <1>9. CASE HookStopsWeb
    BY <1>9 DEF HookStopsWeb
  <1>10. CASE Halt
    BY <1>10 DEF Halt
  <1>11. CASE UNCHANGED serverVars
    BY <1>11 DEF serverVars
  <1> QED
    BY <1>1, <1>2, <1>3, <1>4, <1>5, <1>6, <1>7, <1>8, <1>9, <1>10, <1>11
       DEF ServerNext, Main, Shutdown

\* The browser changes nothing of the server.
LEMMA BrowserLeavesServer ==
  ASSUME [Next]_vars
  PROVE  [ServerNext]_serverVars
  BY DEF Next, vars, Open, Browser, Tags, Tag, ScriptTag, Loaded, FetchScript, Render

\* The invariant of the server holds beside any browser.
THEOREM ServerInvariance == Spec => []ServerInv
  <1>1. Init => ServerInv
    BY DEF Init, ServerInit, ServerInv, ServerTypeOK, Started, Ended, ManagerState
  <1>2. ServerInv /\ [Next]_vars => ServerInv'
    BY ServerStep, BrowserLeavesServer
  <1> QED
    BY <1>1, <1>2, PTL DEF Spec

\* Server and browser keep their types.
THEOREM TypeCorrect == Spec => []TypeOK
  <1>1. Init => TypeOK
    BY DEF Init, ServerInit, TypeOK, ServerTypeOK, ManagerState
  <1>2. TypeOK /\ ServerInv' /\ [Next]_vars => TypeOK'
    <2> SUFFICES ASSUME TypeOK, ServerInv', [Next]_vars PROVE TypeOK'
      OBVIOUS
    <2> USE DEF TypeOK, ServerInv
    <2>1. CASE UNCHANGED pageVars
      BY <2>1 DEF pageVars
    <2>2. CASE Open
      BY <2>2 DEF Open
    <2>3. CASE Tags
      BY <2>3 DEF Tags, Tag, ScriptTag
    <2>4. CASE Loaded
      BY <2>4 DEF Loaded
    <2>5. CASE FetchScript
      BY <2>5 DEF FetchScript
    <2>6. CASE Render
      BY <2>6 DEF Render
    <2> QED
      BY <2>1, <2>2, <2>3, <2>4, <2>5, <2>6 DEF Next, Browser, vars
  <1> QED
    BY <1>1, <1>2, ServerInvariance, PTL DEF Spec

\* A server that reports to have started has its web server, its push manager and its
\* hook, wherever a signal came in between.
THEOREM StartIsComplete == Spec => []StartedMeansComplete
  <1>1. ServerInv => StartedMeansComplete
    BY DEF ServerInv, ServerTypeOK, Started, Ended, StartedMeansComplete
  <1> QED
    BY <1>1, ServerInvariance, PTL

\* The hook never dies of a manager that is not there.
THEOREM HookHasManager == Spec => []HookFindsManager
  <1>1. ServerInv => HookFindsManager
    BY DEF ServerInv, Started, Ended, HookFindsManager
  <1> QED
    BY <1>1, ServerInvariance, PTL
--------------------------------------------------------------------------------

\* The libraries a page has run that has got everything so far.
Libraries ==
  ~lost =>
    /\ page \in {"reactDom", "script", "babel", "body", "fetch", "run"} => "React" \in libs
    /\ page \in {"script", "babel", "body", "fetch", "run"} => "ReactDOM" \in libs
    /\ page \in {"body", "fetch", "run"} => "Babel" \in libs
    /\ page # "blank"

\* The safety half of GreetsUnlessLost: a page ends up blank only when something was
\* lost on the way, since every script runs after those whose names it uses.
THEOREM BlankMeansLost == Spec => [](page = "blank" => lost)
  <1>1. Init => Libraries
    BY DEF Init, Libraries
  <1>2. TypeOK /\ Libraries /\ [Next]_vars => Libraries'
    <2> SUFFICES ASSUME TypeOK, Libraries, [Next]_vars PROVE Libraries'
      OBVIOUS
    <2> USE DEF Libraries, TypeOK
    <2>1. CASE UNCHANGED pageVars
      BY <2>1 DEF pageVars
    <2>2. CASE Open
      BY <2>2 DEF Open
    <2>3. CASE Tags
      BY <2>3 DEF Tags, Tag, ScriptTag
    <2>4. CASE Loaded
      BY <2>4 DEF Loaded
    <2>5. CASE FetchScript
      BY <2>5 DEF FetchScript
    <2>6. CASE Render
      BY <2>6 DEF Render
    <2> QED
      BY <2>1, <2>2, <2>3, <2>4, <2>5, <2>6 DEF Next, Browser, vars
  <1>3. Libraries => (page = "blank" => lost)
    BY DEF Libraries
  <1> QED
    BY <1>1, <1>2, <1>3, TypeCorrect, PTL DEF Spec
================================================================================
