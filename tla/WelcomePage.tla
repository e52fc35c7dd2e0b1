------------------------------ MODULE WelcomePage ------------------------------
(***************************************************************************)
(* The server's home page in a browser: html/index.htm and js/index.js,    *)
(* against a server that is starting or stopping.  Three scripts are       *)
(* fetched and run at their tags, the page's own one, which is JSX, only   *)
(* when Babel has found it after the page was parsed.                      *)
(***************************************************************************)
EXTENDS ServerLifecycle

VARIABLES
  page,  \* what the browser does next
  libs,  \* the libraries that have run
  lost   \* history: something could not be fetched

pageVars == <<page, libs, lost>>
vars == <<serverVars, pageVars>>

TypeOK ==
  /\ ServerTypeOK
  /\ page \in {"closed", "react", "reactDom", "script", "babel", "body", "fetch", "run",
               "greeting", "blank"}
  /\ libs \subseteq {"React", "ReactDOM", "Babel"}
  /\ lost \in BOOLEAN

Init == ServerInit /\ page = "closed" /\ libs = {} /\ lost = FALSE

\* The server answers while it is up; a response may still be lost.
Fetched == web = "up"

Open ==
  /\ page = "closed"
  /\ \/ Fetched /\ page' = "react" /\ UNCHANGED lost
     \/ page' = "blank" /\ lost' = TRUE
  /\ UNCHANGED <<serverVars, libs>>

\* One script tag after another; what does not arrive is passed over.  react-dom.js
\* needs what react.js defines.
Tag(step, next, lib, arrives) ==
  /\ page = step
  /\ page' = next
  /\ \/ /\ arrives /\ UNCHANGED lost
        /\ libs' = libs \cup (IF lib = "ReactDOM" /\ "React" \notin libs THEN {} ELSE {lib})
     \/ lost' = TRUE /\ UNCHANGED libs
  /\ UNCHANGED serverVars

\* Mutant: the tag of index.js does not say text/babel, so the browser runs it as it
\* is, a syntax error.
ScriptTagRuns ==
  /\ page = "script"
  /\ page' = "blank"
  /\ UNCHANGED <<serverVars, libs, lost>>

\* The tag of index.js is of a type the browser does not run.
ScriptTag ==
  /\ page = "script"
  /\ page' = "babel"
  /\ UNCHANGED <<serverVars, libs, lost>>

Tags ==
  \/ Tag("react", "reactDom", "React", Fetched)
  \/ Tag("reactDom", "script", "ReactDOM", Fetched)
  \/ ScriptTag
  \/ Tag("babel", "body", "Babel", TRUE)

\* The body is parsed, #container is there: Babel, if it came, looks for scripts.
Loaded ==
  /\ page = "body"
  /\ page' = IF "Babel" \in libs THEN "fetch" ELSE "blank"
  /\ UNCHANGED <<serverVars, libs, lost>>

FetchScript ==
  /\ page = "fetch"
  /\ \/ Fetched /\ page' = "run" /\ UNCHANGED lost
     \/ page' = "blank" /\ lost' = TRUE
  /\ UNCHANGED <<serverVars, libs>>

\* Mutant: a library that is missing leaves the page undefined.
RenderUnchecked ==
  /\ page = "run"
  /\ page' = IF {"React", "ReactDOM"} \subseteq libs THEN "greeting" ELSE "undefined"
  /\ UNCHANGED <<serverVars, libs, lost>>

\* index.js: createClass, then render into #container.
Render ==
  /\ page = "run"
  /\ page' = IF {"React", "ReactDOM"} \subseteq libs THEN "greeting" ELSE "blank"
  /\ UNCHANGED <<serverVars, libs, lost>>

Browser == Tags \/ Loaded \/ FetchScript \/ Render

Next == (ServerNext /\ UNCHANGED pageVars) \/ Open \/ Browser

Spec ==
  /\ Init /\ [][Next]_vars
  /\ WF_vars(Main /\ UNCHANGED pageVars)
  /\ WF_vars(Shutdown /\ UNCHANGED pageVars)
  /\ WF_vars(Browser)

--------------------------------------------------------------------------------

\* A page that was opened greets its visitor unless something it needs was lost, as
\* when the server stops meanwhile: every script has run by the time another uses what
\* it defines.  index.htm:6-12, index.js:1-10.
GreetsUnlessLost == page # "closed" ~> page = "greeting" \/ lost
================================================================================
