------------------------------- MODULE AppSetup -------------------------------
(***************************************************************************)
(* From the first page to the home screen: the setup pages of app/page.tsx,*)
(* the connection checks of lib/app-state.ts, the demonstration mode of    *)
(* lib/demo-context.tsx, the idle timeout, the settings screen's           *)
(* connection and discovery, and on the server the mapping of              *)
(* lib/org-query.ts and its row in org_patterns.                           *)
(*                                                                         *)
(* One browser tab is followed in full.  The other users of the server     *)
(* belong to OtherOrg.  A mapping is known by the organisation it          *)
(* describes; what is in it is SchemaDiscovery's and OrgQuery's.  Screens  *)
(* are the home screen, the settings and a household's, which is a client's*)
(* or the demonstration's.                                                 *)
(***************************************************************************)
EXTENDS FiniteSets

CONSTANTS
  Orgs,       \* Salesforce organisations
  EnvOrg,     \* the one the environment's credentials connect to, or None
  OtherOrg,   \* the one of the server's other users
  Roles,      \* UserRole
  DemoRole,   \* "operations", which View Demo sets
  None

ASSUME SetupAssumption ==
  /\ EnvOrg \in Orgs \union {None}
  /\ OtherOrg \in Orgs
  /\ DemoRole \in Roles
  /\ None \notin Orgs \union Roles

Steps == {"role", "name", "crm", "connect", "discovering", "ready"}
Stages == {"none", "looking", "scanning", "error", "done"}
Checks == {"mount", "crm", "exit"}

VARIABLES
  tab,      \* the page's memory
  device,   \* the browser's cookies and storage
  server    \* the process and the database

setupVars == <<tab, device, server>>

Tab ==
  [step : Steps, role : Roles \union {None}, connected : {"unknown", "yes", "no"},
   demo : BOOLEAN, stage : Stages, intro : BOOLEAN, asked : SUBSET Checks,
   screen : {"home", "settings", "client", "demo"}]
Device ==
  [org : Orgs \union {None}, role : Roles \union {None}, demo : BOOLEAN,
   mapping : Orgs \union {None}]
Server ==
  [memory : Orgs \union {None}, latest : Orgs \union {None}, served : SUBSET Orgs]

SetupTypeOK == tab \in Tab /\ device \in Device /\ server \in Server

\* The organisation a request of this browser is answered for.
Connected == IF device.org # None THEN device.org ELSE EnvOrg

(***************************************************************************)
(* Effects that follow a change of state before the user can act: an answer*)
(* "not connected" starts the demonstration mode, which skips the page that*)
(* asks for the CRM; the connect page saves the role; the discovery page   *)
(* starts by looking for a row.                                            *)
(***************************************************************************)
SkipCrm(t) == t.step = "crm" /\ t.demo /\ t.connected = "no"

Effects(t, before) ==
  LET s == [t EXCEPT !.demo = @ \/ (t.connected = "no" /\ before.connected # "no")]
      step == IF SkipCrm(s) THEN "ready" ELSE s.step
  IN  [s EXCEPT !.step = step,
                !.stage = IF step # "discovering" THEN "none"
                          ELSE IF before.step # "discovering" THEN "looking" ELSE @]

MutSavedRole(t) == device.role
SavedRole(t) == IF t.step = "connect" /\ t.role # None THEN t.role ELSE device.role

\* The page changes to t, then to what its effects make of it.
Becomes(t) ==
  LET s == Effects(t, tab)
  IN  /\ tab' = s
      /\ device' = [device EXCEPT !.role = SavedRole(s),
                                  !.demo = IF s.demo # tab.demo THEN s.demo ELSE @]

(***************************************************************************)
(* Loading the page: its memory is new, a check of the connection is under *)
(* way, and the demonstration mode is what the session storage says.       *)
(***************************************************************************)
Fresh(d) ==
  [step |-> "role", role |-> None, connected |-> "unknown", demo |-> d.demo, stage |-> "none",
   intro |-> FALSE, asked |-> {"mount"}, screen |-> "home"]

SetupInit ==
  /\ device = [org |-> None, role |-> None, demo |-> FALSE, mapping |-> None]
  /\ tab = Fresh(device)
  /\ server = [memory |-> None, latest |-> None, served |-> {}]

Reload ==
  /\ tab' = Fresh(device)
  /\ UNCHANGED <<device, server>>

\* Back from Salesforce with ?sf_connected=true, for whatever page the browser
\* left: the role that was saved is restored and forgotten.
SignIn ==
  \E o \in Orgs :
    /\ tab' = [Fresh(device) EXCEPT !.step = "discovering", !.role = device.role,
                                    !.connected = "yes", !.stage = "looking"]
    /\ device' = [device EXCEPT !.org = o, !.role = None]
    /\ UNCHANGED server

\* The answer to the check made when the page was loaded; a check that fails
\* counts as "not connected".
MountAnswer ==
  /\ "mount" \in tab.asked
  /\ \E yes \in {Connected # None, FALSE} :
       Becomes([tab EXCEPT !.asked = @ \ {"mount"}, !.connected = IF yes THEN "yes" ELSE "no"])
  /\ UNCHANGED server

(***************************************************************************)
(* The setup pages.                                                        *)
(***************************************************************************)
On(step) == tab.step = step /\ ~tab.intro

ChooseRole ==
  /\ On("role")
  /\ \E r \in Roles : Becomes([tab EXCEPT !.role = r, !.step = "name"])
  /\ UNCHANGED server

StartDemo ==
  /\ On("role")
  /\ Becomes([tab EXCEPT !.demo = TRUE, !.role = DemoRole, !.intro = TRUE])
  /\ UNCHANGED server

\* onDemoReady, after a second and a half.
IntroEnds ==
  /\ tab.intro
  /\ Becomes([tab EXCEPT !.intro = FALSE, !.step = "ready"])
  /\ UNCHANGED server

NameChosen ==
  /\ On("name")
  /\ Becomes([tab EXCEPT !.step = "crm"])
  /\ UNCHANGED server

Back ==
  /\ tab.step \in {"name", "crm"}
  /\ Becomes([tab EXCEPT !.step = IF @ = "name" THEN "role" ELSE "name"])
  /\ UNCHANGED server

\* handleCrmSelect
SelectCrm ==
  /\ On("crm")
  /\ Becomes(IF tab.demo THEN [tab EXCEPT !.step = "ready"]
             ELSE IF tab.connected = "yes" THEN [tab EXCEPT !.step = "discovering"]
             ELSE [tab EXCEPT !.asked = @ \union {"crm"}])
  /\ UNCHANGED server

\* Its answer, whatever page is shown by then.
CrmAnswer ==
  /\ "crm" \in tab.asked
  /\ LET t == [tab EXCEPT !.asked = @ \ {"crm"}]
     IN  \/ Connected # None /\ Becomes([t EXCEPT !.connected = "yes", !.step = "discovering"])
         \/ Becomes([t EXCEPT !.step = "connect"])
  /\ UNCHANGED server

\* Leaving the settings that the connect page shows asks once more.
LeaveConnect ==
  /\ On("connect")
  /\ Becomes([tab EXCEPT !.asked = @ \union {"exit"}])
  /\ UNCHANGED server

ExitAnswer ==
  /\ "exit" \in tab.asked
  /\ LET t == [tab EXCEPT !.asked = @ \ {"exit"}]
     IN  \/ Connected # None /\ Becomes([t EXCEPT !.connected = "yes", !.step = "discovering"])
         \/ Becomes([t EXCEPT !.connected = "no", !.step = "crm"])
  /\ UNCHANGED server

(***************************************************************************)
(* The discovery page.  A stored row, of whatever organisation, ends it.   *)
(* Otherwise it asks for a scan with a POST that carries no token, which   *)
(* the request guard refuses; the page offers to skip.                     *)
(***************************************************************************)
\* proxy: a request that changes something needs a connection and a token.
Admitted(token) == Connected # None /\ token

\* GET /api/salesforce/discover: the row updated last.
RowFound == Connected # None /\ server.latest # None

LookAnswer ==
  /\ tab.stage = "looking"
  /\ \E found \in {RowFound, FALSE} :
       Becomes([tab EXCEPT !.stage = IF found THEN "done" ELSE "scanning"])
  /\ UNCHANGED server

MutScanRefused ==
  /\ tab.stage = "scanning"
  /\ Becomes(tab)
  /\ UNCHANGED server
ScanRefused ==
  /\ tab.stage = "scanning" /\ ~Admitted(FALSE)
  /\ Becomes([tab EXCEPT !.stage = "error"])
  /\ UNCHANGED server

FinishDiscovery ==
  /\ tab.stage \in {"done", "error"}
  /\ Becomes([tab EXCEPT !.step = "ready"])
  /\ UNCHANGED server

(***************************************************************************)
(* The application.                                                        *)
(***************************************************************************)
\* A household of the organisation, found by a search, or of the demonstration.
OpenHousehold ==
  /\ On("ready") /\ tab.screen = "home"
  /\ \/ Connected # None /\ Becomes([tab EXCEPT !.screen = "client"])
     \/ tab.demo /\ Becomes([tab EXCEPT !.screen = "demo"])
  /\ UNCHANGED server

OpenSettings ==
  /\ On("ready") /\ tab.screen = "home"
  /\ Becomes([tab EXCEPT !.screen = "settings"])
  /\ UNCHANGED server

GoHome ==
  /\ On("ready") /\ tab.screen # "home"
  /\ Becomes([tab EXCEPT !.screen = "home"])
  /\ UNCHANGED server

\* Ctrl+Shift+D, on any page.
ToggleDemo ==
  /\ Becomes([tab EXCEPT !.demo = ~@])
  /\ UNCHANGED server

\* Fifteen minutes without interaction.  The request that clears the cookie is
\* not waited for and may fail; of the page only the step changes.
IdleEnabled == On("ready")
IdleTooLong ==
  /\ IdleEnabled
  /\ \E cleared \in BOOLEAN :
       LET t == Effects([tab EXCEPT !.connected = "no", !.step = "role"], tab)
       IN  /\ tab' = t
           /\ device' = [device EXCEPT !.org = IF cleared THEN None ELSE @,
                                       !.demo = IF t.demo # tab.demo THEN t.demo ELSE @]
  /\ UNCHANGED server

(***************************************************************************)
(* The settings screen, on the connect page or in the application.         *)
(***************************************************************************)
InSettings == On("connect") \/ (On("ready") /\ tab.screen = "settings")

\* The page's own idea of the connection is left as it was.
DisconnectOrg ==
  /\ InSettings /\ device.org # None
  /\ device' = [device EXCEPT !.org = None]
  /\ UNCHANGED <<tab, server>>

\* A scan asked for with a token: the row, then the memory and the cookie; or an
\* error, and nothing changes.
Persisted(o) == [device EXCEPT !.mapping = o]      \* the cookie, for ninety days
RunDiscovery ==
  /\ InSettings /\ Admitted(TRUE)
  /\ server' = [server EXCEPT !.latest = Connected, !.memory = Connected,
                              !.served = @ \union {Connected}]
  /\ device' = Persisted(Connected)
  /\ UNCHANGED tab

(***************************************************************************)
(* The server.  served holds the organisations it has worked for since it  *)
(* started.                                                                *)
(***************************************************************************)
\* ensureMappingLoaded
MutLoaded(memory, mapping) == IF memory # None THEN memory ELSE server.latest
Loaded(memory, mapping) == IF memory # None THEN memory ELSE mapping

\* Any request of this browser for Salesforce data.
Request ==
  /\ On("ready") /\ Connected # None
  /\ server' = [server EXCEPT !.memory = Loaded(@, device.mapping),
                              !.served = @ \union {Connected}]
  /\ UNCHANGED <<tab, device>>

OtherRequests ==
  /\ \E mapping \in {None, OtherOrg} :
       server' = [server EXCEPT !.memory = Loaded(@, mapping), !.served = @ \union {OtherOrg}]
  /\ UNCHANGED <<tab, device>>

OtherScans ==
  /\ server' = [server EXCEPT !.latest = OtherOrg, !.memory = OtherOrg,
                              !.served = @ \union {OtherOrg}]
  /\ UNCHANGED <<tab, device>>

Restart ==
  /\ server' = [server EXCEPT !.memory = None, !.served = {}]
  /\ UNCHANGED <<tab, device>>

Answers == MountAnswer \/ CrmAnswer \/ ExitAnswer \/ LookAnswer \/ ScanRefused
User ==
  \/ Reload \/ SignIn \/ ChooseRole \/ StartDemo \/ NameChosen \/ Back \/ SelectCrm
  \/ LeaveConnect \/ FinishDiscovery \/ OpenHousehold \/ OpenSettings \/ GoHome \/ ToggleDemo
  \/ DisconnectOrg \/ RunDiscovery
SetupNext ==
  \/ Answers \/ User \/ IntroEnds \/ IdleTooLong
  \/ Request \/ OtherRequests \/ OtherScans \/ Restart

SetupSpec == SetupInit /\ [][SetupNext]_setupVars

\* Answers arrive or their request fails; the user need not act.
SetupFairSpec ==
  /\ SetupSpec
  /\ WF_setupVars(LookAnswer) /\ WF_setupVars(ScanRefused)

-------------------------------------------------------------------------------
(* What the properties rest on. *)

\* A role was chosen before the pages that follow it, and before their checks; the
\* connect page has saved it.
RoleInv ==
  /\ (tab.step \in {"name", "crm", "connect"} \/ tab.asked \intersect {"crm", "exit"} # {}) =>
       tab.role # None
  /\ tab.step = "connect" => device.role = tab.role

\* A mapping in memory is of an organisation the process has worked for, or this
\* browser's cookie brought it.
MemoryInv == server.memory \in {None, device.mapping} \union server.served

SetupIInv == SetupTypeOK /\ RoleInv /\ MemoryInv

-------------------------------------------------------------------------------
(* Properties. *)

\* The application opens (SET_SETUP_STEP "ready") only in the demonstration mode,
\* after its introduction, or from a discovery page that has ended, whatever order
\* the answers of the three connection checks come in.
ReadyIsEarned ==
  (tab.step # "ready" /\ tab'.step = "ready") =>
    tab'.demo \/ tab.intro \/ tab.stage \in {"done", "error"}

\* The role chosen before connecting is still the role when discovery starts, over
\* the redirect to Salesforce and back, which loads the page anew.
RoleSurvives ==
  (tab.step = "connect" /\ tab'.step = "discovering") => tab'.role = tab.role

\* The setup is gone through in its order and on the user's own answers, though pages
\* are loaded anew on the way and answers asked for on one page arrive on another.
SetupInOrder == [][ReadyIsEarned /\ RoleSurvives]_setupVars

\* While the server process has worked for one organisation only, and the
\* browser's mapping cookie is not another's, the mapping it would build this
\* browser's queries from is the organisation's own, over restarts.
AloneIsOwn ==
  (/\ Connected # None /\ server.served \subseteq {Connected}
   /\ device.mapping \in {None, Connected}) => server.memory \in {None, Connected}

\* The discovery page does not hang: it gets past looking for a row and past asking
\* for a scan, whatever is answered.
DiscoveryMovesOn ==
  \A s \in {"looking", "scanning"} : tab.stage = s ~> tab.stage # s
=============================================================================
