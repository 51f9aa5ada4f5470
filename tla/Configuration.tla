---------------------------- MODULE Configuration ----------------------------
(***************************************************************************)
(* Saving the Jira configuration while others read it and the backend is   *)
(* restarted (configuration_service.py, get_settings of config.py).        *)
(*                                                                         *)
(* A setting's value comes from the environment of the process, else from  *)
(* the configuration file, else it is the default.  The settings are read  *)
(* once and cached.  An update is checked against the cached settings,     *)
(* written to the file, copied into the environment and the cache is       *)
(* dropped, each of it while other requests do the same.  Two settings     *)
(* stand for all: the statuses of finished work and of work in progress,   *)
(* which may not overlap.                                                  *)
(***************************************************************************)
EXTENDS Integers

CONSTANTS
  Requests,          \* requests to the API
  JiraStatuses,      \* statuses of Jira
  Default,           \* the built-in settings: [SettingNames -> SUBSET JiraStatuses]
  Deployed,          \* what the deployment sets: a function on some of SettingNames
  Unset              \* no settings read

SettingNames == {"done", "inProgress"}

VARIABLES
  file,              \* the settings in the file
  environment,       \* the settings in the environment
  cache,             \* the settings in use
  request,           \* request[r]: the progress of a request
  running,           \* the backend runs, or refused to start
  overlapped         \* some requests have been served at the same time

configurationVars == <<file, environment, cache, request, running, overlapped>>

(* The values of f and, of what f does not set, those of g.                *)
Over(f, g) == [s \in DOMAIN f \cup DOMAIN g |-> IF s \in DOMAIN f THEN f[s] ELSE g[s]]

(* pydantic: the environment before the file before the defaults.          *)
Effective == Over(environment, Over(file, Default))
Cached == IF cache = Unset THEN Effective ELSE cache

(* validate_classification_settings.                                       *)
Valid(settings) ==
  /\ settings["done"] # {}
  /\ settings["inProgress"] # {}
  /\ settings["done"] \cap settings["inProgress"] = {}

(* The defaults are valid.                                                 *)
ASSUME DefaultAssumption == Default \in [SettingNames -> SUBSET JiraStatuses] /\ Valid(Default)
ASSUME UnsetAssumption == Unset \notin [SettingNames -> SUBSET JiraStatuses]

NoSettings == [s \in {} |-> {}]
Idle == [step |-> "idle", values |-> NoSettings, text |-> NoSettings]
Updates == UNION {[S -> SUBSET JiraStatuses] : S \in SUBSET SettingNames \ {{}}}

ConfigurationInit ==
  /\ file = NoSettings
  /\ environment = Deployed
  /\ cache = Unset
  /\ request = [r \in Requests |-> Idle]
  /\ running = TRUE
  /\ overlapped = FALSE

Busy == {r \in Requests : request[r].step # "idle"}

Begins(r, next) ==
  /\ running
  /\ request[r].step = "idle"
  /\ request' = [request EXCEPT ![r] = next]
  /\ overlapped' = (overlapped \/ Busy # {})

-----------------------------------------------------------------------------
(* Reading.  get_settings computes outside of its cache's lock: what it    *)
(* computed is kept unless somebody was quicker.                           *)

LoadSettings(r) ==
  /\ cache = Unset
  /\ Begins(r, [Idle EXCEPT !.step = "loading", !.values = Effective])
  /\ UNCHANGED <<file, environment, cache, running>>

KeepSettings(r) ==
  /\ request[r].step = "loading"
  /\ cache' = IF cache = Unset THEN request[r].values ELSE cache
  /\ request' = [request EXCEPT ![r] = Idle]
  /\ UNCHANGED <<file, environment, running, overlapped>>

-----------------------------------------------------------------------------
(* update_jira_configuration.                                              *)

Begin(r) ==
  /\ \E values \in Updates :
       /\ Valid(Over(values, Cached))
       /\ Begins(r, [Idle EXCEPT !.step = "read", !.values = values])
  /\ cache' = Cached
  /\ UNCHANGED <<file, environment, running>>

ReadFile(r) ==
  /\ request[r].step = "read"
  /\ request' = [request EXCEPT ![r].step = "replace", ![r].text = file]
  /\ UNCHANGED <<file, environment, cache, running, overlapped>>

Replace(r) ==
  /\ request[r].step = "replace"
  /\ file' = Over(request[r].values, request[r].text)
  /\ request' = [request EXCEPT ![r].step = "apply"]
  /\ UNCHANGED <<environment, cache, running, overlapped>>

(* The environment is changed one setting after the other.                 *)
Apply(r) ==
  /\ request[r].step = "apply"
  /\ \E s \in DOMAIN request[r].values :
       /\ environment' = Over([q \in {s} |-> request[r].values[s]], environment)
       /\ request' = [request EXCEPT
            ![r].values = [q \in DOMAIN @ \ {s} |-> @[q]],
            ![r].step = IF DOMAIN request[r].values = {s} THEN "clear" ELSE "apply"]
  /\ UNCHANGED <<file, cache, running, overlapped>>

(* Mutant: the cached settings stay in use.                                *)
ClearNothing(r) ==
  /\ request[r].step = "clear"
  /\ cache' = cache
  /\ request' = [request EXCEPT ![r] = Idle]
  /\ UNCHANGED <<file, environment, running, overlapped>>

(* The answer reads the settings again.                                    *)
Clear(r) ==
  /\ request[r].step = "clear"
  /\ cache' = Unset
  /\ request' = [request EXCEPT ![r] = [Idle EXCEPT !.step = "loading", !.values = Effective]]
  /\ UNCHANGED <<file, environment, running, overlapped>>

(* The backend stops anywhere and is started again, with the environment   *)
(* of its deployment.                                                      *)
Restart ==
  /\ environment' = Deployed
  /\ cache' = Over(Deployed, Over(file, Default))
  /\ running' = Valid(cache')
  /\ request' = [r \in Requests |-> Idle]
  /\ UNCHANGED <<file, overlapped>>

ConfigurationNext ==
  \/ \E r \in Requests : \/ LoadSettings(r) \/ KeepSettings(r)
                         \/ Begin(r) \/ ReadFile(r) \/ Replace(r) \/ Apply(r) \/ Clear(r)
  \/ Restart

ConfigurationSpec == ConfigurationInit /\ [][ConfigurationNext]_configurationVars

-----------------------------------------------------------------------------
(* Properties.                                                             *)

(* A configuration that was accepted is in use, is what a restart will     *)
(* find, and lets the backend start, whenever it is restarted: unless      *)
(* requests overlapped, or the deployment decides a setting itself.        *)
AcceptedConfigurationStarts ==
  ~overlapped /\ Deployed = NoSettings =>
    /\ running
    /\ Valid(Over(file, Default))
    /\ Busy = {} => Cached = Over(file, Default)

=============================================================================
