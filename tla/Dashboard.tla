----------------------------- MODULE Dashboard -----------------------------
(***************************************************************************)
(* One open dashboard, frontend/src/Plugin.js: what it was told of the     *)
(* control plane, the draft of a configuration, and the requests that are  *)
(* under way.  The control plane carries a request out at one moment and   *)
(* its answer arrives at a later one, so answers arrive in any order and   *)
(* the user goes on in between.                                            *)
(*                                                                         *)
(* The control plane is reduced to what a client can tell: a register that *)
(* accepted updates replace (see ConfigRegister), whether the daemon runs, *)
(* and the services that have an alert in the log.                         *)
(***************************************************************************)
EXTENDS DashboardRules

CONSTANTS
  StartConfigs, \* configurations the control plane may have when the page opens
  Tabs,        \* the tabs the user of this instance opens
  Choices,     \* the services the user of this instance filters by
  Views,       \* bound: of status and events, what the dashboard fetches
  Uses,        \* what happens in this instance, beside saving
  NodeTexts, IgnoreTexts, PortTexts, URLTexts, KindChoices,  \* what is typed or chosen
  OtherUpdates, \* what other clients PUT
  Logged,      \* the services that have an alert in the log when the page opens
  Alarming,    \* the services that are attacked
  MaxEdits,    \* bound: edits of a behaviour
  MaxOthers,   \* bound: PUTs of other clients
  MaxFaults,   \* bound: requests that fail although they are in order
  Pending,     \* the reply that was not given yet
  Failed       \* an error status

\* What GET /config may show, and what the user can make of it.
Shown ==
  [NodeID : NodeIDs, IgnoreIPs : IgnoreLists, Services : [Catalog -> ServiceConfig],
   Webhook : [Enabled : BOOLEAN, Kind : Kinds, Configured : BOOLEAN]]

ServiceForm == [Enabled : BOOLEAN, Port : (0 .. PortLimit) \cup PortTexts]
Forms ==
  [NodeID    : NodeIDs \cup NodeTexts,
   IgnoreIPs : IgnoreLists \cup IgnoreTexts,
   Services  : UNION {[S -> ServiceForm] : S \in SUBSET Catalog},
   Webhook   : [Enabled : BOOLEAN, Kind : Kinds \cup KindChoices, URL : {NoURL} \cup URLTexts,
                Clear : BOOLEAN]]

ASSUME DashboardAssumption ==
  /\ \A c \in StartConfigs : c \in Configs /\ validateConfig(c)
  /\ \A u \in OtherUpdates : IsUpdate(u)
  /\ \A text \in IgnoreTexts : text \in [DOMAIN text -> Nat]
  /\ PortTexts \subseteq Int
  /\ None \notin Forms \cup Shown /\ {Pending, Failed} \cap Shown = {} /\ Pending # Failed
  /\ "overview" \in Tabs /\ Tabs \subseteq {"overview", "services", "presence", "settings"}
  /\ Views \subseteq {"status", "events"} /\ Views # {}
  /\ Uses \subseteq {"daemon", "clear", "filter", "poll", "crash"}
  /\ Cardinality(Logged \cup Alarming) <= 4  \* so many filters are offered
  /\ MaxEdits \in Nat /\ MaxOthers \in Nat /\ MaxFaults \in Nat

VARIABLES
  \* of the control plane
  server, running, log,
  \* of the dashboard
  tab, status, events, config, form, baseline,
  loading, loadError, saving, daemonBusy, eventFilter,
  \* between them
  net,         \* the requests whose promise is not settled
  \* history
  apart,       \* the configuration may have changed without the dashboard's knowledge
  edits, others, faults

serverVars == <<server, running, log>>
draftVars  == <<config, form, baseline>>
shownVars  == <<status, events>>
flagVars   == <<loading, loadError, saving, daemonBusy>>
userVars   == <<tab, eventFilter>>
boundVars  == <<edits, others, faults>>
vars == <<serverVars, userVars, shownVars, draftVars, flagVars, net, apart, boundVars>>

-----------------------------------------------------------------------------
(***************************************************************************)
(* A request: the function that awaits it ("none" for those that only set  *)
(* a state when they are answered), what it asks, what that function has   *)
(* captured, and the reply.  Two requests nobody awaits and that ask the   *)
(* same are one: a GET means what it does when it is carried out.          *)
(***************************************************************************)
Request(for, what, filter) ==
  [for |-> for, what |-> what, filter |-> filter, form |-> None, touched |-> {},
   reply |-> Pending]

Refresh(for, filter) ==
  {r \in {Request(for, "status", "all"), Request(for, "events", filter)} : r.what \in Views}

LoadRequests == {Request("load", "config", "all")} \cup Refresh("load", "all")

Awaited(for) == {r \in net : r.for = for}

\* A Promise.all that was rejected: what is left of it still sets its state.
Loose(requests) == {[r EXCEPT !.for = "none"] : r \in requests}

Acts == {"start", "stop", "restart"}
Changes == {"put", "delete"} \cup Acts

dirty == form # baseline

Init ==
  /\ server \in StartConfigs
  /\ running = TRUE
  /\ log = Logged
  /\ tab = "overview" /\ eventFilter = "all"
  /\ status = None /\ events = None
  /\ config = None /\ form = formFromConfig(None) /\ baseline = None
  /\ loading = TRUE /\ loadError = FALSE /\ saving = FALSE /\ daemonBusy = FALSE
  /\ net = LoadRequests
  /\ apart = FALSE
  /\ edits = 0 /\ others = 0 /\ faults = 0

-----------------------------------------------------------------------------
(***************************************************************************)
(* The control plane.                                                      *)
(***************************************************************************)
StatusOf(c, on) ==
  [Running |-> on, ActiveServices |-> Cardinality({s \in Catalog : c.Services[s].Enabled})]

EventsOf(alerts, filter) ==
  [ByService |-> alerts, Events |-> IF filter = "all" THEN alerts ELSE alerts \cap {filter}]

Replied(r, reply) == net' = (net \ {r}) \cup {[r EXCEPT !.reply = reply]}

\* Nobody waits any more for the answer of a change that was given up.
Forgotten(r) == r.for = "none" /\ r.what \in Changes
Answered(r, reply) == IF Forgotten(r) THEN net' = net \ {r} ELSE Replied(r, reply)

PutsIn(requests) == {r \in requests : r.what = "put"}
PutIsDue(requests) == \E r \in PutsIn(requests) : r.reply = Pending

AnswersGet(r) ==
  /\ r.reply = Pending
  /\ \/ r.what = "status" /\ Replied(r, StatusOf(server, running))
     \/ r.what = "events" /\ Replied(r, EventsOf(log, r.filter))
     \/ r.what = "config" /\ Replied(r, configView(server))
  /\ UNCHANGED <<serverVars, userVars, shownVars, draftVars, flagVars, apart, boundVars>>

Asked(r) == candidate(server, UpdateOf(r.form))

\* PUT /config is accepted, and the daemon restarted; 502 when the old one
\* does not stop or the new one does not start.
AppliesPut(r) ==
  /\ r.reply = Pending /\ r.what = "put"
  /\ validateConfig(Asked(r))
  /\ server' = Asked(r)
  /\ \/ /\ running' = TRUE
        /\ Answered(r, configView(server'))
        /\ apart' = (Forgotten(r) \/ PutIsDue(net \ {r}))
        /\ UNCHANGED faults
     \/ /\ faults < MaxFaults
        /\ faults' = faults + 1
        /\ running' \in {running, FALSE}
        /\ Answered(r, Failed)
        /\ apart' = TRUE
  /\ UNCHANGED <<log, userVars, shownVars, draftVars, flagVars, edits, others>>

RefusesPut(r) ==
  /\ r.reply = Pending /\ r.what = "put"
  /\ ~validateConfig(Asked(r))
  /\ Answered(r, Failed)
  /\ UNCHANGED <<serverVars, userVars, shownVars, draftVars, flagVars, apart, boundVars>>

\* POST /daemon; the daemon may fail to start or to stop.
ActsOnDaemon(r) ==
  /\ r.reply = Pending /\ r.what \in Acts
  /\ \/ /\ running' = (r.what # "stop")
        /\ Answered(r, [Running |-> running'])
        /\ UNCHANGED faults
     \/ /\ faults < MaxFaults
        /\ faults' = faults + 1
        /\ running' \in {running, FALSE}
        /\ Answered(r, Failed)
  /\ UNCHANGED <<server, log, userVars, shownVars, draftVars, flagVars, apart, edits, others>>

ClearsLog(r) ==
  /\ r.reply = Pending /\ r.what = "delete"
  /\ log' = {}
  /\ Answered(r, {})
  /\ UNCHANGED <<server, running, userVars, shownVars, draftVars, flagVars, apart, boundVars>>

OtherPuts ==
  /\ others < MaxOthers
  /\ others' = others + 1
  /\ \E u \in OtherUpdates :
       /\ validateConfig(candidate(server, u))
       /\ server' = candidate(server, u)
  /\ apart' = TRUE
  /\ UNCHANGED <<running, log, userVars, shownVars, draftVars, flagVars, net, edits, faults>>

DaemonDies ==
  /\ "crash" \in Uses
  /\ running
  /\ running' = FALSE
  /\ UNCHANGED <<server, log, userVars, shownVars, draftVars, flagVars, net, apart, boundVars>>

Attacked ==
  /\ running
  /\ \E s \in Alarming \ log : log' = log \cup {s}
  /\ UNCHANGED <<server, running, userVars, shownVars, draftVars, flagVars, net, apart, boundVars>>

-----------------------------------------------------------------------------
(***************************************************************************)
(* Answers arrive.  Promise.all resolves with the last of its requests and *)
(* is rejected with the first that fails; the flags are reset in finally.  *)
(***************************************************************************)
EndsOnSuccess(for, success) == success  \* mutant: setSaving(false) not in finally
EndsAlways(for, success)    == TRUE

Settles(for, success) ==
  LET ends == EndsAlways(for, success)
  IN /\ loading'    = (loading /\ ~(for = "load" /\ ends))
     /\ saving'     = (saving /\ ~(for = "save" /\ ends))
     /\ daemonBusy' = (daemonBusy /\ ~(for = "action" /\ ends))
     /\ loadError'  = (loadError \/ (for = "load" /\ ~success))

Resolves(r) ==
  /\ net' = net \ {r}
  /\ IF r.for # "none" /\ Awaited(r.for) = {r}
     THEN Settles(r.for, TRUE)
     ELSE UNCHANGED flagVars

Arrived(r) == r.reply \notin {Pending, Failed}

TakesStatus(r) ==
  /\ Arrived(r) /\ r.what = "status"
  /\ status' = r.reply
  /\ Resolves(r)
  /\ UNCHANGED <<serverVars, userVars, events, draftVars, apart, boundVars>>

TakesEvents(r) ==
  /\ Arrived(r) /\ r.what = "events"
  /\ events' = r.reply
  /\ Resolves(r)
  /\ UNCHANGED <<serverVars, userVars, status, draftVars, apart, boundVars>>

KeepsClear(v) ==                        \* mutant: setForm keeps the Clear of the draft
  [formFromConfig(v) EXCEPT !.Webhook.Clear = form.Webhook.Clear]
NextForm(v) == formFromConfig(v)

adoptConfig(v) ==
  /\ config' = v
  /\ form' = NextForm(v)
  /\ baseline' = NextForm(v)

TakesConfig(r) ==
  /\ Arrived(r) /\ r.what = "config"
  /\ adoptConfig(r.reply)
  /\ Resolves(r)
  /\ apart' = (r.reply # configView(server) \/ PutsIn(net) # {})
  /\ UNCHANGED <<serverVars, userVars, shownVars, boundVars>>

\* save() goes on with the filter that was chosen when it was called.
TakesSaved(r) ==
  /\ Arrived(r) /\ r.what = "put"
  /\ adoptConfig(r.reply)
  /\ net' = (net \ {r}) \cup Refresh("save", r.filter)
  /\ UNCHANGED <<serverVars, userVars, shownVars, flagVars, apart, boundVars>>

TakesCleared(r) ==
  /\ Arrived(r) /\ r.what = "delete"
  /\ net' = (net \ {r}) \cup Refresh("clear", r.filter)
  /\ UNCHANGED <<serverVars, userVars, shownVars, draftVars, flagVars, apart, boundVars>>

\* What daemonAction does in finally.
AfterAction(for) == IF for = "action" THEN {Request("none", "status", "all")} ELSE {}

TakesActed(r) ==
  /\ Arrived(r) /\ r.what \in Acts
  /\ status' = IF status = None THEN r.reply ELSE [status EXCEPT !.Running = r.reply.Running]
  /\ net' = (net \ {r}) \cup AfterAction(r.for)
  /\ Settles(r.for, TRUE)
  /\ UNCHANGED <<serverVars, userVars, events, draftVars, apart, boundVars>>

\* The promise of r is rejected; late is what the control plane still gets of it.
Rejects(r, late) ==
  /\ net' = (IF r.for = "none" THEN net \ {r}
             ELSE (net \ Awaited(r.for)) \cup Loose(Awaited(r.for) \ {r}))
            \cup late \cup AfterAction(r.for)
  /\ IF r.for = "none" THEN UNCHANGED flagVars ELSE Settles(r.for, FALSE)
  /\ UNCHANGED <<serverVars, userVars, shownVars, draftVars, edits, others>>

\* An error status, whose body has the text of the alert.
IsRefused(r) ==
  /\ r.reply = Failed
  /\ Rejects(r, {})
  /\ UNCHANGED <<apart, faults>>

(***************************************************************************)
(* The connection breaks: before the control plane got the request, before *)
(* it carries it out, or before the answer arrived.                        *)
(***************************************************************************)
IsLost(r) ==
  /\ faults < MaxFaults
  /\ faults' = faults + 1
  /\ r.reply # Failed /\ ~Forgotten(r)
  /\ \E late \in {{}} \cup {Loose({q}) : q \in {q \in {r} : q.what \in Changes /\ q.reply = Pending}} :
       /\ Rejects(r, late)
       /\ apart' = (apart \/ (r.what = "put" /\ (r.reply # Pending \/ late # {})))

\* queryAlerts could not read the log: 500.
FailsGet(r) ==
  /\ faults < MaxFaults
  /\ faults' = faults + 1
  /\ r.reply = Pending /\ r.what = "events"
  /\ Replied(r, Failed)
  /\ UNCHANGED <<serverVars, userVars, shownVars, draftVars, flagVars, apart, edits, others>>

-----------------------------------------------------------------------------
(***************************************************************************)
(* The user, and the timer.  While a configuration is loaded the page      *)
(* shows nothing else.                                                     *)
(***************************************************************************)
Sends(requests) == net' = net \cup requests

PressTab ==
  /\ ~loading
  /\ tab' \in Tabs \ {tab}
  /\ UNCHANGED <<serverVars, eventFilter, shownVars, draftVars, flagVars, net, apart, boundVars>>

PressRetry ==
  /\ ~loading /\ loadError
  /\ loading' = TRUE /\ loadError' = FALSE
  /\ Sends(LoadRequests)
  /\ UNCHANGED <<serverVars, userVars, shownVars, draftVars, saving, daemonBusy, apart, boundVars>>

Edit(forms) ==
  /\ ~loading
  /\ edits < MaxEdits
  /\ edits' = edits + 1
  /\ form' \in forms
  /\ UNCHANGED <<serverVars, userVars, shownVars, config, baseline, flagVars, net, apart,
                 others, faults>>

EditServices ==
  /\ tab = "services"
  /\ Edit({Toggled(form, s) : s \in Catalog}
          \cup {WithPort(form, s, p) : s \in Catalog, p \in PortTexts}
          \cup {applyPreset(form, preset) : preset \in Presets})

IdentityEdits(f) ==
  {[f EXCEPT !.NodeID = n] : n \in NodeTexts} \cup {[f EXCEPT !.IgnoreIPs = text] : text \in IgnoreTexts}

\* What is not shown cannot be edited: the URL while the webhook is off.
DeliveryEdits(f) ==
  {[f EXCEPT !.Webhook = [@ EXCEPT !.Enabled = ~@]]}
    \cup {[f EXCEPT !.Webhook = [@ EXCEPT !.Kind = k]] : k \in {x \in KindChoices : f.Webhook.Enabled}}
    \cup {WithURL(f, u) : u \in {x \in URLTexts : f.Webhook.Enabled}}
    \cup {WithoutDestination(g) :
            g \in {x \in {f} : config # None /\ config.Webhook.Configured /\ ~x.Webhook.Clear}}

EditSettings ==
  /\ tab = "settings"
  /\ Edit(IdentityEdits(form) \cup DeliveryEdits(form))

IgnoresSaving == TRUE                   \* mutant: the button not disabled while saving
NotSaving     == ~saving

PressSave ==
  /\ ~loading /\ tab \in {"services", "settings"}
  /\ dirty /\ NotSaving
  /\ PassesChecks(form)
  /\ saving' = TRUE
  /\ Sends({[Request("save", "put", eventFilter)
               EXCEPT !.form = form, !.touched = Touched(form, baseline)]})
  /\ UNCHANGED <<serverVars, userVars, shownVars, draftVars, loading, loadError, daemonBusy,
                 apart, boundVars>>

\* The header offers Pause or Start, by what is shown, and Restart.
PressDaemon ==
  /\ "daemon" \in Uses
  /\ ~loading /\ ~daemonBusy
  /\ daemonBusy' = TRUE
  /\ \E act \in {"restart", IF status # None /\ status.Running THEN "stop" ELSE "start"} :
       Sends({Request("action", act, "all")})
  /\ UNCHANGED <<serverVars, userVars, shownVars, draftVars, loading, loadError, saving,
                 apart, boundVars>>

Filters == {"all"} \cup (IF events = None THEN {} ELSE events.ByService \cap Choices)

ChooseFilter ==
  /\ "filter" \in Uses
  /\ ~loading /\ tab = "overview"
  /\ eventFilter' \in Filters
  /\ Sends({Request("none", "events", eventFilter')})
  /\ UNCHANGED <<serverVars, tab, shownVars, draftVars, flagVars, apart, boundVars>>

PressRefresh ==
  /\ "filter" \in Uses
  /\ ~loading /\ tab = "overview"
  /\ Sends({Request("none", "events", eventFilter)})
  /\ UNCHANGED <<serverVars, userVars, shownVars, draftVars, flagVars, apart, boundVars>>

\* Bound: one at a time.
PressClear ==
  /\ "clear" \in Uses
  /\ ~loading /\ tab = "settings"
  /\ Awaited("clear") = {}
  /\ Sends({Request("clear", "delete", eventFilter)})
  /\ UNCHANGED <<serverVars, userVars, shownVars, draftVars, flagVars, apart, boundVars>>

StaleFilter   == "all"                  \* mutant: the interval not renewed with the filter
CurrentFilter == eventFilter

Poll ==
  /\ "poll" \in Uses
  /\ tab = "overview"
  /\ Sends(Refresh("none", CurrentFilter))
  /\ UNCHANGED <<serverVars, userVars, shownVars, draftVars, flagVars, apart, boundVars>>

-----------------------------------------------------------------------------
CarriesOut(r) == AnswersGet(r) \/ AppliesPut(r) \/ RefusesPut(r) \/ ActsOnDaemon(r) \/ ClearsLog(r)

Arrives(r) ==
  \/ TakesStatus(r) \/ TakesEvents(r) \/ TakesConfig(r) \/ TakesSaved(r)
  \/ TakesCleared(r) \/ TakesActed(r) \/ IsRefused(r)

User ==
  \/ PressTab \/ PressRetry \/ EditServices \/ EditSettings \/ PressSave
  \/ PressDaemon \/ ChooseFilter \/ PressRefresh \/ PressClear

Next ==
  \/ \E r \in net : CarriesOut(r) \/ Arrives(r) \/ IsLost(r) \/ FailsGet(r)
  \/ OtherPuts \/ DaemonDies \/ Attacked
  \/ User \/ Poll

Spec == Init /\ [][Next]_vars

(***************************************************************************)
(* Fairness: every request that is awaited or polled is carried out and    *)
(* answered, and the timer ticks.  Nobody has to press anything.           *)
(***************************************************************************)
FairSpec ==
  /\ Spec
  /\ WF_vars(Poll)
  /\ \A for \in {"load", "save", "clear", "action"} :
       WF_vars(\E r \in Awaited(for) : CarriesOut(r) \/ Arrives(r))
  /\ \A what \in {"status", "events"} :
       WF_vars(\E r \in Awaited("none") : r.what = what /\ AnswersGet(r))
  /\ WF_vars(\E r \in Awaited("none") : TakesStatus(r))
  /\ WF_vars(\E r \in Awaited("none") : TakesEvents(r))

-----------------------------------------------------------------------------
(***************************************************************************)
(* The shape of the state: each flag tells that its function is waiting,   *)
(* so a button that is disabled is disabled for a reason and, as what is   *)
(* awaited is answered or lost, enabled again.                             *)
(***************************************************************************)
TypeOK ==
  /\ server \in Configs /\ validateConfig(server)
  /\ form \in Forms /\ config \in {None} \cup Shown
  /\ tab \in Tabs
  /\ eventFilter \in {"all"} \cup Logged \cup Alarming
  /\ loading    <=> Awaited("load") # {}
  /\ saving     <=> Awaited("save") # {}
  /\ daemonBusy <=> Awaited("action") # {}
  /\ loadError => ~loading
  /\ config = None <=> baseline = None
  /\ \A r \in net : r.what = "put" <=> r.form # None

(***************************************************************************)
(* A draft without unsaved changes is the configuration: saving it would   *)
(* change nothing, the webhook URL that the dashboard never sees included. *)
(* It holds whatever was edited, refused, saved and edited meanwhile, and  *)
(* fails in three ways only, which "apart" records: another client's PUT,  *)
(* a PUT that took effect without its answer being taken in, and a late    *)
(* answer to a GET /config that a failed load has left behind.             *)
(***************************************************************************)
CleanIsCurrent ==
  ~dirty /\ ~saving /\ ~apart => candidate(server, UpdateOf(form)) = server

(***************************************************************************)
(* A save changes only what the user has changed since the configuration   *)
(* was shown, although it sends everything.  That the write-only URL is    *)
(* kept (TestApplyConfigUpdateKeepsWriteOnlyWebhook) does not even depend  *)
(* on the dashboard being up to date.                                      *)
(***************************************************************************)
IsCarriedOut(r) == r.what = "put" /\ r.reply = Pending /\ r \notin net' /\ server' # server

SavesChangeOnlyEdits ==
  [][\A r \in net : IsCarriedOut(r) =>
       \A p \in Parts \ r.touched :
         (apart /\ p # "URL") \/ Part(server', p) = Part(server, p)]_vars

(***************************************************************************)
(* The checks of save() refuse nothing the control plane would accept, so  *)
(* every valid configuration can be entered.                               *)
(***************************************************************************)
ChecksAreNotStricter ==
  validateConfig(candidate(server, UpdateOf(form))) => PassesChecks(form)

(***************************************************************************)
(* On the overview, what is shown becomes true and stays so once nothing   *)
(* changes any more, although old answers overtake new ones: the filter    *)
(* that is chosen is the one that is shown.                                *)
(***************************************************************************)
ShownBecomesTrue ==
  <>[](tab = "overview") /\ <>[][FALSE]_<<tab, eventFilter, serverVars>> =>
    <>[](status = StatusOf(server, running) /\ events = EventsOf(log, eventFilter))
=============================================================================
