-------------------------- MODULE DashboardProofs --------------------------
(***************************************************************************)
(* Proofs about Dashboard, for any catalog, any texts a user may type, any *)
(* updates of other clients, and any number of edits, PUTs and failures.   *)
(*                                                                         *)
(* What the flags tell of the requests under way is inductive with what is *)
(* known of each request (Requests).  What a draft tells of the            *)
(* configuration of the control plane rests on what "apart" records: as    *)
(* long as it is false there is at most one PUT, the one that is awaited,  *)
(* and either the dashboard shows the configuration or the answer to that  *)
(* PUT brings it (Knowledge).                                              *)
(***************************************************************************)
EXTENDS Dashboard, ConfigRulesProofs

\* What each function of the dashboard asks for.
Asks(for) ==
  CASE for = "load"   -> {"config", "status", "events"}
    [] for = "save"   -> {"put", "status", "events"}
    [] for = "clear"  -> {"delete", "status", "events"}
    [] for = "action" -> Acts
    [] OTHER          -> {"config", "status", "events"} \cup Changes

IsRequest(r) ==
  r = [for |-> r.for, what |-> r.what, filter |-> r.filter, form |-> r.form,
       touched |-> r.touched, reply |-> r.reply]

Seen == [ByService : SUBSET (Logged \cup Alarming), Events : SUBSET (Logged \cup Alarming)]

IsKnown(r) ==
  /\ IsRequest(r)
  /\ r.for \in {"load", "save", "clear", "action", "none"}
  /\ r.what \in Asks(r.for)
  /\ r.form \in Forms \cup {None} /\ (r.what = "put" <=> r.form # None)
  /\ r.what \in {"config", "put"} => r.reply \in {Pending, Failed} \cup Shown
  /\ r.what = "events" => r.reply \in {Pending, Failed} \cup Seen

\* A change that nobody awaits has no reply, and one that is awaited is awaited alone.
Requests ==
  \A r \in net :
    /\ IsKnown(r)
    /\ r.what \in Changes =>
         IF r.for = "none" THEN r.reply = Pending ELSE Awaited(r.for) = {r}

Flags ==
  /\ loading    <=> Awaited("load") # {}
  /\ saving     <=> Awaited("save") # {}
  /\ daemonBusy <=> Awaited("action") # {}
  /\ loadError => ~loading

Draft ==
  /\ server \in Accepted
  /\ form \in Forms /\ config \in {None} \cup Shown
  /\ baseline = IF config = None THEN None ELSE formFromConfig(config)
  /\ log \subseteq Logged \cup Alarming
  /\ events \in Seen \cup {None}
  /\ tab \in Tabs /\ eventFilter \in {"all"} \cup Logged \cup Alarming

Knowledge ==
  /\ ~apart => \A r \in PutsIn(net) :
                 r.for = "save" /\ (r.reply \in Shown => r.reply = configView(server))
  /\ ~apart /\ config # None =>
       config = configView(server) \/ \E r \in PutsIn(net) : r.reply = configView(server)

\* What a PUT that is under way says of the parts that the user left alone.
Bodies ==
  \A r \in PutsIn(net) :
    /\ "URL" \notin r.touched => r.form.Webhook.URL = NoURL /\ ~r.form.Webhook.Clear
    /\ ~apart /\ r.reply = Pending =>
         \A p \in Parts \ r.touched : Part(r.form, p) = Part(formFromConfig(configView(server)), p)

-----------------------------------------------------------------------------
\* save() asks no more of a draft than the control plane asks of what it becomes.
THEOREM ChecksNotStricter == Spec => []ChecksAreNotStricter
<1>1. ChecksAreNotStricter
  BY DEF ChecksAreNotStricter, candidate, UpdateOf, validateConfig, ValidServices,
     DistinctPorts, PassesChecks, PortsInRange
<1> QED
  BY <1>1, PTL

-----------------------------------------------------------------------------
\* What an answer, or a promise given up, makes of a request.
LEMMA ReplyOnly ==
  ASSUME NEW r, IsRequest(r), NEW x
  PROVE  LET q == [r EXCEPT !.reply = x]
         IN  /\ IsRequest(q) /\ q.reply = x /\ q.for = r.for /\ q.what = r.what
             /\ q.form = r.form /\ q.touched = r.touched /\ q.filter = r.filter
BY DEF IsRequest

LEMMA LooseOnly ==
  ASSUME NEW r, IsRequest(r)
  PROVE  LET q == [r EXCEPT !.for = "none"]
         IN  /\ IsRequest(q) /\ q.for = "none" /\ q.reply = r.reply /\ q.what = r.what
             /\ q.form = r.form /\ q.touched = r.touched /\ q.filter = r.filter
BY DEF IsRequest

LEMMA NewRequest ==
  ASSUME NEW for, NEW what, NEW filter
  PROVE  LET q == Request(for, what, filter)
         IN  /\ IsRequest(q) /\ q.for = for /\ q.what = what /\ q.filter = filter
             /\ q.form = None /\ q.touched = {} /\ q.reply = Pending
BY DEF IsRequest, Request

\* What a refresh asks for; it is never nothing.
LEMMA RefreshAsks ==
  ASSUME NEW for, NEW filter
  PROVE  /\ Refresh(for, filter) # {}
         /\ \A q \in Refresh(for, filter) :
              /\ IsRequest(q) /\ q.for = for /\ q.what \in {"status", "events"}
              /\ q.form = None /\ q.touched = {} /\ q.reply = Pending
<1>1. \A what : /\ IsRequest(Request(for, what, filter)) /\ Request(for, what, filter).for = for
                /\ Request(for, what, filter).what = what
  BY NewRequest
<1> QED
  BY <1>1, NewRequest, DashboardAssumption DEF Refresh

-----------------------------------------------------------------------------
(***************************************************************************)
(* The requests and the flags, by what a step does to the requests: one is *)
(* answered, settled, given up, or some are sent.                          *)
(***************************************************************************)
LEMMA AnsweredKeeps ==
  ASSUME Requests, Flags, NEW r \in net, r.reply = Pending, NEW x, Answered(r, x),
         r.what \in {"config", "put"} => x \in {Failed} \cup Shown,
         r.what = "events" => x \in {Failed} \cup Seen,
         UNCHANGED flagVars
  PROVE  Requests' /\ Flags'
<1> USE DEF flagVars
<1>1. CASE Forgotten(r)
  <2>1. net' = net \ {r} /\ r.for = "none"
    BY <1>1 DEF Answered, Forgotten
  <2>2. \A for : for # "none" => Awaited(for)' = Awaited(for)
    BY <2>1 DEF Awaited
  <2> QED
    BY <2>1, <2>2 DEF Requests, Flags
<1>2. CASE ~Forgotten(r)
  <2> DEFINE q == [r EXCEPT !.reply = x]
  <2>1. net' = (net \ {r}) \cup {q}
    BY <1>2 DEF Answered, Replied
  <2>2. /\ IsRequest(q) /\ q.reply = x /\ q.for = r.for /\ q.what = r.what /\ q.form = r.form
        /\ r.what \in Changes => r.for # "none"
    BY <1>2, ReplyOnly DEF Requests, IsKnown, Forgotten
  <2> HIDE DEF q
  <2>3. \A for : Awaited(for)' = IF for = r.for THEN (Awaited(for) \ {r}) \cup {q} ELSE Awaited(for)
    BY <2>1, <2>2 DEF Awaited
  <2>4. \A for : Awaited(for)' # {} <=> Awaited(for) # {}
    BY <2>3 DEF Awaited
  <2>5. \A p \in net : p.for = r.for /\ r.what \in Changes => p = r
    BY <2>2 DEF Requests, Awaited
  <2>6. Requests'
    BY <2>1, <2>2, <2>3, <2>5 DEF Requests, IsKnown, Awaited
  <2> QED
    BY <2>4, <2>6 DEF Flags
<1> QED
  BY <1>1, <1>2

\* An answer that sets a state, and nothing more is asked.
LEMMA ResolvesKeeps ==
  ASSUME Requests, Flags, NEW r \in net, r.what \notin Changes, Resolves(r)
  PROVE  Requests' /\ Flags'
<1>1. net' = net \ {r}
  BY DEF Resolves
<1>2. \A for : Awaited(for)' = Awaited(for) \ {r}
  BY <1>1 DEF Awaited
<1>3. Requests'
  BY <1>1, <1>2 DEF Requests
<1>4. CASE r.for # "none" /\ Awaited(r.for) = {r}
  <2>1. Settles(r.for, TRUE)
    BY <1>4 DEF Resolves
  <2>2. \A for : for # r.for => Awaited(for)' = Awaited(for)
    BY <1>2 DEF Awaited
  <2>3. Awaited(r.for)' = {}
    BY <1>2, <1>4
  <2> QED
    BY <1>3, <2>1, <2>2, <2>3 DEF Flags, Settles, EndsAlways
<1>5. CASE ~(r.for # "none" /\ Awaited(r.for) = {r})
  <2>1. UNCHANGED flagVars
    BY <1>5 DEF Resolves
  <2>2. \A for : for # "none" => (Awaited(for)' # {} <=> Awaited(for) # {})
    BY <1>2, <1>5 DEF Awaited
  <2> QED
    BY <1>3, <2>1, <2>2 DEF Flags, flagVars
<1> QED
  BY <1>4, <1>5


\* What a new request has to be.
LEMMA AskedIsKnown ==
  ASSUME NEW for \in {"load", "save", "clear", "action", "none"}, NEW what \in Asks(for) \ {"put"},
         NEW q, IsRequest(q), q.for = for, q.what = what, q.form = None, q.reply = Pending
  PROVE  IsKnown(q)
BY DEF IsKnown

\* save() and clearAlerts() go on with a refresh that they await in turn.
LEMMA GoesOnKeeps ==
  ASSUME Requests, Flags, NEW r \in net, Arrived(r), r.what \in {"put", "delete"},
         NEW for \in {"save", "clear"}, r.what \in Asks(for),
         net' = (net \ {r}) \cup Refresh(for, r.filter),
         UNCHANGED flagVars
  PROVE  Requests' /\ Flags'
<1>1. r.for = for /\ Awaited(for) = {r}
  BY DEF Requests, IsKnown, Asks, Acts, Changes, Arrived
<1>2. PICK new : new = Refresh(for, r.filter)
  OBVIOUS
<1>3. \A q \in new : q.for = for /\ q.what \notin Changes /\ IsKnown(q)
  <2>1. "status" \in Asks(for) /\ "events" \in Asks(for) /\ {"status", "events"} \cap Changes = {}
    BY DEF Asks, Changes, Acts
  <2> QED
    BY <1>2, <2>1, RefreshAsks, AskedIsKnown DEF Changes, Acts
<1>4. \A f : Awaited(f)' = IF f = for THEN new ELSE Awaited(f)
  BY <1>1, <1>2, <1>3 DEF Awaited
<1>5. Requests'
  BY <1>1, <1>2, <1>3, <1>4 DEF Requests, Awaited
<1>6. new # {}
  BY <1>2, RefreshAsks
<1> QED
  BY <1>1, <1>4, <1>5, <1>6 DEF Flags, flagVars

\* The daemon has done what it was asked, and its status is fetched.
LEMMA ActedKeeps ==
  ASSUME Requests, Flags, NEW r \in net, Arrived(r), r.what \in Acts,
         net' = (net \ {r}) \cup AfterAction(r.for), Settles(r.for, TRUE)
  PROVE  Requests' /\ Flags'
<1>1. r.for = "action" /\ Awaited("action") = {r}
  BY DEF Requests, IsKnown, Asks, Acts, Changes, Arrived
<1>2. PICK q : q = Request("none", "status", "all")
  OBVIOUS
<1>3. q.for = "none" /\ q.what = "status" /\ IsKnown(q)
  BY <1>2, NewRequest, AskedIsKnown DEF Asks
<1>4. net' = (net \ {r}) \cup {q}
  BY <1>1, <1>2 DEF AfterAction
<1>5. \A f : f # "none" => Awaited(f)' = IF f = "action" THEN {} ELSE Awaited(f)
  BY <1>1, <1>3, <1>4 DEF Awaited
<1>6. Requests'
  BY <1>1, <1>3, <1>4, <1>5 DEF Requests, Awaited, Changes, Acts
<1> QED
  BY <1>1, <1>5, <1>6 DEF Flags, Settles, EndsAlways

\* A promise that is given up: what is left of it is awaited no more.
LEMMA RejectsKeeps ==
  ASSUME Requests, Flags, NEW r \in net, NEW late, Rejects(r, late),
         late = {} \/ (late = Loose({r}) /\ r.what \in Changes /\ r.reply = Pending)
  PROVE  Requests' /\ Flags'
<1>1. \A q \in late : q.for = "none" /\ q.reply = Pending /\ IsKnown(q)
  <2> SUFFICES ASSUME r.what \in Changes, r.reply = Pending, NEW q, q = [r EXCEPT !.for = "none"]
               PROVE  q.for = "none" /\ q.reply = Pending /\ IsKnown(q)
    BY DEF Loose
  <2>1. IsKnown(r) /\ r.what \in Asks("none")
    BY DEF Requests, Asks
  <2> QED
    BY <2>1, LooseOnly DEF IsKnown
<1>2. PICK after : after = AfterAction(r.for)
  OBVIOUS
<1>3. \A q \in after : q.for = "none" /\ q.what = "status" /\ IsKnown(q)
  BY <1>2, NewRequest, AskedIsKnown DEF Asks, AfterAction
<1>4. CASE r.for = "none"
  <2>1. net' = (net \ {r}) \cup late
    BY <1>4 DEF Rejects, AfterAction
  <2>2. \A f : f # "none" => Awaited(f)' = Awaited(f)
    BY <1>1, <1>4, <2>1 DEF Awaited
  <2>3. Requests'
    BY <1>1, <2>1, <2>2 DEF Requests
  <2> QED
    BY <1>4, <2>2, <2>3 DEF Flags, flagVars, Rejects
<1>5. CASE r.for # "none"
  <2>1. PICK left : left = Loose(Awaited(r.for) \ {r})
    OBVIOUS
  <2>2. \A q \in left : q.for = "none" /\ q.what \notin Changes /\ IsKnown(q)
    <3>1. \A p \in Awaited(r.for) \ {r} : p \in net /\ IsKnown(p) /\ p.for = r.for /\ p.what \notin Changes
      BY <1>5 DEF Awaited, Requests
    <3>2. ASSUME NEW p \in net, IsKnown(p), p.for # "none", p.what \notin Changes
          PROVE  p.what \in Asks("none")
      BY <3>2 DEF IsKnown, Asks, Changes, Acts
    <3>3. ASSUME NEW p \in Awaited(r.for) \ {r}, NEW q, q = [p EXCEPT !.for = "none"]
          PROVE  q.for = "none" /\ q.what \notin Changes /\ IsKnown(q)
      <4>1. IsKnown(p) /\ p.what \notin Changes /\ p.what \in Asks("none")
        BY <1>5, <3>1, <3>2
      <4> QED
        BY <3>3, <4>1, LooseOnly DEF IsKnown
    <3> QED
      BY <2>1, <3>3 DEF Loose
  <2>3. net' = (net \ Awaited(r.for)) \cup left \cup late \cup after
    BY <1>2, <1>5, <2>1 DEF Rejects
  <2>4. \A f : f # "none" => Awaited(f)' = IF f = r.for THEN {} ELSE Awaited(f)
    BY <1>1, <1>3, <1>5, <2>2, <2>3 DEF Awaited
  <2>5. Requests'
    BY <1>1, <1>3, <2>2, <2>3, <2>4 DEF Requests, Awaited, Changes, Acts
  <2>6. Settles(r.for, FALSE)
    BY <1>5 DEF Rejects
  <2> QED
    BY <1>5, <2>4, <2>5, <2>6 DEF Flags, Settles, EndsAlways
<1> QED
  BY <1>4, <1>5

\* New requests: none is a change, unless nobody awaits its function yet.
LEMMA SendsKeeps ==
  ASSUME Requests, NEW requests, Sends(requests),
         \A q \in requests : IsKnown(q) /\ q.reply = Pending,
         \A q \in requests : q.what \in Changes =>
           q.for # "none" /\ Awaited(q.for) = {} /\ requests = {q},
         \A q \in requests : q.for # "none" => \A p \in Awaited(q.for) : p.what \notin Changes
  PROVE  /\ Requests'
         /\ \A f : Awaited(f)' = Awaited(f) \cup {q \in requests : q.for = f}
<1>1. net' = net \cup requests
  BY DEF Sends
<1>2. \A f : Awaited(f)' = Awaited(f) \cup {q \in requests : q.for = f}
  BY <1>1 DEF Awaited
<1> QED
  BY <1>1, <1>2 DEF Requests, Awaited

-----------------------------------------------------------------------------
\* A configuration that is held can be shown, and what is shown made a draft of.
LEMMA ViewIsShown ==
  ASSUME NEW c \in Configs
  PROVE  configView(c) \in Shown /\ configView(c) \notin {None, Pending, Failed}
<1>1. configView(c) \in Shown
  BY DEF configView, Configs, Shown
<1> QED
  BY <1>1, DashboardAssumption

LEMMA DraftIsForm ==
  ASSUME NEW v \in Shown \cup {None}
  PROVE  formFromConfig(v) \in Forms /\ formFromConfig(v) # None
<1> DEFINE f == formFromConfig(v)
<1>1. f = [NodeID |-> f.NodeID, IgnoreIPs |-> f.IgnoreIPs, Services |-> f.Services,
           Webhook |-> [Enabled |-> f.Webhook.Enabled, Kind |-> f.Webhook.Kind, URL |-> NoURL, Clear |-> FALSE]]
  BY DEF formFromConfig
<1>2. f.NodeID \in NodeIDs /\ f.Webhook.Enabled \in BOOLEAN /\ f.Webhook.Kind \in Kinds
  BY ConfigRulesAssumption DEF formFromConfig, Shown, Kinds
<1>3. f.IgnoreIPs \in IgnoreLists
  <2>1. [a \in {} |-> 1] \in IgnoreLists
    BY DEF IgnoreLists
  <2> QED
    BY <2>1 DEF formFromConfig, Shown
<1>4. f.Services \in UNION {[S -> ServiceForm] : S \in SUBSET Catalog}
  <2>1. ServiceConfig \subseteq ServiceForm
    BY ConfigRulesAssumption DEF ServiceConfig, ServiceForm
  <2>2. f.Services \in [Catalog -> ServiceForm] \/ f.Services \in [{} -> ServiceForm]
    BY <2>1 DEF formFromConfig, Shown
  <2> QED
    BY <2>2
<1> HIDE DEF f
<1>5. f \in Forms
  <2>1. ASSUME NEW n \in NodeIDs, NEW l \in IgnoreLists, NEW on \in BOOLEAN, NEW k \in Kinds,
               NEW S \in UNION {[T -> ServiceForm] : T \in SUBSET Catalog}
        PROVE  [NodeID |-> n, IgnoreIPs |-> l, Services |-> S,
                Webhook |-> [Enabled |-> on, Kind |-> k, URL |-> NoURL, Clear |-> FALSE]] \in Forms
    BY DEF Forms
  <2> QED
    BY <1>1, <1>2, <1>3, <1>4, <2>1
<1> QED
  BY <1>5, DashboardAssumption DEF f

\* The body of the PUT that saves a draft is one the control plane can decode.
LEMMA DraftIsUpdate ==
  ASSUME NEW f \in Forms
  PROVE  IsUpdate(UpdateOf(f))
<1>1. f.IgnoreIPs \in [DOMAIN f.IgnoreIPs -> Nat]
  BY DashboardAssumption DEF Forms, IgnoreLists
<1>2. parseIgnoreList(f.IgnoreIPs) \in [DOMAIN parseIgnoreList(f.IgnoreIPs) -> Nat]
  BY <1>1 DEF parseIgnoreList
<1>3. f.Services \in [DOMAIN f.Services -> [Enabled : BOOLEAN, Port : Int]]
  <2>1. PICK S \in SUBSET Catalog : f.Services \in [S -> ServiceForm]
    BY DEF Forms
  <2>2. ServiceForm \subseteq [Enabled : BOOLEAN, Port : Int]
    BY DashboardAssumption DEF ServiceForm
  <2> QED
    BY <2>1, <2>2
<1> QED
  BY <1>2, <1>3 DEF IsUpdate, UpdateOf, Forms

\* Every edit of a draft gives a draft.
LEMMA SetServiceIsForm ==
  ASSUME NEW f \in Forms, NEW s \in Catalog, NEW x \in ServiceForm
  PROVE  setService(f, s, x) \in Forms
<1>1. PICK S \in SUBSET Catalog : f.Services \in [S -> ServiceForm]
  BY DEF Forms
<1>2. setService(f, s, x).Services \in [S \cup {s} -> ServiceForm]
  BY <1>1 DEF setService, Forms
<1>3. setService(f, s, x).Services \in UNION {[T -> ServiceForm] : T \in SUBSET Catalog}
  BY <1>2
<1> QED
  BY <1>3 DEF setService, Forms

LEMMA ServiceOfIsForm ==
  ASSUME NEW f \in Forms, NEW s \in Catalog
  PROVE  ServiceOf(f, s) \in ServiceForm
<1>1. PICK S \in SUBSET Catalog : f.Services \in [S -> ServiceForm]
  BY DEF Forms
<1>2. [Enabled |-> FALSE, Port |-> 0] \in ServiceForm
  BY ConfigRulesAssumption DEF ServiceForm
<1> QED
  BY <1>1, <1>2 DEF ServiceOf

LEMMA ServiceEditsAreForms ==
  ASSUME NEW f \in Forms
  PROVE  /\ \A s \in Catalog : Toggled(f, s) \in Forms
         /\ \A s \in Catalog, p \in PortTexts : WithPort(f, s, p) \in Forms
         /\ \A preset : applyPreset(f, preset) \in Forms
<1>1. ASSUME NEW s \in Catalog
      PROVE  Toggled(f, s) \in Forms
  <2>1. PICK old \in ServiceForm : old = ServiceOf(f, s)
    BY ServiceOfIsForm
  <2>2. [old EXCEPT !.Enabled = ~@] \in ServiceForm
    BY DEF ServiceForm
  <2> QED
    BY <2>1, <2>2, SetServiceIsForm DEF Toggled
<1>2. ASSUME NEW s \in Catalog, NEW p \in PortTexts
      PROVE  WithPort(f, s, p) \in Forms
  <2>1. PICK old \in ServiceForm : old = ServiceOf(f, s)
    BY ServiceOfIsForm
  <2>2. [old EXCEPT !.Port = p] \in ServiceForm
    BY DEF ServiceForm
  <2> QED
    BY <2>1, <2>2, SetServiceIsForm DEF WithPort
<1>3. ASSUME NEW preset
      PROVE  applyPreset(f, preset) \in Forms
  <2>1. PICK S \in SUBSET Catalog : f.Services \in [S -> ServiceForm]
    BY DEF Forms
  <2>2. ASSUME NEW s \in S
        PROVE  [f.Services[s] EXCEPT !.Enabled = s \in preset] \in ServiceForm
    <3>1. \A x \in ServiceForm : \A on \in BOOLEAN : [x EXCEPT !.Enabled = on] \in ServiceForm
      BY DEF ServiceForm
    <3>2. (s \in preset) \in BOOLEAN
      OBVIOUS
    <3> QED
      BY <2>1, <3>1, <3>2
  <2>3. applyPreset(f, preset).Services \in [S -> ServiceForm]
    BY <2>1, <2>2 DEF applyPreset, Forms
  <2>4. applyPreset(f, preset).Services \in UNION {[T -> ServiceForm] : T \in SUBSET Catalog}
    BY <2>3
  <2> QED
    BY <2>4 DEF applyPreset, Forms
<1> QED
  BY <1>1, <1>2, <1>3

LEMMA SettingsEditsAreForms ==
  ASSUME NEW f \in Forms
  PROVE  IdentityEdits(f) \cup DeliveryEdits(f) \subseteq Forms
<1>1. IdentityEdits(f) \subseteq Forms
  BY DEF IdentityEdits, Forms
<1>2. [f EXCEPT !.Webhook = [@ EXCEPT !.Enabled = ~@]] \in Forms
  BY DEF Forms
<1>3. \A k \in KindChoices : [f EXCEPT !.Webhook = [@ EXCEPT !.Kind = k]] \in Forms
  BY DEF Forms
<1>4. \A u \in URLTexts : WithURL(f, u) \in Forms
  BY DEF WithURL, Forms
<1>5. WithoutDestination(f) \in Forms
  BY DEF WithoutDestination, Forms
<1> QED
  BY <1>1, <1>2, <1>3, <1>4, <1>5 DEF DeliveryEdits

-----------------------------------------------------------------------------
\* A PUT that is accepted is of a draft, and gives a configuration.
LEMMA AppliesIsAccepted ==
  ASSUME Requests, Draft, NEW r \in net, AppliesPut(r)
  PROVE  server' \in Accepted /\ r.form \in Forms
<1>1. r.form \in Forms
  BY DEF AppliesPut, Requests, IsKnown
<1>2. IsUpdate(UpdateOf(r.form))
  BY <1>1, DraftIsUpdate
<1>3. server \in Configs
  BY DEF Draft, Accepted
<1> QED
  BY <1>1, <1>2, <1>3, CandidateIsAccepted DEF AppliesPut, Asked

LEMMA AdoptsKeeps ==
  ASSUME NEW v \in Shown, adoptConfig(v)
  PROVE  /\ form' \in Forms /\ config' \in Shown
         /\ baseline' = IF config' = None THEN None ELSE formFromConfig(config')
         /\ config' = v /\ form' = baseline'
BY DraftIsForm, DashboardAssumption DEF adoptConfig, NextForm

LEMMA NextDraft ==
  ASSUME Requests, Draft, [Next]_vars
  PROVE  Draft'
<1>1. CASE UNCHANGED vars
  BY <1>1 DEF vars, serverVars, userVars, shownVars, draftVars, Draft
<1>2. ASSUME NEW r \in net, AnswersGet(r) \/ RefusesPut(r) \/ ActsOnDaemon(r) \/ IsRefused(r)
                            \/ IsLost(r) \/ FailsGet(r) \/ TakesStatus(r) \/ TakesCleared(r)
                            \/ TakesActed(r)
      PROVE  Draft'
  BY <1>2 DEF AnswersGet, RefusesPut, ActsOnDaemon, IsRefused, IsLost, FailsGet, Rejects,
     TakesStatus, TakesCleared, TakesActed, serverVars, userVars, shownVars, draftVars, Draft
<1>3. ASSUME NEW r \in net, AppliesPut(r)
      PROVE  Draft'
  BY <1>3, AppliesIsAccepted DEF AppliesPut, userVars, shownVars, draftVars, Draft
<1>4. ASSUME NEW r \in net, ClearsLog(r)
      PROVE  Draft'
  BY <1>4 DEF ClearsLog, userVars, shownVars, draftVars, Draft
<1>5. ASSUME NEW r \in net, TakesEvents(r)
      PROVE  Draft'
  BY <1>5 DEF TakesEvents, Arrived, Requests, IsKnown, serverVars, userVars, draftVars, Draft
<1>6. ASSUME NEW r \in net, TakesConfig(r) \/ TakesSaved(r)
      PROVE  Draft'
  <2>1. r.reply \in Shown /\ adoptConfig(r.reply)
    BY <1>6 DEF TakesConfig, TakesSaved, Arrived, Requests, IsKnown
  <2> QED
    BY <1>6, <2>1, AdoptsKeeps DEF TakesConfig, TakesSaved, serverVars, userVars, shownVars, Draft
<1>7. CASE OtherPuts
  <2>1. server' \in Accepted
    BY <1>7, CandidateIsAccepted, DashboardAssumption DEF OtherPuts, Draft, Accepted
  <2> QED
    BY <1>7, <2>1 DEF OtherPuts, userVars, shownVars, draftVars, Draft
<1>8. CASE DaemonDies \/ Attacked
  BY <1>8 DEF DaemonDies, Attacked, userVars, shownVars, draftVars, Draft
<1>9. CASE PressTab \/ PressRetry \/ PressSave \/ PressDaemon \/ PressRefresh \/ PressClear \/ Poll
  BY <1>9 DEF PressTab, PressRetry, PressSave, PressDaemon, PressRefresh, PressClear, Poll,
     serverVars, userVars, shownVars, draftVars, Draft
<1>10. CASE ChooseFilter
  BY <1>10 DEF ChooseFilter, Filters, Seen, serverVars, shownVars, draftVars, Draft
<1>11. CASE EditServices \/ EditSettings
  <2>1. form' \in Forms /\ UNCHANGED <<serverVars, userVars, shownVars, config, baseline>>
    BY <1>11, ServiceEditsAreForms, SettingsEditsAreForms DEF EditServices, EditSettings, Edit, Draft
  <2> QED
    BY <2>1 DEF serverVars, userVars, shownVars, Draft
<1> QED
  BY <1>1, <1>2, <1>3, <1>4, <1>5, <1>6, <1>7, <1>8, <1>9, <1>10, <1>11
  DEF Next, CarriesOut, Arrives, User

\* What is sent when nobody waits for it.
LEMMA PollKeeps ==
  ASSUME Requests, Flags, NEW requests, Sends(requests), UNCHANGED flagVars,
         \A q \in requests : IsRequest(q) /\ q.for = "none" /\ q.what \in {"status", "events"}
                             /\ q.form = None /\ q.reply = Pending
  PROVE  Requests' /\ Flags'
<1>1. {"status", "events"} \subseteq Asks("none") \ {"put"} /\ {"status", "events"} \cap Changes = {}
  BY DEF Asks, Changes, Acts
<1>2. \A q \in requests : IsKnown(q) /\ q.what \notin Changes
  BY <1>1, AskedIsKnown
<1>3. /\ Requests'
      /\ \A f : Awaited(f)' = Awaited(f) \cup {q \in requests : q.for = f}
  BY <1>2, SendsKeeps
<1>4. \A f : f # "none" => Awaited(f)' = Awaited(f)
  BY <1>3
<1> QED
  BY <1>3, <1>4 DEF Flags, flagVars

LEMMA LoadKeeps ==
  ASSUME Requests, Flags, PressRetry
  PROVE  Requests' /\ Flags'
<1>1. PICK requests : requests = LoadRequests
  OBVIOUS
<1>2. \A q \in requests : IsRequest(q) /\ q.for = "load" /\ q.what \in {"config", "status", "events"}
                          /\ q.form = None /\ q.reply = Pending
  BY <1>1, NewRequest, RefreshAsks DEF LoadRequests
<1>3. /\ {"config", "status", "events"} \subseteq Asks("load") \ {"put"}
      /\ {"config", "status", "events"} \cap Changes = {}
  BY DEF Asks, Changes, Acts
<1>4. \A q \in requests : IsKnown(q) /\ q.what \notin Changes
  BY <1>2, <1>3, AskedIsKnown
<1>5. Awaited("load") = {}
  BY DEF PressRetry, Flags
<1>6. /\ Requests'
      /\ \A f : Awaited(f)' = Awaited(f) \cup {q \in requests : q.for = f}
  BY <1>1, <1>2, <1>4, <1>5, SendsKeeps DEF PressRetry
<1>7. Awaited("load")' # {} /\ \A f : f # "load" => Awaited(f)' = Awaited(f)
  <2>1. requests # {}
    BY <1>1 DEF LoadRequests
  <2> QED
    BY <1>2, <1>6, <2>1
<1> QED
  BY <1>6, <1>7 DEF Flags, PressRetry

\* A change is asked for only when its function is not waiting already.
LEMMA PressKeeps ==
  ASSUME Requests, NEW q, Sends({q}), IsKnown(q), q.for # "none", q.reply = Pending,
         Awaited(q.for) = {}
  PROVE  Requests' /\ \A f : Awaited(f)' = IF f = q.for THEN {q} ELSE Awaited(f)
<1>1. /\ Requests'
      /\ \A f : Awaited(f)' = Awaited(f) \cup {p \in {q} : p.for = f}
  BY SendsKeeps
<1> QED
  BY <1>1

LEMMA SaveKeeps ==
  ASSUME Requests, Flags, Draft, PressSave
  PROVE  Requests' /\ Flags'
<1>1. PICK q : q = [Request("save", "put", eventFilter)
                      EXCEPT !.form = form, !.touched = Touched(form, baseline)]
  OBVIOUS
<1>2. q = [for |-> "save", what |-> "put", filter |-> eventFilter, form |-> form,
           touched |-> Touched(form, baseline), reply |-> Pending]
  BY <1>1 DEF Request
<1>3. IsKnown(q)
  BY <1>2, DashboardAssumption DEF IsKnown, IsRequest, Asks, Draft
<1>4. Awaited("save") = {} /\ Sends({q}) /\ saving' = TRUE
  BY <1>1 DEF PressSave, NotSaving, Flags
<1>5. Requests' /\ \A f : Awaited(f)' = IF f = "save" THEN {q} ELSE Awaited(f)
  BY <1>2, <1>3, <1>4, PressKeeps
<1> QED
  BY <1>4, <1>5 DEF Flags, PressSave

LEMMA DaemonKeeps ==
  ASSUME Requests, Flags, PressDaemon
  PROVE  Requests' /\ Flags'
<1>1. PICK act \in Acts : Sends({Request("action", act, "all")})
  BY DEF PressDaemon, Acts
<1>2. PICK q : q = Request("action", act, "all")
  OBVIOUS
<1>3. IsKnown(q) /\ q.for = "action" /\ q.reply = Pending
  BY <1>2, NewRequest, AskedIsKnown DEF Asks, Acts
<1>4. Requests' /\ \A f : Awaited(f)' = IF f = "action" THEN {q} ELSE Awaited(f)
  BY <1>1, <1>2, <1>3, PressKeeps DEF PressDaemon, Flags
<1> QED
  BY <1>4 DEF Flags, PressDaemon

LEMMA ClearKeeps ==
  ASSUME Requests, Flags, PressClear
  PROVE  Requests' /\ Flags'
<1>1. PICK q : q = Request("clear", "delete", eventFilter)
  OBVIOUS
<1>2. IsKnown(q) /\ q.for = "clear" /\ q.reply = Pending
  BY <1>1, NewRequest, AskedIsKnown DEF Asks
<1>3. Requests' /\ \A f : Awaited(f)' = IF f = "clear" THEN {q} ELSE Awaited(f)
  BY <1>1, <1>2, PressKeeps DEF PressClear
<1> QED
  BY <1>3 DEF Flags, PressClear, flagVars

LEMMA NextRequests ==
  ASSUME Requests, Flags, Draft, [Next]_vars
  PROVE  Requests' /\ Flags'
<1> USE DEF flagVars
<1>1. CASE UNCHANGED vars
  BY <1>1 DEF vars, Requests, Flags, Awaited
<1>2. ASSUME NEW r \in net, AnswersGet(r) \/ FailsGet(r)
      PROVE  Requests' /\ Flags'
  <2>1. PICK x : /\ r.reply = Pending /\ Replied(r, x) /\ UNCHANGED flagVars
                 /\ r.what \in {"status", "config", "events"}
                 /\ r.what = "config" => x = configView(server)
                 /\ r.what = "events" => x \in {EventsOf(log, r.filter), Failed}
    BY <1>2 DEF AnswersGet, FailsGet
  <2>2. Answered(r, x)
    BY <2>1 DEF Answered, Forgotten, Changes, Acts
  <2>3. r.what = "config" => x \in Shown
    BY <2>1, ViewIsShown DEF Draft, Accepted
  <2>4. EventsOf(log, r.filter) \in Seen
    BY DEF EventsOf, Seen, Draft
  <2> QED
    BY <2>1, <2>2, <2>3, <2>4, AnsweredKeeps
<1>3. ASSUME NEW r \in net, AppliesPut(r)
      PROVE  Requests' /\ Flags'
  <2>1. PICK x : /\ r.reply = Pending /\ r.what = "put" /\ Answered(r, x) /\ UNCHANGED flagVars
                 /\ x \in {Failed, configView(server')}
    BY <1>3 DEF AppliesPut
  <2>2. configView(server') \in Shown
    BY <1>3, AppliesIsAccepted, ViewIsShown DEF Accepted
  <2> QED
    BY <2>1, <2>2, AnsweredKeeps
<1>4. ASSUME NEW r \in net, RefusesPut(r) \/ ActsOnDaemon(r) \/ ClearsLog(r)
      PROVE  Requests' /\ Flags'
  <2>1. PICK x : /\ r.reply = Pending /\ Answered(r, x) /\ UNCHANGED flagVars
                 /\ r.what = "put" => x = Failed
                 /\ r.what \notin {"config", "events"}
    BY <1>4 DEF RefusesPut, ActsOnDaemon, ClearsLog, Acts
  <2> QED
    BY <2>1, AnsweredKeeps
<1>5. ASSUME NEW r \in net, TakesStatus(r) \/ TakesEvents(r) \/ TakesConfig(r)
      PROVE  Requests' /\ Flags'
  BY <1>5, ResolvesKeeps DEF TakesStatus, TakesEvents, TakesConfig, Changes, Acts
<1>6. ASSUME NEW r \in net, TakesSaved(r) \/ TakesCleared(r)
      PROVE  Requests' /\ Flags'
  BY <1>6, GoesOnKeeps DEF TakesSaved, TakesCleared, Asks
<1>7. ASSUME NEW r \in net, TakesActed(r)
      PROVE  Requests' /\ Flags'
  BY <1>7, ActedKeeps DEF TakesActed
<1>8. ASSUME NEW r \in net, IsRefused(r) \/ IsLost(r)
      PROVE  Requests' /\ Flags'
  <2>1. CASE IsRefused(r)
    BY <2>1, RejectsKeeps DEF IsRefused
  <2>2. CASE IsLost(r)
    <3>1. PICK late \in {{}} \cup {Loose({q}) : q \in {q \in {r} : q.what \in Changes /\ q.reply = Pending}} :
            Rejects(r, late)
      BY <2>2 DEF IsLost
    <3>2. late = {} \/ (late = Loose({r}) /\ r.what \in Changes /\ r.reply = Pending)
      OBVIOUS
    <3> QED
      BY <3>1, <3>2, RejectsKeeps
  <2> QED
    BY <1>8, <2>1, <2>2
<1>9. CASE OtherPuts \/ DaemonDies \/ Attacked \/ PressTab \/ EditServices \/ EditSettings
  <2>1. UNCHANGED <<net, flagVars>>
    BY <1>9 DEF OtherPuts, DaemonDies, Attacked, PressTab, EditServices, EditSettings, Edit
  <2> QED
    BY <2>1 DEF Requests, Flags, Awaited
<1>10. CASE ChooseFilter \/ PressRefresh
  <2>1. PICK filter : Sends({Request("none", "events", filter)}) /\ UNCHANGED flagVars
    BY <1>10 DEF ChooseFilter, PressRefresh
  <2> QED
    BY <2>1, NewRequest, PollKeeps
<1>11. CASE Poll
  <2>1. PICK requests : Sends(requests) /\ requests = Refresh("none", CurrentFilter) /\ UNCHANGED flagVars
    BY <1>11 DEF Poll
  <2> QED
    BY <2>1, RefreshAsks, PollKeeps
<1> QED
  BY <1>1, <1>2, <1>3, <1>4, <1>5, <1>6, <1>7, <1>8, <1>9, <1>10, <1>11,
     LoadKeeps, SaveKeeps, DaemonKeeps, ClearKeeps
  DEF Next, CarriesOut, Arrives, User

LEMMA InitShape ==
  ASSUME Init
  PROVE  Requests /\ Flags /\ Draft
<1>1. \A q \in net : IsRequest(q) /\ q.for = "load" /\ q.what \in {"config", "status", "events"}
                     /\ q.form = None /\ q.reply = Pending
  BY NewRequest, RefreshAsks DEF Init, LoadRequests
<1>2. /\ {"config", "status", "events"} \subseteq Asks("load") \ {"put"}
      /\ {"config", "status", "events"} \cap Changes = {}
  BY DEF Asks, Changes, Acts
<1>3. Requests
  BY <1>1, <1>2, AskedIsKnown DEF Requests
<1>4. Flags
  <2>1. net # {} /\ loading /\ ~saving /\ ~daemonBusy /\ ~loadError
    BY DEF Init, LoadRequests
  <2> QED
    BY <1>1, <2>1 DEF Flags, Awaited
<1>5. Draft
  BY DraftIsForm, DashboardAssumption DEF Init, Draft, Accepted
<1> QED
  BY <1>3, <1>4, <1>5

-----------------------------------------------------------------------------
(***************************************************************************)
(* What the dashboard knows of the configuration, by what a step does to   *)
(* the PUTs: nothing, or one of them is answered, settled or given up.     *)
(***************************************************************************)
LEMMA QuietKeeps ==
  ASSUME Knowledge, Bodies, UNCHANGED <<server, config>>, apart => apart',
         PutsIn(net') = PutsIn(net)
  PROVE  Knowledge' /\ Bodies'
BY DEF Knowledge, Bodies

\* A PUT that goes without having told the dashboard anything, and without effect.
LEMMA DropKeeps ==
  ASSUME Knowledge, Bodies, Draft, UNCHANGED <<server, config>>, NEW r \in net,
         r.reply \in {Pending, Failed}, PutsIn(net') = PutsIn(net) \ {r},
         apart => apart'
  PROVE  Knowledge' /\ Bodies'
<1>1. configView(server) \notin {Pending, Failed}
  BY ViewIsShown DEF Draft, Accepted
<1> QED
  BY <1>1 DEF Knowledge, Bodies

\* Whatever becomes of a PUT once the dashboard may be apart.
LEMMA ApartKeeps ==
  ASSUME Bodies, apart',
         \A q \in PutsIn(net') : \E r \in PutsIn(net) : q.form = r.form /\ q.touched = r.touched
  PROVE  Knowledge' /\ Bodies'
<1>1. Knowledge'
  BY DEF Knowledge
<1>2. Bodies'
  BY DEF Bodies
<1> QED
  BY <1>1, <1>2

\* The only PUT is answered with what it has made of the configuration.
LEMMA AppliesKeeps ==
  ASSUME Requests, Draft, Knowledge, Bodies, NEW r \in net, AppliesPut(r)
  PROVE  Knowledge' /\ Bodies'
<1>1. PICK x : Answered(r, x) /\ (apart' \/ (x = configView(server') /\ ~Forgotten(r)
                                            /\ ~PutIsDue(net \ {r})))
  BY DEF AppliesPut
<1>2. r.what = "put" /\ r.reply = Pending /\ IsKnown(r)
  BY DEF AppliesPut, Requests
<1> DEFINE q == [r EXCEPT !.reply = x]
<1>3. /\ IsRequest(q) /\ q.reply = x /\ q.for = r.for /\ q.what = "put" /\ q.form = r.form
      /\ q.touched = r.touched
  BY <1>2, ReplyOnly DEF IsKnown
<1> HIDE DEF q
<1>4. net' = net \ {r} \/ net' = (net \ {r}) \cup {q}
  BY <1>1 DEF Answered, Replied, q
<1>5. CASE apart'
  <2>1. \A p \in PutsIn(net') : \E o \in PutsIn(net) : p.form = o.form /\ p.touched = o.touched
    BY <1>2, <1>3, <1>4 DEF PutsIn
  <2> QED
    BY <1>5, <2>1, ApartKeeps
<1>6. CASE ~apart'
  <2>1. x = configView(server') /\ ~Forgotten(r) /\ ~PutIsDue(net \ {r})
    BY <1>1, <1>6
  <2>2. r.for = "save" /\ Awaited("save") = {r}
    BY <1>2, <2>1 DEF Forgotten, Requests, IsKnown, Asks, Changes, Acts
  <2>3. ASSUME NEW p \in net, p.what = "put"
        PROVE  p = r
    <3>1. CASE p.for = "none"
      BY <2>1, <2>3, <3>1 DEF Requests, Changes, PutIsDue, PutsIn
    <3>2. CASE p.for # "none"
      BY <2>2, <2>3, <3>2 DEF Requests, IsKnown, Asks, Changes, Acts, Awaited
    <3> QED
      BY <3>1, <3>2
  <2>4. net' = (net \ {r}) \cup {q}
    BY <1>1, <2>1 DEF Answered, Replied, q
  <2>5. PutsIn(net') = {q}
    BY <1>3, <2>3, <2>4 DEF PutsIn
  <2>6. server' \in Configs
    BY AppliesIsAccepted DEF Accepted
  <2>7. q.reply = configView(server') /\ q.reply # Pending /\ q.for = "save"
    BY <1>3, <2>1, <2>2, <2>6, ViewIsShown
  <2>8. Knowledge'
    BY <2>5, <2>7 DEF Knowledge
  <2>9. Bodies'
    <3>1. q.form = r.form /\ q.touched = r.touched /\ r \in PutsIn(net)
      BY <1>2, <1>3 DEF PutsIn
    <3> QED
      BY <2>5, <2>7, <3>1 DEF Bodies
  <2> QED
    BY <2>8, <2>9
<1> QED
  BY <1>5, <1>6

\* A promise that is given up takes a PUT with it only if that is what failed.
LEMMA RejectsPuts ==
  ASSUME Requests, NEW r \in net, NEW late, Rejects(r, late), \A q \in late : q.for = "none"
  PROVE  PutsIn(net') = (PutsIn(net) \ {r}) \cup PutsIn(late)
<1>1. PutsIn(AfterAction(r.for)) = {}
  BY NewRequest DEF PutsIn, AfterAction
<1>2. CASE r.for = "none"
  <2>1. net' = (net \ {r}) \cup late \cup AfterAction(r.for)
    BY <1>2 DEF Rejects
  <2> QED
    BY <1>1, <2>1 DEF PutsIn
<1>3. CASE r.for # "none"
  <2>1. \A p \in Awaited(r.for) \ {r} : p.what # "put" /\ IsRequest(p)
    BY <1>3 DEF Awaited, Requests, IsKnown, Changes
  <2>2. PICK left : left = Loose(Awaited(r.for) \ {r})
    OBVIOUS
  <2>3. \A q \in left : q.what # "put"
    <3>1. ASSUME NEW p \in Awaited(r.for) \ {r}, NEW q, q = [p EXCEPT !.for = "none"]
          PROVE  q.what # "put"
      BY <2>1, <3>1, LooseOnly
    <3> QED
      BY <2>2, <3>1 DEF Loose
  <2>4. net' = (net \ Awaited(r.for)) \cup left \cup late \cup AfterAction(r.for)
    BY <1>3, <2>2 DEF Rejects
  <2>5. PutsIn(net \ Awaited(r.for)) = PutsIn(net) \ {r}
    BY <2>1 DEF PutsIn, Awaited
  <2>6. PutsIn(left) = {}
    BY <2>3 DEF PutsIn
  <2>7. PutsIn(net') = PutsIn(net \ Awaited(r.for)) \cup PutsIn(left) \cup PutsIn(late)
                       \cup PutsIn(AfterAction(r.for))
    BY <2>4 DEF PutsIn
  <2> QED
    BY <1>1, <2>5, <2>6, <2>7
<1> QED
  BY <1>2, <1>3

\* A GET /config or the awaited PUT is answered.
LEMMA AdoptKnows ==
  ASSUME Requests, Draft, Knowledge, Bodies, NEW r \in net, TakesConfig(r) \/ TakesSaved(r)
  PROVE  Knowledge' /\ Bodies'
<1>1. CASE TakesConfig(r)
  <2>1. r.what = "config" /\ net' = net \ {r}
    BY <1>1 DEF TakesConfig, Resolves
  <2>2. PutsIn(net') = PutsIn(net)
    BY <2>1 DEF PutsIn
  <2>3. server' = server /\ config' = r.reply
    BY <1>1 DEF TakesConfig, adoptConfig, serverVars
  <2>4. apart' = (r.reply # configView(server) \/ PutsIn(net) # {})
    BY <1>1 DEF TakesConfig
  <2>5. CASE apart'
    BY <2>2, <2>5, ApartKeeps
  <2>6. CASE ~apart'
    BY <2>2, <2>3, <2>4, <2>6 DEF Knowledge, Bodies
  <2> QED
    BY <2>5, <2>6
<1>2. CASE TakesSaved(r)
  <2>1. r.what = "put" /\ Arrived(r) /\ r.reply \in Shown
    BY <1>2 DEF TakesSaved, Arrived, Requests, IsKnown
  <2>2. net' = (net \ {r}) \cup Refresh("save", r.filter) /\ UNCHANGED <<server, apart>>
        /\ config' = r.reply
    BY <1>2 DEF TakesSaved, adoptConfig, serverVars
  <2>3. PutsIn(net') = PutsIn(net) \ {r}
    BY <2>2, RefreshAsks DEF PutsIn
  <2>4. ~apart => config' = configView(server)
    BY <2>1, <2>2 DEF Knowledge, PutsIn
  <2> QED
    BY <2>2, <2>3, <2>4 DEF Knowledge, Bodies
<1> QED
  BY <1>1, <1>2

LEMMA RejectsKnows ==
  ASSUME Requests, Draft, Knowledge, Bodies, NEW r \in net, IsRefused(r) \/ IsLost(r)
  PROVE  Knowledge' /\ Bodies'
<1>1. UNCHANGED <<server, config>>
  BY DEF IsRefused, IsLost, Rejects, serverVars, draftVars
<1>2. IsKnown(r)
  BY DEF Requests
<1>3. CASE IsRefused(r)
  <2>1. PutsIn(net') = PutsIn(net) \ {r}
    BY <1>3, RejectsPuts DEF IsRefused, PutsIn
  <2> QED
    BY <1>1, <1>3, <2>1, DropKeeps DEF IsRefused
<1>4. CASE IsLost(r)
  <2>1. PICK late \in {{}} \cup {Loose({q}) : q \in {q \in {r} : q.what \in Changes /\ q.reply = Pending}} :
          /\ Rejects(r, late)
          /\ apart' = (apart \/ (r.what = "put" /\ (r.reply # Pending \/ late # {})))
    BY <1>4 DEF IsLost
  <2>2. PICK q : q = [r EXCEPT !.for = "none"]
    OBVIOUS
  <2>3. q.for = "none" /\ q.what = r.what /\ q.form = r.form /\ q.touched = r.touched
    BY <1>2, <2>2, LooseOnly DEF IsKnown
  <2>4. late = {} \/ late = {q}
    BY <2>2 DEF Loose
  <2>5. PutsIn(net') = (PutsIn(net) \ {r}) \cup PutsIn(late)
    BY <2>1, <2>3, <2>4, RejectsPuts
  <2>6. CASE r.what # "put"
    <3>1. PutsIn(late) = {}
      BY <2>3, <2>4, <2>6 DEF PutsIn
    <3>2. PutsIn(net') = PutsIn(net)
      BY <2>5, <2>6, <3>1 DEF PutsIn
    <3> QED
      BY <1>1, <2>1, <3>2, QuietKeeps
  <2>7. CASE r.what = "put" /\ apart' 
    <3>1. \A p \in PutsIn(net') : \E o \in PutsIn(net) : p.form = o.form /\ p.touched = o.touched
      BY <2>3, <2>4, <2>5, <2>7 DEF PutsIn
    <3> QED
      BY <2>7, <3>1, ApartKeeps
  <2>8. CASE r.what = "put" /\ ~apart'
    <3>1. ~apart /\ r.reply = Pending /\ late = {}
      BY <2>1, <2>8
    <3>2. PutsIn(net') = PutsIn(net) \ {r}
      BY <2>5, <3>1 DEF PutsIn
    <3> QED
      BY <1>1, <3>1, <3>2, DropKeeps
  <2> QED
    BY <2>6, <2>7, <2>8
<1> QED
  BY <1>3, <1>4

\* A draft that is sent says of what the user left alone what the dashboard was shown.
LEMMA SaveKnows ==
  ASSUME Requests, Flags, Draft, Knowledge, Bodies, PressSave
  PROVE  Knowledge' /\ Bodies'
<1>1. PICK q : q = [Request("save", "put", eventFilter)
                      EXCEPT !.form = form, !.touched = Touched(form, baseline)]
  OBVIOUS
<1>2. q = [for |-> "save", what |-> "put", filter |-> eventFilter, form |-> form,
           touched |-> Touched(form, baseline), reply |-> Pending]
  BY <1>1 DEF Request
<1>3. PutsIn(net') = PutsIn(net) \cup {q}
  <2>1. net' = net \cup {q}
    BY <1>1 DEF PressSave, Sends
  <2>2. q.what = "put"
    BY <1>2
  <2> QED
    BY <2>1, <2>2 DEF PutsIn
<1>4. UNCHANGED <<server, config, apart>>
  BY DEF PressSave, serverVars, draftVars
<1>5. Pending \notin Shown /\ configView(server) # Pending
  BY ViewIsShown, DashboardAssumption DEF Draft, Accepted
<1>6. Knowledge'
  BY <1>2, <1>3, <1>4, <1>5 DEF Knowledge
<1>7. \A p \in Parts \ q.touched : baseline # None /\ Part(q.form, p) = Part(baseline, p)
  BY <1>2 DEF Touched
<1>8. baseline # None => config # None /\ baseline = formFromConfig(config)
  BY DEF Draft
<1>9. "URL" \notin q.touched => q.form.Webhook.URL = NoURL /\ ~q.form.Webhook.Clear
  <2> SUFFICES ASSUME "URL" \notin q.touched
               PROVE  q.form.Webhook.URL = NoURL /\ ~q.form.Webhook.Clear
    OBVIOUS
  <2>1. Part(q.form, "URL") = Part(baseline, "URL") /\ baseline = formFromConfig(config) /\ config # None
    BY <1>7, <1>8 DEF Parts
  <2>2. q.form \in Forms /\ config \in Shown
    BY <1>2, <2>1 DEF Draft
  <2>3. PICK w : w = q.form.Webhook
    OBVIOUS
  <2>4. PICK v : v = baseline.Webhook
    OBVIOUS
  <2>5. DOMAIN w = {"Enabled", "Kind", "URL", "Clear"} /\ DOMAIN v = {"Enabled", "Kind", "URL", "Clear"}
    BY <2>1, <2>2, <2>3, <2>4 DEF Forms, formFromConfig
  <2>6. v.URL = NoURL /\ v.Clear = FALSE
    BY <2>1, <2>4 DEF formFromConfig
  <2>7. [x \in {"URL", "Clear"} |-> w[x]] = [x \in {"URL", "Clear"} |-> v[x]]
    <3>1. {"URL", "Clear"} \cap DOMAIN w = {"URL", "Clear"} /\ {"URL", "Clear"} \cap DOMAIN v = {"URL", "Clear"}
      BY <2>5
    <3> QED
      BY <2>1, <2>3, <2>4, <3>1, DashboardRulesAssumption DEF Part
  <2>8. w["URL"] = v["URL"] /\ w["Clear"] = v["Clear"]
    BY <2>7
  <2> QED
    BY <2>3, <2>6, <2>8
<1>10. ASSUME ~apart, NEW p \in Parts \ q.touched
       PROVE  Part(q.form, p) = Part(formFromConfig(configView(server)), p)
  <2>1. PutsIn(net) = {}
    <3>1. Awaited("save") = {}
      BY DEF Flags, PressSave, NotSaving
    <3> QED
      BY <1>10, <3>1 DEF Knowledge, PutsIn, Awaited
  <2>2. config = configView(server)
    BY <1>7, <1>8, <1>10, <2>1 DEF Knowledge
  <2> QED
    BY <1>7, <1>8, <1>10, <2>2
<1>11. Bodies'
  BY <1>3, <1>4, <1>9, <1>10 DEF Bodies
<1> QED
  BY <1>6, <1>11

\* What is sent and is no PUT.
LEMMA OthersKnow ==
  ASSUME Knowledge, Bodies, UNCHANGED <<server, config, apart>>,
         NEW requests, Sends(requests), \A q \in requests : q.what # "put"
  PROVE  Knowledge' /\ Bodies'
<1>1. PutsIn(net') = PutsIn(net)
  BY DEF Sends, PutsIn
<1> QED
  BY <1>1, QuietKeeps

LEMMA NextKnowledge ==
  ASSUME Requests, Flags, Draft, Knowledge, Bodies, [Next]_vars
  PROVE  Knowledge' /\ Bodies'
<1> USE DEF serverVars, draftVars
<1>1. CASE UNCHANGED vars
  BY <1>1, QuietKeeps DEF vars
<1>2. ASSUME NEW r \in net, AnswersGet(r) \/ FailsGet(r) \/ ActsOnDaemon(r) \/ ClearsLog(r)
      PROVE  Knowledge' /\ Bodies'
  <2>1. PICK x : net' = net \ {r} \/ net' = (net \ {r}) \cup {[r EXCEPT !.reply = x]}
    BY <1>2 DEF AnswersGet, FailsGet, ActsOnDaemon, ClearsLog, Answered, Replied
  <2>2. r.what # "put" /\ UNCHANGED <<server, config, apart>>
    BY <1>2 DEF AnswersGet, FailsGet, ActsOnDaemon, ClearsLog, Acts
  <2>3. [r EXCEPT !.reply = x].what # "put"
    BY <2>2, ReplyOnly DEF Requests, IsKnown
  <2>4. PutsIn(net') = PutsIn(net)
    BY <2>1, <2>2, <2>3 DEF PutsIn
  <2> QED
    BY <2>2, <2>4, QuietKeeps
<1>3. ASSUME NEW r \in net, RefusesPut(r)
      PROVE  Knowledge' /\ Bodies'
  <2>1. r \in PutsIn(net) /\ r.reply = Pending /\ IsKnown(r) /\ UNCHANGED <<server, config, apart>>
    BY <1>3 DEF RefusesPut, PutsIn, Requests
  <2>2. PICK q : q = [r EXCEPT !.reply = Failed]
    OBVIOUS
  <2>3. q.reply = Failed /\ q.for = r.for /\ q.what = "put" /\ q.form = r.form /\ q.touched = r.touched
    BY <2>1, <2>2, ReplyOnly DEF IsKnown, PutsIn
  <2>4. PutsIn(net') = PutsIn(net) \ {r} \/ PutsIn(net') = (PutsIn(net) \ {r}) \cup {q}
    BY <1>3, <2>2, <2>3 DEF RefusesPut, Answered, Replied, PutsIn
  <2>5. configView(server) \notin {Pending, Failed} /\ Failed \notin Shown /\ Failed # Pending
    BY ViewIsShown, DashboardAssumption DEF Draft, Accepted
  <2> QED
    BY <2>1, <2>3, <2>4, <2>5 DEF Knowledge, Bodies
<1>4. ASSUME NEW r \in net, TakesStatus(r) \/ TakesEvents(r)
      PROVE  Knowledge' /\ Bodies'
  <2>1. PutsIn(net') = PutsIn(net) /\ UNCHANGED <<server, config, apart>>
    BY <1>4 DEF TakesStatus, TakesEvents, Resolves, PutsIn
  <2> QED
    BY <2>1, QuietKeeps
<1>5. ASSUME NEW r \in net, TakesCleared(r) \/ TakesActed(r)
      PROVE  Knowledge' /\ Bodies'
  <2>1. PICK new : net' = (net \ {r}) \cup new /\ new \in {Refresh("clear", r.filter), AfterAction(r.for)}
    BY <1>5 DEF TakesCleared, TakesActed
  <2>2. \A q \in new : q.what # "put"
    BY <2>1, RefreshAsks, NewRequest DEF AfterAction
  <2>3. r.what # "put" /\ UNCHANGED <<server, config, apart>>
    BY <1>5 DEF TakesCleared, TakesActed, Acts
  <2>4. PutsIn(net') = PutsIn(net)
    BY <2>1, <2>2, <2>3 DEF PutsIn
  <2> QED
    BY <2>3, <2>4, QuietKeeps
<1>6. CASE OtherPuts
  BY <1>6, ApartKeeps DEF OtherPuts
<1>7. CASE DaemonDies \/ Attacked \/ PressTab \/ EditServices \/ EditSettings
  BY <1>7, QuietKeeps DEF DaemonDies, Attacked, PressTab, EditServices, EditSettings, Edit
<1>8. CASE PressRetry
  <2>1. PICK requests : Sends(requests) /\ requests = LoadRequests
    BY <1>8 DEF PressRetry
  <2>2. \A q \in requests : q.what # "put"
    BY <2>1, NewRequest, RefreshAsks DEF LoadRequests
  <2> QED
    BY <1>8, <2>1, <2>2, OthersKnow DEF PressRetry
<1>9. CASE PressDaemon \/ ChooseFilter \/ PressRefresh \/ PressClear
  <2>1. PICK for, what, filter : Sends({Request(for, what, filter)}) /\ what # "put"
    <3>1. CASE PressDaemon
      <4>1. PICK act \in {"restart", IF status # None /\ status.Running THEN "stop" ELSE "start"} :
              Sends({Request("action", act, "all")})
        BY <3>1 DEF PressDaemon
      <4> QED
        BY <4>1
    <3>2. CASE ChooseFilter
      BY <3>2 DEF ChooseFilter
    <3>3. CASE PressRefresh
      BY <3>3 DEF PressRefresh
    <3>4. CASE PressClear
      BY <3>4 DEF PressClear
    <3> QED
      BY <1>9, <3>1, <3>2, <3>3, <3>4
  <2>2. PICK q : q = Request(for, what, filter) /\ q.what # "put"
    BY <2>1, NewRequest
  <2> QED
    BY <1>9, <2>1, <2>2, OthersKnow DEF PressDaemon, ChooseFilter, PressRefresh, PressClear
<1>10. CASE Poll
  <2>1. PICK requests : Sends(requests) /\ requests = Refresh("none", CurrentFilter)
    BY <1>10 DEF Poll
  <2>2. \A q \in requests : q.what # "put"
    BY <2>1, RefreshAsks
  <2> QED
    BY <1>10, <2>1, <2>2, OthersKnow DEF Poll
<1> QED
  BY <1>1, <1>2, <1>3, <1>4, <1>5, <1>6, <1>7, <1>8, <1>9, <1>10,
     AppliesKeeps, AdoptKnows, RejectsKnows, SaveKnows
  DEF Next, CarriesOut, Arrives, User

LEMMA InitKnowledge ==
  ASSUME Init
  PROVE  Knowledge /\ Bodies
<1>1. \A q \in net : q.what # "put"
  BY NewRequest, RefreshAsks DEF Init, LoadRequests
<1>2. config = None
  BY DEF Init
<1> QED
  BY <1>1, <1>2 DEF Knowledge, Bodies, PutsIn

\* The inductive invariant.
Coherence == Requests /\ Flags /\ Draft /\ Knowledge /\ Bodies

LEMMA Coherent == Spec => []Coherence
<1>1. Init => Coherence
  BY InitShape, InitKnowledge DEF Coherence
<1>2. Coherence /\ [Next]_vars => Coherence'
  BY NextRequests, NextDraft, NextKnowledge DEF Coherence
<1> QED
  BY <1>1, <1>2, PTL DEF Spec

(***************************************************************************)
(* The flags that disable a button are set exactly as long as the request  *)
(* behind it is under way, and the draft is always one that can be sent:   *)
(* whatever is edited, answered, refused or lost, in whatever order.       *)
(***************************************************************************)
THEOREM TypeCorrect == Spec => []TypeOK
<1>1. Coherence => TypeOK
  <2> SUFFICES ASSUME Coherence PROVE TypeOK
    OBVIOUS
  <2> USE DEF Coherence
  <2>1. config = None <=> baseline = None
    BY DraftIsForm DEF Draft
  <2> QED
    BY <2>1 DEF TypeOK, Requests, IsKnown, Flags, Draft, Accepted
<1> QED
  BY <1>1, Coherent, PTL

-----------------------------------------------------------------------------
\* A draft nobody has edited asks for the configuration it was made of.
LEMMA RoundTrip ==
  ASSUME NEW c \in Configs
  PROVE  candidate(c, UpdateOf(formFromConfig(configView(c)))) = c
<1> DEFINE f == formFromConfig(configView(c))
<1>1. f = [NodeID |-> c.NodeID, IgnoreIPs |-> c.IgnoreIPs, Services |-> c.Services,
           Webhook |-> [Enabled |-> c.Webhook.Enabled, Kind |-> c.Webhook.Kind,
                        URL |-> NoURL, Clear |-> FALSE]]
  BY ViewIsShown DEF formFromConfig, configView
<1>2. parseIgnoreList(c.IgnoreIPs) = c.IgnoreIPs
  <2>1. PICK S \in SUBSET Addresses : c.IgnoreIPs = [a \in S |-> 1]
    BY DEF Configs, IgnoreLists
  <2> QED
    BY <2>1, DashboardRulesAssumption DEF parseIgnoreList
<1> HIDE DEF f
<1>3. candidate(c, UpdateOf(f)) =
        [NodeID |-> c.NodeID, IgnoreIPs |-> c.IgnoreIPs, Services |-> c.Services,
         Webhook |-> [Enabled |-> c.Webhook.Enabled, Kind |-> c.Webhook.Kind, URL |-> c.Webhook.URL]]
  <2>1. c.Webhook.Kind # ""
    BY DEF Configs, Kinds
  <2> QED
    BY <1>1, <1>2, <2>1 DEF candidate, UpdateOf, NextURL
<1>4. c = [NodeID |-> c.NodeID, IgnoreIPs |-> c.IgnoreIPs, Services |-> c.Services,
           Webhook |-> [Enabled |-> c.Webhook.Enabled, Kind |-> c.Webhook.Kind, URL |-> c.Webhook.URL]]
  BY DEF Configs
<1> QED
  BY <1>3, <1>4 DEF f

(***************************************************************************)
(* What the dashboard shows as saved is what the control plane holds, the  *)
(* write-only URL included, whatever was edited, refused, lost and retried *)
(* before, unless one of the three things that "apart" records happened.   *)
(***************************************************************************)
THEOREM CleanCurrent == Spec => []CleanIsCurrent
<1>1. Coherence => CleanIsCurrent
  <2> SUFFICES ASSUME Coherence, ~dirty, ~saving, ~apart
               PROVE  candidate(server, UpdateOf(form)) = server
    BY DEF CleanIsCurrent
  <2> USE DEF Coherence
  <2>1. config # None /\ form = formFromConfig(config)
    BY DashboardAssumption DEF dirty, Draft
  <2>2. PutsIn(net) = {}
    BY DEF Knowledge, Flags, Awaited, PutsIn
  <2>3. config = configView(server)
    BY <2>1, <2>2 DEF Knowledge
  <2> QED
    BY <2>1, <2>3, RoundTrip DEF Draft, Accepted
<1> QED
  BY <1>1, Coherent, PTL

-----------------------------------------------------------------------------
\* The parts of what a draft asks for are the parts of the draft.
LEMMA UntouchedIsKept ==
  ASSUME NEW c \in Configs, NEW f \in Forms, NEW p \in Parts \ {"URL"},
         Part(f, p) = Part(formFromConfig(configView(c)), p)
  PROVE  Part(candidate(c, UpdateOf(f)), p) = Part(c, p)
<1> DEFINE g == formFromConfig(configView(c))
           d == candidate(c, UpdateOf(f))
<1> USE DashboardRulesAssumption
<1>1. g.NodeID = c.NodeID /\ g.IgnoreIPs = c.IgnoreIPs /\ g.Services = c.Services
      /\ g.Webhook.Enabled = c.Webhook.Enabled /\ g.Webhook.Kind = c.Webhook.Kind
  BY ViewIsShown DEF formFromConfig, configView
<1>2. d.NodeID = f.NodeID /\ d.IgnoreIPs = parseIgnoreList(f.IgnoreIPs) /\ d.Services = f.Services
      /\ d.Webhook.Enabled = f.Webhook.Enabled
      /\ (f.Webhook.Kind # "" => d.Webhook.Kind = f.Webhook.Kind)
  BY DEF candidate, UpdateOf
<1> HIDE DEF g, d
<1>3. CASE p \in Catalog
  <2>1. \A x : Part(x, p) = IF p \in DOMAIN x.Services THEN x.Services[p] ELSE None
    BY <1>3 DEF Part
  <2> QED
    BY <1>1, <1>2, <2>1 DEF g, d
<1>4. CASE p = "NodeID"
  <2>1. \A x : Part(x, p) = x.NodeID
    BY <1>4 DEF Part
  <2> QED
    BY <1>1, <1>2, <2>1 DEF g, d
<1>5. CASE p = "IgnoreIPs"
  <2>1. \A x : Part(x, p) = x.IgnoreIPs
    BY <1>5 DEF Part
  <2>2. f.IgnoreIPs = c.IgnoreIPs
    BY <1>1, <2>1 DEF g
  <2>3. PICK S \in SUBSET Addresses : c.IgnoreIPs = [a \in S |-> 1]
    BY DEF Configs, IgnoreLists
  <2>4. parseIgnoreList(c.IgnoreIPs) = c.IgnoreIPs
    BY <2>3 DEF parseIgnoreList
  <2> QED
    BY <1>2, <2>1, <2>2, <2>4 DEF d
<1>6. CASE p = "Enabled"
  <2>1. \A x : Part(x, p) = x.Webhook.Enabled
    BY <1>6 DEF Part
  <2> QED
    BY <1>1, <1>2, <2>1 DEF g, d
<1>7. CASE p = "Kind"
  <2>1. \A x : Part(x, p) = x.Webhook.Kind
    BY <1>7 DEF Part
  <2>2. c.Webhook.Kind # ""
    BY DEF Configs, Kinds
  <2> QED
    BY <1>1, <1>2, <2>1, <2>2 DEF g, d
<1> QED
  BY <1>3, <1>4, <1>5, <1>6, <1>7 DEF Parts

LEMMA UntouchedURLIsKept ==
  ASSUME NEW c \in Configs, NEW f \in Forms, f.Webhook.URL = NoURL, ~f.Webhook.Clear
  PROVE  Part(candidate(c, UpdateOf(f)), "URL") = Part(c, "URL")
<1> DEFINE d == candidate(c, UpdateOf(f))
<1>1. \A x : DOMAIN x.Webhook = {"Enabled", "Kind", "URL"} =>
              Part(x, "URL") = [y \in {"URL"} |-> x.Webhook[y]]
  <2>1. {"URL", "Clear"} \cap {"Enabled", "Kind", "URL"} = {"URL"}
    OBVIOUS
  <2> QED
    BY <2>1, DashboardRulesAssumption DEF Part
<1>2. DOMAIN d.Webhook = {"Enabled", "Kind", "URL"} /\ d.Webhook.URL = c.Webhook.URL
  BY DEF candidate, UpdateOf, NextURL
<1>3. DOMAIN c.Webhook = {"Enabled", "Kind", "URL"}
  BY DEF Configs
<1> QED
  BY <1>1, <1>2, <1>3

(***************************************************************************)
(* Saving the whole form is as good as saving the fields that were edited: *)
(* it overwrites nothing that the dashboard had not been told of, and the  *)
(* stored webhook URL not even then.                                       *)
(***************************************************************************)
THEOREM SavesOnlyEdits == Spec => SavesChangeOnlyEdits
<1>1. Coherence /\ [Next]_vars =>
        [\A r \in net : IsCarriedOut(r) =>
           \A p \in Parts \ r.touched :
             (apart /\ p # "URL") \/ Part(server', p) = Part(server, p)]_vars
  <2> SUFFICES ASSUME Coherence, Next, NEW r \in net, IsCarriedOut(r), NEW p \in Parts \ r.touched,
                      ~(apart /\ p # "URL")
               PROVE  Part(server', p) = Part(server, p)
    OBVIOUS
  <2> USE DEF Coherence
  <2>1. r.what = "put" /\ r.reply = Pending /\ r \notin net' /\ server' # server
    BY DEF IsCarriedOut
  <2>2. PICK q \in net : AppliesPut(q)
    <3>1. \A q \in net : ~AppliesPut(q) /\ (CarriesOut(q) \/ Arrives(q) \/ IsLost(q) \/ FailsGet(q))
                         => server' = server
      BY DEF CarriesOut, AnswersGet, RefusesPut, ActsOnDaemon, ClearsLog, Arrives, TakesStatus,
         TakesEvents, TakesConfig, TakesSaved, TakesCleared, TakesActed, IsRefused, IsLost,
         Rejects, FailsGet, serverVars
    <3>2. DaemonDies \/ Attacked \/ User \/ Poll => server' = server
      BY DEF DaemonDies, Attacked, User, PressTab, PressRetry, EditServices, EditSettings, Edit,
         PressSave, PressDaemon, ChooseFilter, PressRefresh, PressClear, Poll, serverVars
    <3>3. OtherPuts => net' = net
      BY DEF OtherPuts
    <3> QED
      BY <2>1, <3>1, <3>2, <3>3 DEF Next
  <2>3. q = r
    BY <2>1, <2>2 DEF AppliesPut, Answered, Replied
  <2>4. server' = candidate(server, UpdateOf(r.form)) /\ r.form \in Forms
    BY <2>2, <2>3, AppliesIsAccepted DEF AppliesPut, Asked
  <2>5. server \in Configs
    BY DEF Draft, Accepted
  <2>6. r \in PutsIn(net)
    BY <2>1 DEF PutsIn
  <2>7. CASE p = "URL"
    BY <2>4, <2>5, <2>6, <2>7, UntouchedURLIsKept DEF Bodies
  <2>8. CASE p # "URL"
    <3>1. Part(r.form, p) = Part(formFromConfig(configView(server)), p)
      BY <2>1, <2>6, <2>8 DEF Bodies
    <3> QED
      BY <2>4, <2>5, <2>8, <3>1, UntouchedIsKept
  <2> QED
    BY <2>7, <2>8
<1> QED
  BY <1>1, Coherent, PTL DEF Spec, SavesChangeOnlyEdits
=============================================================================
