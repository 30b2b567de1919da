---------------------------- MODULE LanPresence -----------------------------
(***************************************************************************)
(* The LAN presence panel (frontend/src/LanPresencePanel.js) against the   *)
(* list of flows that SPR's programmable firewall (PFW) keeps for          *)
(* everybody.  A browser tab shows one panel at a time, which its user may *)
(* leave and come back to whenever they like: the panel then is a new one, *)
(* and a call of the old one goes on (Plugin.js:516-523, 680).  Each await *)
(* of apply, remove and load is a step that ends with the answer; between  *)
(* two of them the list may change.  PFW is external: GET returns the      *)
(* list, DELETE removes the flow at an index or answers with an error, PUT *)
(* appends a flow.                                                         *)
(***************************************************************************)
EXTENDS LanRules

CONSTANTS
  Tabs,
  Visits,       \* bound: the panels of a tab at once, those left during a call included
  Drafts,       \* the mappings the user may enter
  Listeners,    \* protocol and port of each enabled service of the canary
  DefaultDraft, \* what the form shows when there are no managed flows
  InitialFlows, \* the lists PFW may hold at first
  OtherFlows,   \* the flows other clients of PFW may add, managed ones or not
  Others,       \* what other clients do, a subset of {"add", "delete"}
  Faults,       \* a subset of FaultKinds
  MaxFlows,     \* bound: others add no flow, and no apply is begun one, beyond it
  None

\* "refuse": PFW answers with an error and does nothing; "lose": the answer is lost.
FaultKinds == {"refuse", "lose"}

Panels == Tabs \X Visits
Tab(p) == p[1]

ASSUME LanPresenceAssumption ==
  /\ Others \subseteq {"add", "delete"} /\ Faults \subseteq FaultKinds /\ MaxFlows \in Nat
  /\ \A rules \in InitialFlows : rules \in Seq(ToSet(rules))
  /\ \A d \in Drafts \cup {DefaultDraft} : d.portMappings \in Seq(ToSet(d.portMappings))

VARIABLES
  flows,     \* PFW's ForwardingRules
  open,      \* the panels that are mounted
  pc,        \* what each panel awaits: "load", "get", "change", or "idle"
  goal,      \* the call that runs: "apply", "remove" or "none"
  form,      \* sourceCIDR, presentedDestination and portMappings in the form
  mapping,   \* what the last apply publishes
  pfwConfig, \* the list as last loaded, None when PFW is not available
  deletes,   \* the indexes removeManagedRules has yet to delete, the last one first
  puts,      \* the flows apply has yet to put
  told,      \* the last message: "none", "published", "removed" or "failed"
  alone,     \* history: since the GET of a panel's call nobody else removed a
             \* flow or put a managed one
  current    \* history: since a panel's load() nobody else changed a managed flow

panelVars == <<pc, goal, form, mapping, pfwConfig, deletes, puts, told>>
vars      == <<flows, open, panelVars, alone, current>>

Init ==
  /\ flows \in InitialFlows
  /\ open = {}
  /\ pc = [p \in Panels |-> "idle"]
  /\ goal = [p \in Panels |-> "none"]
  /\ form = [p \in Panels |-> DefaultDraft]
  /\ mapping = [p \in Panels |-> None]
  /\ pfwConfig = [p \in Panels |-> None]
  /\ deletes = [p \in Panels |-> {}]
  /\ puts = [p \in Panels |-> <<>>]
  /\ told = [p \in Panels |-> "none"]
  /\ alone = [p \in Panels |-> FALSE]
  /\ current = [p \in Panels |-> FALSE]

Goto(p, label) == pc' = [pc EXCEPT ![p] = label]

Presence(p) == lanPresenceState(pfwConfig[p], CanaryIP)

\* The form that load() sets.
FormOf(rules) ==
  LET state == lanPresenceState(rules, CanaryIP)
  IN [sourceCIDR |-> IF state.sourceCIDR = Blank THEN DefaultDraft.sourceCIDR
                     ELSE state.sourceCIDR,
      presentedDestination |-> IF state.presentedDestination = Blank
                               THEN DefaultDraft.presentedDestination
                               ELSE state.presentedDestination,
      portMappings |-> IF state.portMappings = <<>> THEN DefaultDraft.portMappings
                       ELSE state.portMappings,
      canaryIP |-> CanaryIP]

-----------------------------------------------------------------------------
(***************************************************************************)
(* The user opens the panel, which loads, and leaves it at any time: the   *)
(* state of the component is gone.  A call that runs goes on without it; a *)
(* load() without a call has nothing left to do.                           *)
(***************************************************************************)
Mounts(p) ==
  /\ p \notin open /\ pc[p] = "idle"
  /\ \A q \in open : Tab(q) # Tab(p)
  /\ open' = open \cup {p}
  /\ Goto(p, "load")
  /\ mapping' = [mapping EXCEPT ![p] = None]
  /\ told' = [told EXCEPT ![p] = "none"]
  /\ UNCHANGED <<flows, goal, form, pfwConfig, deletes, puts, alone, current>>

Leaves(p) ==
  /\ p \in open
  /\ open' = open \ {p}
  /\ form' = [form EXCEPT ![p] = DefaultDraft]
  /\ pfwConfig' = [pfwConfig EXCEPT ![p] = None]
  /\ Goto(p, IF goal[p] = "none" THEN "idle" ELSE pc[p])
  /\ current' = [current EXCEPT ![p] = FALSE]
  /\ UNCHANGED <<flows, goal, mapping, deletes, puts, told, alone>>

\* The tab is closed or reloaded: no call of its panels goes on.
Reset(f, t, value) == [p \in Panels |-> IF Tab(p) = t THEN value ELSE f[p]]

Reloads(t) ==
  /\ open' = {p \in open : Tab(p) # t}
  /\ pc' = Reset(pc, t, "idle")
  /\ goal' = Reset(goal, t, "none")
  /\ form' = Reset(form, t, DefaultDraft)
  /\ mapping' = Reset(mapping, t, None)
  /\ pfwConfig' = Reset(pfwConfig, t, None)
  /\ deletes' = Reset(deletes, t, {})
  /\ puts' = Reset(puts, t, <<>>)
  /\ told' = Reset(told, t, "none")
  /\ alone' = Reset(alone, t, FALSE)
  /\ current' = Reset(current, t, FALSE)
  /\ UNCHANGED flows

(***************************************************************************)
(* The user edits the form, which no running call prevents, and presses    *)
(* the buttons while they are enabled: a call of this panel disables them, *)
(* one of a panel that was left does not.                                  *)
(***************************************************************************)
Edit(p) ==
  /\ p \in open /\ pfwConfig[p] # None
  /\ \E d \in Drafts : form' = [form EXCEPT ![p] = d]
  /\ UNCHANGED <<flows, open, pc, goal, mapping, pfwConfig, deletes, puts, told, alone, current>>

ValidRows(rows) ==
  \A i \in DOMAIN rows :
    /\ validatePort(rows[i].presentedPort) /\ validatePort(rows[i].canaryPort)
    /\ \A j \in DOMAIN rows :
         rows[i].protocol = rows[j].protocol /\ rows[i].presentedPort = rows[j].presentedPort
           => i = j
    /\ <<rows[i].protocol, rows[i].canaryPort>> \in Listeners

Valid(draft) ==
  /\ validateSourceCIDR(draft.sourceCIDR)
  /\ validatePresentedDestination(draft.presentedDestination)
  /\ draft.portMappings # <<>> /\ ValidRows(draft.portMappings)

needsApply(p) ==
  LET presence == Presence(p)
  IN \/ ~presence.configured
     \/ presence.sourceCIDR # form[p].sourceCIDR
     \/ presence.presentedDestination # form[p].presentedDestination
     \/ ToBag(presence.portMappings) # ToBag(form[p].portMappings)

PressApply(p) ==
  /\ p \in open /\ pc[p] = "idle" /\ pfwConfig[p] # None
  /\ Len(flows) <= MaxFlows + 1
  /\ Valid(form[p])
  /\ ~hasLanPresenceConflict(pfwConfig[p], form[p])
  /\ needsApply(p)
  /\ Goto(p, "get")
  /\ goal' = [goal EXCEPT ![p] = "apply"]
  /\ mapping' = [mapping EXCEPT ![p] = form[p]]
  /\ told' = [told EXCEPT ![p] = "none"]
  /\ UNCHANGED <<flows, open, form, pfwConfig, deletes, puts, alone, current>>

PressRemove(p) ==
  /\ p \in open /\ pc[p] = "idle" /\ pfwConfig[p] # None
  /\ Presence(p).enabled
  /\ Goto(p, "get")
  /\ goal' = [goal EXCEPT ![p] = "remove"]
  /\ mapping' = [mapping EXCEPT ![p] = None]
  /\ told' = [told EXCEPT ![p] = "none"]
  /\ UNCHANGED <<flows, open, form, pfwConfig, deletes, puts, alone, current>>

-----------------------------------------------------------------------------
\* The catch blocks: alert, then load.
KeepsStale(p)    == Goto(p, "idle")              \* mutant: no load after an error
ReloadsConfig(p) == Goto(p, "load")

Fails(p) ==
  /\ ReloadsConfig(p)
  /\ told' = [told EXCEPT ![p] = "failed"]
  /\ deletes' = [deletes EXCEPT ![p] = {}]
  /\ puts' = [puts EXCEPT ![p] = <<>>]
  /\ UNCHANGED <<open, goal, form, mapping, pfwConfig>>

\* removeManagedRules: from the last index down, so that none of them shifts.
FirstUp(indexes)  == Min(indexes)                \* mutant: not sorted
LastDown(indexes) == Max(indexes)

AllIndexes(rules)     == DOMAIN rules            \* mutant: not filtered
ManagedIndexes(rules) == {i \in DOMAIN rules : isManagedLanPresenceRule(rules[i])}

OldFlowsStay(rules)   == {}                      \* mutant: publishes beside the old flows
OldFlows(rules)       == ManagedIndexes(rules)

Refused(p) == goal[p] = "apply" /\ hasLanPresenceConflict(flows, mapping[p])

\* What is left of the call, and load() when nothing is.
Remaining(p, indexes, rules) ==
  /\ deletes' = [deletes EXCEPT ![p] = indexes]
  /\ puts' = [puts EXCEPT ![p] = rules]
  /\ Goto(p, IF indexes = {} /\ rules = <<>> THEN "load" ELSE "change")
  /\ UNCHANGED <<open, goal, form, mapping, pfwConfig, told>>

\* GET /config answers: apply looks for conflicts, and both plan their requests.
GetAnswered(p) ==
  /\ pc[p] = "get"
  /\ ~Refused(p)
  /\ Remaining(p, OldFlows(flows),
                IF goal[p] = "apply" THEN lanPresenceRules(mapping[p]) ELSE <<>>)
  /\ alone' = [alone EXCEPT ![p] = TRUE]
  /\ UNCHANGED <<flows, current>>

GetConflicts(p) ==
  /\ pc[p] = "get"
  /\ Refused(p)
  /\ Fails(p)
  /\ UNCHANGED <<flows, alone, current>>

\* The list is changed by a panel, or by none of them.
ChangedBy(who) ==
  /\ alone' = [q \in Panels |-> alone[q] /\ q \in who]
  /\ current' = [q \in Panels |->
                    current[q] /\ (q \in who \/ Managed(flows') = Managed(flows))]

\* The next request of the call: the remaining deletes, then the puts.
Due(p)      == LastDown(deletes[p])
Deleting(p) == pc[p] = "change" /\ deletes[p] # {} /\ Due(p) \in DOMAIN flows
Putting(p)  == pc[p] = "change" /\ deletes[p] = {} /\ puts[p] # <<>>

Deleted(p) == flows' = RemoveAt(flows, Due(p)) /\ ChangedBy({p})
Put(p)     == flows' = Append(flows, Head(puts[p])) /\ ChangedBy({p})

DeleteAnswered(p) ==
  /\ Deleting(p) /\ Deleted(p)
  /\ Remaining(p, deletes[p] \ {Due(p)}, puts[p])

DeleteMisses(p) ==
  /\ pc[p] = "change" /\ deletes[p] # {}
  /\ Due(p) \notin DOMAIN flows
  /\ Fails(p)
  /\ UNCHANGED <<flows, alone, current>>

PutAnswered(p) ==
  /\ Putting(p) /\ Put(p)
  /\ Remaining(p, {}, Tail(puts[p]))

RequestFails(p) ==
  /\ \/ /\ "refuse" \in Faults
        /\ pc[p] = "get" \/ Deleting(p) \/ Putting(p)
        /\ UNCHANGED <<flows, alone, current>>
     \/ /\ "lose" \in Faults
        /\ (Deleting(p) /\ Deleted(p)) \/ (Putting(p) /\ Put(p))
  /\ Fails(p)

-----------------------------------------------------------------------------
(***************************************************************************)
(* load(), when the panel is mounted and after each call; it catches its   *)
(* own errors, and the message of success follows it in either case.  On a *)
(* panel that was left it sets nothing.                                    *)
(***************************************************************************)
Finishes(p) ==
  /\ Goto(p, "idle")
  /\ goal' = [goal EXCEPT ![p] = "none"]
  /\ told' = [told EXCEPT ![p] = IF @ = "failed" \/ goal[p] = "none" THEN @
                                 ELSE IF goal[p] = "apply" THEN "published" ELSE "removed"]
  /\ UNCHANGED <<flows, open, mapping, deletes, puts, alone>>

Loaded(p) ==
  /\ pc[p] = "load"
  /\ IF p \in open
     THEN /\ pfwConfig' = [pfwConfig EXCEPT ![p] = flows]
          /\ form' = [form EXCEPT ![p] = FormOf(flows)]
          /\ current' = [current EXCEPT ![p] = TRUE]
     ELSE UNCHANGED <<pfwConfig, form, current>>
  /\ Finishes(p)

LoadFails(p) ==
  /\ pc[p] = "load" /\ "refuse" \in Faults
  /\ pfwConfig' = [pfwConfig EXCEPT ![p] = None]
  /\ current' = [current EXCEPT ![p] = FALSE]
  /\ Finishes(p)
  /\ UNCHANGED form

-----------------------------------------------------------------------------
\* Other clients of PFW.
OtherAdds ==
  /\ "add" \in Others /\ Len(flows) < MaxFlows
  /\ \E r \in OtherFlows :
       /\ flows' = Append(flows, r)
       /\ IF isManagedLanPresenceRule(r) THEN ChangedBy({}) ELSE UNCHANGED <<alone, current>>
  /\ UNCHANGED <<open, panelVars>>

OtherDeletes ==
  /\ "delete" \in Others
  /\ \E i \in DOMAIN flows : flows' = RemoveAt(flows, i)
  /\ ChangedBy({})
  /\ UNCHANGED <<open, panelVars>>

Panel(p) ==
  \/ Mounts(p) \/ Leaves(p)
  \/ Edit(p) \/ PressApply(p) \/ PressRemove(p)
  \/ GetAnswered(p) \/ GetConflicts(p)
  \/ DeleteAnswered(p) \/ DeleteMisses(p) \/ PutAnswered(p)
  \/ RequestFails(p)
  \/ Loaded(p) \/ LoadFails(p)

Next ==
  \/ \E p \in Panels : Panel(p)
  \/ \E t \in Tabs : Reloads(t)
  \/ OtherAdds \/ OtherDeletes

Spec == Init /\ [][Next]_vars

-----------------------------------------------------------------------------
(***************************************************************************)
(* The shape of a plan: unless it was disturbed, its indexes are those of  *)
(* the managed flows, all of them; and nothing is planned outside a call.  *)
(* A tab has one panel open at most, and a panel that is not keeps no list.*)
(***************************************************************************)
TypeOK ==
  /\ flows \in Seq(ToSet(flows))
  /\ open \subseteq Panels /\ \A p, q \in open : Tab(p) = Tab(q) => p = q
  /\ \A p \in Panels :
       /\ pc[p] \in {"load", "get", "change", "idle"}
       /\ goal[p] \in {"apply", "remove", "none"}
       /\ told[p] \in {"none", "published", "removed", "failed"}
       /\ puts[p] \in Seq(ToSet(puts[p]))
       /\ pc[p] # "change" => deletes[p] = {} /\ puts[p] = <<>>
       /\ pc[p] \in {"get", "change"} => goal[p] # "none"
       /\ p \notin open => pfwConfig[p] = None
       /\ alone[p] /\ deletes[p] # {} => deletes[p] = ManagedIndexes(flows)

(***************************************************************************)
(* README.md:48, "Removing LAN presence deletes only the flows managed by  *)
(* this plugin": whatever a panel does, and whichever request fails, the   *)
(* flows of others stay as they were and in their order.  False when two   *)
(* calls run at once, of two tabs or of a panel that was left and the one  *)
(* that replaced it, or other clients remove flows.                        *)
(***************************************************************************)
ForeignFlows == Kept(flows, FALSE)[Len(flows)]

DeletesOnlyManaged ==
  [][OtherAdds \/ OtherDeletes \/ ForeignFlows' = ForeignFlows]_vars

(***************************************************************************)
(* The same of a call during which nobody else removed a flow: deleting    *)
(* from the end, and flows that others append, never shift an index.       *)
(***************************************************************************)
UndisturbedDeletesOnlyManaged ==
  [][\A p \in Panels : alone[p] /\ deletes[p] # deletes'[p] => ForeignFlows' = ForeignFlows]_vars

(***************************************************************************)
(* A success message tells the truth, whatever the list held before, even  *)
(* after attempts that failed half-way: after "published" the managed      *)
(* flows are those of the mapping and no others ("The plugin creates one   *)
(* managed PFW flow per row", README.md:42), after "removed" none is left. *)
(* Only a call that others disturbed may leave more.                       *)
(***************************************************************************)
SuccessIsTrue ==
  \A p \in Panels : alone[p] =>
    /\ told[p] = "published" => Managed(flows) = lanPresenceRules(mapping[p])
    /\ told[p] = "removed" => Managed(flows) = <<>>

(***************************************************************************)
(* At rest a panel shows the flows it manages, also when a request of its  *)
(* last call failed, was carried out although its answer was lost, or hit  *)
(* another flow; only what others do to managed flows after it has loaded  *)
(* is hidden from it, a call of the panel it replaced included.            *)
(***************************************************************************)
NothingIsHidden ==
  \A p \in open : pc[p] = "idle" /\ pfwConfig[p] # None /\ current[p] =>
    Managed(pfwConfig[p]) = Managed(flows)
=============================================================================
