------------------------- MODULE LanPresenceProofs -------------------------
(***************************************************************************)
(* Proofs about LanPresence, for any number of panels, any drafts and      *)
(* lists, whatever other clients do and whichever requests fail.           *)
(*                                                                         *)
(* While nobody disturbs a call, what it still has to delete is exactly    *)
(* what is managed; and once that is gone, the managed flows, followed by  *)
(* those it has yet to put, are the flows of its mapping.                  *)
(***************************************************************************)
EXTENDS LanPresence, LanRulesProofs

(***************************************************************************)
(* The inductive invariant.  Every panel has a list in its form and in the *)
(* mapping it publishes, puts only managed flows, and shows no success     *)
(* while its call runs (Shape).  As long as nobody disturbs it, it deletes *)
(* all that is managed, or the managed flows and those it has yet to put   *)
(* are, together, what its call is to leave (Undisturbed), from the GET to *)
(* the load() that ends it and on to its message.                          *)
(***************************************************************************)
Planned(p) == IF goal[p] = "apply" THEN lanPresenceRules(mapping[p]) ELSE <<>>

Functions ==
  /\ pc = [p \in Panels |-> pc[p]] /\ goal = [p \in Panels |-> goal[p]]
  /\ form = [p \in Panels |-> form[p]] /\ mapping = [p \in Panels |-> mapping[p]]
  /\ pfwConfig = [p \in Panels |-> pfwConfig[p]] /\ told = [p \in Panels |-> told[p]]
  /\ deletes = [p \in Panels |-> deletes[p]] /\ puts = [p \in Panels |-> puts[p]]
  /\ alone \in [Panels -> BOOLEAN] /\ current \in [Panels -> BOOLEAN]

Shape(p) ==
  /\ pc[p] \in {"load", "get", "change", "idle"}
  /\ goal[p] \in {"apply", "remove", "none"}
  /\ told[p] \in {"none", "published", "removed", "failed"}
  /\ IsList(puts[p]) /\ \A i \in DOMAIN puts[p] : isManagedLanPresenceRule(puts[p][i])
  /\ IsList(form[p].portMappings)
  /\ goal[p] = "apply" => IsList(mapping[p].portMappings)
  /\ pc[p] # "change" => deletes[p] = {} /\ puts[p] = <<>>
  /\ pc[p] \in {"get", "change"} => goal[p] # "none" /\ told[p] = "none"
  /\ pc[p] = "idle" => goal[p] = "none"
  /\ goal[p] # "none" => told[p] \in {"none", "failed"}
  /\ p \notin open => pfwConfig[p] = None

Undisturbed(p) ==
  alone[p] =>
    /\ deletes[p] # {} => deletes[p] = ManagedIndexes(flows) /\ puts[p] = Planned(p)
    /\ pc[p] = "change" /\ deletes[p] = {} => Managed(flows) \o puts[p] = Planned(p)
    /\ pc[p] = "load" /\ goal[p] # "none" /\ told[p] # "failed" => Managed(flows) = Planned(p)
    /\ told[p] = "published" => Managed(flows) = lanPresenceRules(mapping[p])
    /\ told[p] = "removed" => Managed(flows) = <<>>

\* A tab has one panel open at most.
OnePerTab == open \subseteq Panels /\ \A p, q \in open : Tab(p) = Tab(q) => p = q

Calls == Functions /\ OnePerTab /\ IsList(flows) /\ \A p \in Panels : Shape(p) /\ Undisturbed(p)

-----------------------------------------------------------------------------
(***************************************************************************)
(* What the four requests do to the list of flows.                         *)
(***************************************************************************)
\* A managed flow is put.
LEMMA ManagedPut ==
  ASSUME NEW s, IsList(s), NEW e, isManagedLanPresenceRule(e)
  PROVE  /\ IsList(Append(s, e))
         /\ Managed(Append(s, e)) = Append(Managed(s), e)
         /\ Kept(Append(s, e), FALSE)[Len(Append(s, e))] = Kept(s, FALSE)[Len(s)]
<1> DEFINE T == ToSet(s) \cup {e}
<1>1. s \in Seq(T) /\ e \in T
  BY DEF IsList
<1> HIDE DEF T
<1>2. Append(s, e) \in Seq(T) /\ Len(Append(s, e)) = Len(s) + 1
  BY <1>1
<1>3. Matches(e, TRUE) /\ ~Matches(e, FALSE)
  BY MatchesBoth, Zenon
<1>4. /\ Kept(Append(s, e), TRUE)[Len(s) + 1] = Append(Kept(s, TRUE)[Len(s)], e)
      /\ Kept(Append(s, e), FALSE)[Len(s) + 1] = Kept(s, FALSE)[Len(s)]
  BY <1>1, <1>3, KeptOfAppend, Zenon
<1> QED
  BY <1>2, <1>4, ListFacts DEF Managed

\* Somebody else puts a flow of their own.
LEMMA ForeignPut ==
  ASSUME NEW s, IsList(s), NEW e, ~isManagedLanPresenceRule(e)
  PROVE  /\ IsList(Append(s, e))
         /\ Managed(Append(s, e)) = Managed(s)
         /\ ManagedIndexes(Append(s, e)) = ManagedIndexes(s)
<1> DEFINE T == ToSet(s) \cup {e}
<1>1. s \in Seq(T) /\ e \in T
  BY DEF IsList
<1> HIDE DEF T
<1>2. Append(s, e) \in Seq(T) /\ Len(Append(s, e)) = Len(s) + 1
  BY <1>1
<1>3. ~Matches(e, TRUE)
  BY MatchesBoth, Zenon
<1>4. Kept(Append(s, e), TRUE)[Len(s) + 1] = Kept(s, TRUE)[Len(s)]
  BY <1>1, <1>3, KeptOfAppend, Zenon
<1>5. /\ DOMAIN s = 1 .. Len(s) /\ DOMAIN Append(s, e) = 1 .. Len(s) + 1 /\ Len(s) \in Nat
      /\ \A i \in 1 .. Len(s) : Append(s, e)[i] = s[i]
      /\ Append(s, e)[Len(s) + 1] = e
  BY <1>1
<1>6. ManagedIndexes(Append(s, e)) = ManagedIndexes(s)
  BY <1>5 DEF ManagedIndexes
<1> QED
  BY <1>2, <1>4, <1>6, ListFacts DEF Managed

\* Removing a flow of somebody else leaves the managed flows as they are.
LEMMA ForeignRemoved ==
  ASSUME NEW s, IsList(s), NEW i \in DOMAIN s, ~isManagedLanPresenceRule(s[i])
  PROVE  IsList(RemoveAt(s, i)) /\ Managed(RemoveAt(s, i)) = Managed(s)
<1>1. /\ RemoveAt(s, i) \in Seq(ToSet(s)) /\ Len(RemoveAt(s, i)) = Len(s) - 1
  BY Removed DEF IsList
<1>2. ~Matches(s[i], TRUE)
  BY MatchesBoth, Zenon
<1>3. Kept(RemoveAt(s, i), TRUE)[Len(s) - 1] = Kept(s, TRUE)[Len(s)]
  BY <1>2, KeptOfRemoved DEF IsList
<1> QED
  BY <1>1, <1>3, ListFacts DEF Managed

\* Removing the last managed flow leaves the others, and shifts no other index.
LEMMA LastManagedRemoved ==
  ASSUME NEW s, IsList(s), ManagedIndexes(s) # {}
  PROVE  LET i == Max(ManagedIndexes(s))
         IN /\ i \in DOMAIN s
            /\ IsList(RemoveAt(s, i))
            /\ ManagedIndexes(RemoveAt(s, i)) = ManagedIndexes(s) \ {i}
            /\ Kept(RemoveAt(s, i), FALSE)[Len(RemoveAt(s, i))] = Kept(s, FALSE)[Len(s)]
<1> DEFINE i == Max(ManagedIndexes(s))
           r == RemoveAt(s, i)
<1>1. Len(s) \in Nat /\ DOMAIN s = 1 .. Len(s)
  BY DEF IsList
<1>2. ManagedIndexes(s) \in SUBSET (1 .. Len(s))
  BY <1>1 DEF ManagedIndexes
<1>3. i \in ManagedIndexes(s) /\ \A j \in ManagedIndexes(s) : j <= i
  BY <1>1, <1>2, Largest
<1> HIDE DEF i
<1>4. i \in DOMAIN s /\ i \in 1 .. Len(s)
  BY <1>1, <1>2, <1>3
<1>5. isManagedLanPresenceRule(s[i])
  BY <1>3, Zenon DEF ManagedIndexes
<1>6. /\ r \in Seq(ToSet(s)) /\ Len(r) = Len(s) - 1
      /\ \A j \in 1 .. Len(s) - 1 : r[j] = IF j < i THEN s[j] ELSE s[j + 1]
  BY <1>4, Removed DEF IsList
<1>7. Kept(r, FALSE)[Len(r)] = Kept(s, FALSE)[Len(s)]
  <2>1. ~Matches(s[i], FALSE)
    BY <1>5, MatchesBoth, Zenon
  <2>2. Kept(r, FALSE)[Len(s) - 1] = Kept(s, FALSE)[Len(s)]
    BY <1>4, <2>1, KeptOfRemoved DEF IsList
  <2> QED
    BY <1>6, <2>2
<1>8. DOMAIN r = 1 .. Len(s) - 1
  BY <1>6
<1> HIDE DEF r
<1>9. ManagedIndexes(r) = ManagedIndexes(s) \ {i}
  <2>1. ASSUME NEW j \in ManagedIndexes(r)
        PROVE  j \in ManagedIndexes(s) \ {i}
    <3>1. j \in 1 .. Len(s) - 1 /\ isManagedLanPresenceRule(r[j])
      BY <1>8 DEF ManagedIndexes
    <3>2. CASE j < i
      BY <1>1, <1>4, <1>6, <3>1, <3>2 DEF ManagedIndexes
    <3>3. CASE ~(j < i)
      <4>1. r[j] = s[j + 1] /\ j + 1 \in 1 .. Len(s) /\ j + 1 > i
        BY <1>1, <1>4, <1>6, <3>1, <3>3
      <4>2. j + 1 \in ManagedIndexes(s)
        BY <1>1, <3>1, <4>1 DEF ManagedIndexes
      <4> QED
        BY <1>3, <1>4, <3>1, <4>1, <4>2
    <3> QED
      BY <3>2, <3>3
  <2>2. ASSUME NEW j \in ManagedIndexes(s) \ {i}
        PROVE  j \in ManagedIndexes(r)
    <3>1. j \in 1 .. Len(s) /\ isManagedLanPresenceRule(s[j])
      BY <1>1 DEF ManagedIndexes
    <3>2. j < i /\ j \in 1 .. Len(s) - 1
      BY <1>1, <1>3, <1>4, <3>1
    <3>3. r[j] = s[j]
      BY <1>6, <3>2
    <3> QED
      BY <1>8, <3>1, <3>2, <3>3 DEF ManagedIndexes
  <2> QED
    BY <2>1, <2>2
<1>10. IsList(r)
  BY <1>6, ListFacts
<1> QED
  BY <1>4, <1>7, <1>9, <1>10 DEF i, r

\* Where no index is managed, no flow is.
LEMMA NoneManaged ==
  ASSUME NEW s, IsList(s), ManagedIndexes(s) = {}
  PROVE  Managed(s) = <<>>
<1>1. Len(s) \in Nat /\ DOMAIN s = 1 .. Len(s)
  BY DEF IsList
<1>2. \A i \in 1 .. Len(s) : ~Matches(s[i], TRUE)
  BY <1>1, MatchesBoth, Zenon DEF ManagedIndexes
<1> QED
  BY <1>1, <1>2, KeptOfNone, Zenon DEF Managed

\* The flows of a mapping are a list, and all of them are managed.
LEMMA PlannedRules ==
  ASSUME NEW m, IsList(m.portMappings)
  PROVE  /\ IsList(lanPresenceRules(m))
         /\ \A i \in DOMAIN lanPresenceRules(m) :
              isManagedLanPresenceRule(lanPresenceRules(m)[i])
<1> DEFINE rules == lanPresenceRules(m)
<1>1. Len(m.portMappings) \in Nat /\ DOMAIN m.portMappings = 1 .. Len(m.portMappings)
  BY DEF IsList
<1>2. /\ DOMAIN rules = 1 .. Len(m.portMappings)
      /\ \A i \in DOMAIN rules : rules[i].RuleName = RuleName(m.portMappings[i])
      /\ rules = [i \in 1 .. Len(m.portMappings) |-> rules[i]]
  BY <1>1 DEF lanPresenceRules
<1> HIDE DEF rules
<1>3. rules \in Seq(ToSet(rules))
  <2>1. rules \in [1 .. Len(m.portMappings) -> ToSet(rules)]
    BY <1>2 DEF ToSet
  <2> QED
    BY <1>1, <2>1, IsASeq
<1>4. \A i \in DOMAIN rules : isManagedLanPresenceRule(rules[i])
  <2>1. ASSUME NEW row
        PROVE  RuleName(row).managed = TRUE
    BY DEF RuleName
  <2> QED
    BY <1>2, <2>1, Zenon DEF isManagedLanPresenceRule
<1> QED
  BY <1>3, <1>4 DEF rules, IsList

\* What load() shows in the form is a list as well.
LEMMA FormsAreLists ==
  ASSUME NEW rules, IsList(rules)
  PROVE  IsList(FormOf(rules).portMappings)
<1> DEFINE managed == Managed(rules)
           rows    == [i \in DOMAIN managed |-> RowOf(managed[i])]
<1>1. managed \in Seq(ToSet(rules))
  <2>1. rules \in Seq(ToSet(rules)) /\ Len(rules) \in 0 .. Len(rules)
    BY DEF IsList
  <2> QED
    BY <2>1, KeptIsList, Zenon DEF Managed
<1> HIDE DEF managed
<1>2. DOMAIN managed = 1 .. Len(managed) /\ Len(managed) \in Nat
  BY <1>1
<1>3. IsList(rows)
  <2>1. rows \in [1 .. Len(managed) -> {RowOf(managed[i]) : i \in 1 .. Len(managed)}]
    BY <1>2
  <2> HIDE DEF rows
  <2>2. rows \in Seq({RowOf(managed[i]) : i \in 1 .. Len(managed)})
    BY <1>2, <2>1, IsASeq
  <2> QED
    BY <2>2, ListFacts
<1>4. IsList(DefaultDraft.portMappings)
  BY LanPresenceAssumption DEF IsList
<1>5. FormOf(rules).portMappings = IF rows = <<>> THEN DefaultDraft.portMappings ELSE rows
  BY Zenon DEF FormOf, lanPresenceState, managed
<1> HIDE DEF rows
<1> QED
  BY <1>3, <1>4, <1>5

LEMMA InitCalls == Init => Calls
<1> SUFFICES ASSUME Init
             PROVE  Calls
  OBVIOUS
<1>1. Functions /\ OnePerTab /\ IsList(flows)
  BY LanPresenceAssumption DEF Init, Functions, OnePerTab, IsList
<1>2. ASSUME NEW p \in Panels
      PROVE  Shape(p) /\ Undisturbed(p)
  <2>1. /\ pc[p] = "idle" /\ goal[p] = "none" /\ told[p] = "none" /\ pfwConfig[p] = None
        /\ form[p] = DefaultDraft /\ deletes[p] = {} /\ puts[p] = <<>>
    BY DEF Init
  <2>2. IsList(DefaultDraft.portMappings) /\ IsList(<<>>)
    BY LanPresenceAssumption DEF IsList
  <2> QED
    BY <2>1, <2>2 DEF Shape, Undisturbed
<1> QED
  BY <1>1, <1>2 DEF Calls

(***************************************************************************)
(* A step of a panel leaves the state of the other panels alone; if it     *)
(* changes the list, it disturbs their calls, and if it changes the        *)
(* managed flows, what they have loaded is no longer current.              *)
(***************************************************************************)
LEMMA OnlyItsOwn ==
  ASSUME Calls, NEW p \in Panels, Panel(p)
  PROVE  /\ Functions' /\ OnePerTab'
         /\ \A q \in Panels \ {p} :
              /\ pc'[q] = pc[q] /\ goal'[q] = goal[q] /\ told'[q] = told[q]
              /\ form'[q] = form[q] /\ mapping'[q] = mapping[q] /\ pfwConfig'[q] = pfwConfig[q]
              /\ deletes'[q] = deletes[q] /\ puts'[q] = puts[q]
              /\ q \in open' <=> q \in open
              /\ alone'[q] => alone[q] /\ flows' = flows
              /\ current'[q] => current[q] /\ Managed(flows') = Managed(flows)
<1> USE DEF Calls, Functions, OnePerTab, Goto
<1>1. CASE Mounts(p) \/ Leaves(p)
  BY <1>1 DEF Mounts, Leaves
<1>2. CASE Edit(p) \/ PressApply(p) \/ PressRemove(p)
  BY <1>2 DEF Edit, PressApply, PressRemove
<1>3. CASE Loaded(p) \/ LoadFails(p)
  BY <1>3 DEF Loaded, LoadFails, Finishes
<1>4. CASE GetAnswered(p) \/ GetConflicts(p) \/ DeleteMisses(p)
  BY <1>4 DEF GetAnswered, GetConflicts, DeleteMisses, Remaining, Fails, ReloadsConfig
<1>5. ASSUME ChangedBy({p})
      PROVE  /\ alone' \in [Panels -> BOOLEAN] /\ current' \in [Panels -> BOOLEAN]
             /\ \A q \in Panels \ {p} :
                  ~alone'[q] /\ (current'[q] => current[q] /\ Managed(flows') = Managed(flows))
  BY <1>5 DEF ChangedBy
<1>6. CASE DeleteAnswered(p) \/ PutAnswered(p)
  BY <1>5, <1>6 DEF DeleteAnswered, PutAnswered, Remaining, Deleted, Put
<1>7. CASE RequestFails(p)
  BY <1>5, <1>7 DEF RequestFails, Fails, ReloadsConfig, Deleted, Put
<1> QED
  BY <1>1, <1>2, <1>3, <1>4, <1>6, <1>7 DEF Panel

LEMMA Elsewhere ==
  ASSUME Calls, NEW p \in Panels, Panel(p), NEW q \in Panels \ {p}
  PROVE  Shape(q)' /\ Undisturbed(q)'
<1>1. /\ pc'[q] = pc[q] /\ goal'[q] = goal[q] /\ told'[q] = told[q]
      /\ form'[q] = form[q] /\ mapping'[q] = mapping[q] /\ pfwConfig'[q] = pfwConfig[q]
      /\ deletes'[q] = deletes[q] /\ puts'[q] = puts[q]
      /\ q \in open' <=> q \in open
      /\ alone'[q] => alone[q] /\ flows' = flows
  BY OnlyItsOwn
<1>2. Shape(q) /\ Undisturbed(q)
  BY DEF Calls
<1>3. Shape(q)'
  BY <1>1, <1>2 DEF Shape
<1>4. Undisturbed(q)'
  BY <1>1, <1>2 DEF Undisturbed, Planned
<1> QED
  BY <1>3, <1>4

-----------------------------------------------------------------------------
(***************************************************************************)
(* A panel's own steps.                                                    *)
(***************************************************************************)
Own(p) == IsList(flows) /\ Shape(p) /\ Undisturbed(p)

\* The user, who comes and goes, edits, and presses nothing while a call of the panel runs.
LEMMA UserSteps ==
  ASSUME Calls, NEW p \in Panels,
         Mounts(p) \/ Leaves(p) \/ Edit(p) \/ PressApply(p) \/ PressRemove(p)
  PROVE  Own(p)'
<1> USE DEF Calls, Functions, Goto, Own
<1>1. /\ flows' = flows /\ alone'[p] = alone[p] /\ deletes'[p] = deletes[p] /\ puts'[p] = puts[p]
      /\ IsList(flows)
  BY DEF Mounts, Leaves, Edit, PressApply, PressRemove
<1>2. IsList(DefaultDraft.portMappings) /\ \A d \in Drafts : IsList(d.portMappings)
  BY LanPresenceAssumption DEF IsList
<1>3. CASE Mounts(p)
  <2>1. /\ pc[p] = "idle" /\ pc'[p] = "load" /\ goal'[p] = goal[p] /\ told'[p] = "none"
        /\ form'[p] = form[p] /\ p \in open'
    BY <1>3 DEF Mounts
  <2> QED
    BY <1>1, <2>1 DEF Shape, Undisturbed, Planned
<1>4. CASE Leaves(p)
  <2>1. /\ pc'[p] = IF goal[p] = "none" THEN "idle" ELSE pc[p]
        /\ goal'[p] = goal[p] /\ told'[p] = told[p] /\ mapping'[p] = mapping[p]
        /\ form'[p] = DefaultDraft /\ pfwConfig'[p] = None
    BY <1>4 DEF Leaves
  <2> QED
    BY <1>1, <1>2, <2>1 DEF Shape, Undisturbed, Planned
<1>5. CASE Edit(p)
  <2>1. /\ IsList(form'[p].portMappings) /\ open' = open /\ pfwConfig' = pfwConfig
        /\ pc'[p] = pc[p] /\ goal'[p] = goal[p] /\ told'[p] = told[p] /\ mapping'[p] = mapping[p]
    BY <1>2, <1>5 DEF Edit
  <2> QED
    BY <1>1, <2>1 DEF Shape, Undisturbed, Planned
<1>6. CASE PressApply(p)
  <2>1. /\ pc[p] = "idle" /\ pc'[p] = "get" /\ goal'[p] = "apply" /\ told'[p] = "none"
        /\ form'[p] = form[p] /\ mapping'[p] = form[p] /\ p \in open'
    BY <1>6 DEF PressApply
  <2> QED
    BY <1>1, <2>1 DEF Shape, Undisturbed, Planned
<1>7. CASE PressRemove(p)
  <2>1. /\ pc[p] = "idle" /\ pc'[p] = "get" /\ goal'[p] = "remove" /\ told'[p] = "none"
        /\ form'[p] = form[p] /\ mapping'[p] = None /\ p \in open'
    BY <1>7 DEF PressRemove
  <2> QED
    BY <1>1, <2>1 DEF Shape, Undisturbed, Planned
<1> QED
  BY <1>3, <1>4, <1>5, <1>6, <1>7

\* load(), which ends the call with its message.
LEMMA LoadSteps ==
  ASSUME Calls, NEW p \in Panels, Loaded(p) \/ LoadFails(p)
  PROVE  Own(p)'
<1> USE DEF Calls, Functions, Goto, Own
<1>1. /\ flows' = flows /\ alone'[p] = alone[p] /\ deletes'[p] = deletes[p] /\ puts'[p] = puts[p]
      /\ mapping'[p] = mapping[p]
      /\ pc[p] = "load" /\ pc'[p] = "idle" /\ goal'[p] = "none"
      /\ told'[p] = IF told[p] = "failed" \/ goal[p] = "none" THEN told[p]
                    ELSE IF goal[p] = "apply" THEN "published" ELSE "removed"
      /\ IsList(flows)
  BY DEF Loaded, LoadFails, Finishes
<1>2. IsList(form'[p].portMappings) /\ open' = open /\ (p \notin open => pfwConfig'[p] = None)
  BY FormsAreLists DEF Loaded, LoadFails, Finishes, Shape
<1>3. Shape(p) /\ Undisturbed(p)
  OBVIOUS
<1>4. Shape(p)'
  BY <1>1, <1>2, <1>3 DEF Shape
<1>5. Undisturbed(p)'
  BY <1>1, <1>3 DEF Undisturbed, Planned, Shape
<1> QED
  BY <1>1, <1>4, <1>5

\* A failure ends the call, whatever PFW did of the last request.
LEMMA FailureShape ==
  ASSUME Calls, NEW p \in Panels, Fails(p), pc[p] \in {"get", "change"}
  PROVE  Shape(p)' /\ Undisturbed(p)'
<1> USE DEF Calls, Functions, Goto
<1>1. /\ pc'[p] = "load" /\ told'[p] = "failed" /\ deletes'[p] = {} /\ puts'[p] = <<>>
      /\ goal'[p] = goal[p] /\ form'[p] = form[p] /\ mapping'[p] = mapping[p]
      /\ open' = open /\ pfwConfig' = pfwConfig
  BY DEF Fails, ReloadsConfig
<1>2. IsList(<<>>)
  BY DEF IsList
<1>3. Shape(p)'
  BY <1>1, <1>2 DEF Shape
<1>4. Undisturbed(p)'
  BY <1>1 DEF Undisturbed
<1> QED
  BY <1>3, <1>4

\* GET /config: the plan of the call, or a conflict.
LEMMA GetSteps ==
  ASSUME Calls, NEW p \in Panels, GetAnswered(p) \/ GetConflicts(p)
  PROVE  Own(p)'
<1> USE DEF Calls, Functions, Goto, Own
<1>1. flows' = flows /\ pc[p] = "get" /\ IsList(flows) /\ Shape(p)
  BY DEF GetAnswered, GetConflicts
<1>2. CASE GetConflicts(p)
  BY <1>1, <1>2, FailureShape DEF GetConflicts
<1>3. CASE GetAnswered(p)
  <2>1. /\ pc'[p] = IF deletes'[p] = {} /\ puts'[p] = <<>> THEN "load" ELSE "change"
        /\ deletes'[p] = ManagedIndexes(flows) /\ puts'[p] = Planned(p)
        /\ goal'[p] = goal[p] /\ form'[p] = form[p] /\ mapping'[p] = mapping[p]
        /\ told'[p] = told[p] /\ open' = open /\ pfwConfig' = pfwConfig
    BY <1>3 DEF GetAnswered, Remaining, OldFlows, Planned
  <2>2. Planned(p)' = Planned(p)
    BY <2>1 DEF Planned
  <2>3. /\ IsList(Planned(p))
        /\ \A i \in DOMAIN Planned(p) : isManagedLanPresenceRule(Planned(p)[i])
    <3>1. IsList(<<>>) /\ DOMAIN <<>> = {}
      BY DEF IsList
    <3> QED
      BY <1>1, <3>1, PlannedRules DEF Planned, Shape
  <2>4. Shape(p)'
    BY <1>1, <2>1, <2>3 DEF Shape
  <2>5. ManagedIndexes(flows) = {} => Managed(flows) = <<>>
    BY <1>1, NoneManaged
  <2>6. <<>> \o Planned(p) = Planned(p)
    BY <2>3 DEF IsList
  <2>7. Undisturbed(p)'
    <3>1. told'[p] = "none"
      BY <1>1, <2>1 DEF Shape
    <3>2. CASE deletes'[p] # {}
      BY <1>1, <2>1, <2>2, <3>1, <3>2 DEF Undisturbed
    <3>3. CASE deletes'[p] = {}
      <4>1. Managed(flows) = <<>>
        BY <2>1, <2>5, <3>3
      <4>2. Managed(flows) \o puts'[p] = Planned(p)
        BY <2>1, <2>6, <4>1, Zenon
      <4>3. pc'[p] = "load" => Managed(flows) = Planned(p)
        BY <2>1, <4>1
      <4> QED
        BY <1>1, <2>2, <3>1, <3>3, <4>2, <4>3, Zenon DEF Undisturbed
    <3> QED
      BY <3>2, <3>3
  <2> QED
    BY <1>1, <2>4, <2>7
<1> QED
  BY <1>2, <1>3

\* The list after DELETE and after PUT.
LEMMA DeletedList ==
  ASSUME Calls, NEW p \in Panels, Deleting(p), Deleted(p)
  PROVE  /\ IsList(flows)'
         /\ alone[p] => /\ ManagedIndexes(flows') = deletes[p] \ {Due(p)}
                        /\ ForeignFlows' = ForeignFlows
<1>1. IsList(flows) /\ Shape(p) /\ Undisturbed(p) /\ deletes[p] # {}
  BY DEF Calls, Deleting
<1>2. flows' = RemoveAt(flows, Due(p)) /\ Due(p) \in DOMAIN flows
  BY DEF Deleting, Deleted
<1>3. IsList(flows)'
  BY <1>1, <1>2, Removed, ListFacts DEF IsList
<1>4. ASSUME alone[p]
      PROVE  ManagedIndexes(flows') = deletes[p] \ {Due(p)} /\ ForeignFlows' = ForeignFlows
  <2>1. deletes[p] = ManagedIndexes(flows)
    BY <1>1, <1>4 DEF Undisturbed
  <2>2. Due(p) = Max(ManagedIndexes(flows))
    BY <2>1 DEF Due, LastDown
  <2> QED
    BY <1>1, <1>2, <2>1, <2>2, LastManagedRemoved DEF ForeignFlows
<1> QED
  BY <1>3, <1>4

LEMMA PutList ==
  ASSUME Calls, NEW p \in Panels, Putting(p), Put(p)
  PROVE  /\ IsList(flows)'
         /\ Managed(flows') \o Tail(puts[p]) = Managed(flows) \o puts[p]
         /\ ForeignFlows' = ForeignFlows
         /\ IsList(Tail(puts[p]))
         /\ \A i \in DOMAIN Tail(puts[p]) : isManagedLanPresenceRule(Tail(puts[p])[i])
<1> DEFINE rest == puts[p]
<1>1. /\ IsList(flows) /\ rest # <<>> /\ IsList(rest)
      /\ \A i \in DOMAIN rest : isManagedLanPresenceRule(rest[i])
      /\ flows' = Append(flows, Head(rest))
  BY DEF Calls, Shape, Putting, Put
<1> HIDE DEF rest
<1>2. rest \in Seq(ToSet(rest)) /\ Len(rest) \in Nat /\ 1 \in DOMAIN rest /\ Head(rest) = rest[1]
  BY <1>1 DEF IsList
<1>3. /\ IsList(flows)' /\ ForeignFlows' = ForeignFlows
      /\ Managed(flows') = Append(Managed(flows), Head(rest))
  BY <1>1, <1>2, ManagedPut DEF ForeignFlows
<1>4. /\ Tail(rest) \in Seq(ToSet(rest)) /\ DOMAIN Tail(rest) = 1 .. Len(rest) - 1
      /\ \A i \in 1 .. Len(rest) - 1 : Tail(rest)[i] = rest[i + 1] /\ i + 1 \in DOMAIN rest
  BY <1>1, <1>2
<1>5. IsList(Tail(rest)) /\ \A i \in DOMAIN Tail(rest) : isManagedLanPresenceRule(Tail(rest)[i])
  BY <1>1, <1>4, ListFacts
<1>6. Managed(flows) \in Seq(ToSet(flows))
  <2>1. flows \in Seq(ToSet(flows)) /\ Len(flows) \in 0 .. Len(flows)
    BY <1>1 DEF IsList
  <2> QED
    BY <2>1, KeptIsList, Zenon DEF Managed
<1>7. Append(Managed(flows), Head(rest)) \o Tail(rest) = Managed(flows) \o rest
  <2> DEFINE S == ToSet(flows) \cup ToSet(rest)
             m == Managed(flows)
  <2>1. m \in Seq(S) /\ rest \in Seq(S)
    BY <1>2, <1>6, SeqMonotonic
  <2> HIDE DEF S, m
  <2>2. Append(m, Head(rest)) \o Tail(rest) = m \o rest
    BY <1>1, <2>1
  <2> QED
    BY <2>2 DEF m
<1> QED
  BY <1>3, <1>5, <1>7 DEF rest

\* DELETE and PUT are answered, or they fail.
LEMMA DeleteSteps ==
  ASSUME Calls, NEW p \in Panels, DeleteAnswered(p)
  PROVE  Own(p)'
<1> USE DEF Calls, Functions, Goto, Own
<1>1. /\ pc[p] = "change" /\ deletes[p] # {} /\ Shape(p) /\ Undisturbed(p)
      /\ alone'[p] = alone[p]
      /\ pc'[p] = IF deletes'[p] = {} /\ puts'[p] = <<>> THEN "load" ELSE "change"
      /\ deletes'[p] = deletes[p] \ {Due(p)} /\ puts'[p] = puts[p]
      /\ goal'[p] = goal[p] /\ form'[p] = form[p] /\ mapping'[p] = mapping[p]
      /\ told'[p] = told[p] /\ open' = open /\ pfwConfig' = pfwConfig
  BY DEF DeleteAnswered, Deleting, Deleted, ChangedBy, Remaining
<1>2. /\ IsList(flows)'
      /\ alone[p] => ManagedIndexes(flows') = deletes[p] \ {Due(p)}
  BY DeletedList DEF DeleteAnswered
<1>3. Shape(p)'
  BY <1>1 DEF Shape
<1>4. ASSUME alone[p]
      PROVE  Undisturbed(p)'
  <2>1. deletes'[p] = ManagedIndexes(flows') /\ puts[p] = Planned(p)
    BY <1>1, <1>2, <1>4 DEF Undisturbed
  <2>2. Planned(p)' = Planned(p) /\ told'[p] = "none"
    BY <1>1 DEF Planned, Shape
  <2>3. CASE deletes'[p] # {}
    BY <1>1, <2>1, <2>2, <2>3 DEF Undisturbed
  <2>4. CASE deletes'[p] = {}
    <3>1. Managed(flows') = <<>>
      BY <1>2, <2>1, <2>4, NoneManaged
    <3>2. <<>> \o puts[p] = puts[p]
      BY <1>1 DEF Shape, IsList
    <3>3. Managed(flows') \o puts'[p] = Planned(p)
      BY <1>1, <2>1, <3>1, <3>2, Zenon
    <3>4. pc'[p] = "load" => Managed(flows') = Planned(p)
      BY <1>1, <2>1, <3>1
    <3> QED
      BY <2>2, <2>4, <3>3, <3>4, Zenon DEF Undisturbed
  <2> QED
    BY <2>3, <2>4
<1>5. ~alone[p] => Undisturbed(p)'
  BY <1>1 DEF Undisturbed
<1> QED
  BY <1>2, <1>3, <1>4, <1>5

LEMMA PutSteps ==
  ASSUME Calls, NEW p \in Panels, PutAnswered(p)
  PROVE  Own(p)'
<1> USE DEF Calls, Functions, Goto, Own
<1>1. /\ pc[p] = "change" /\ deletes[p] = {} /\ Shape(p) /\ Undisturbed(p)
      /\ alone'[p] = alone[p]
      /\ pc'[p] = IF puts'[p] = <<>> THEN "load" ELSE "change"
      /\ deletes'[p] = {} /\ puts'[p] = Tail(puts[p])
      /\ goal'[p] = goal[p] /\ form'[p] = form[p] /\ mapping'[p] = mapping[p]
      /\ told'[p] = told[p] /\ open' = open /\ pfwConfig' = pfwConfig
  BY DEF PutAnswered, Putting, Put, ChangedBy, Remaining
<1>2. /\ IsList(flows)'
      /\ Managed(flows') \o puts'[p] = Managed(flows) \o puts[p]
      /\ IsList(puts'[p]) /\ \A i \in DOMAIN puts'[p] : isManagedLanPresenceRule(puts'[p][i])
  BY <1>1, PutList DEF PutAnswered
<1>3. Shape(p)'
  BY <1>1, <1>2 DEF Shape
<1>4. ASSUME alone[p]
      PROVE  Undisturbed(p)'
  <2>1. Planned(p)' = Planned(p) /\ told'[p] = "none"
    BY <1>1 DEF Planned, Shape
  <2>2. Managed(flows') \o puts'[p] = Planned(p)
    BY <1>1, <1>2, <1>4 DEF Undisturbed
  <2>3. pc'[p] = "load" => Managed(flows') = Planned(p)
    <3>1. Managed(flows') \in Seq(ToSet(flows'))
      <4>1. flows' \in Seq(ToSet(flows')) /\ Len(flows') \in 0 .. Len(flows')
        BY <1>2 DEF IsList
      <4> QED
        BY <4>1, KeptIsList, Zenon DEF Managed
    <3>2. Managed(flows') \o <<>> = Managed(flows')
      BY <3>1, ConcatEmptySeq
    <3> QED
      BY <1>1, <2>2, <3>2
  <2> QED
    BY <1>1, <2>1, <2>2, <2>3, Zenon DEF Undisturbed
<1>5. ~alone[p] => Undisturbed(p)'
  BY <1>1 DEF Undisturbed
<1> QED
  BY <1>2, <1>3, <1>4, <1>5

LEMMA FailureSteps ==
  ASSUME Calls, NEW p \in Panels, DeleteMisses(p) \/ RequestFails(p)
  PROVE  Own(p)'
<1>1. pc[p] \in {"get", "change"} /\ Fails(p)
  BY DEF DeleteMisses, RequestFails, Deleting, Putting
<1>2. IsList(flows)'
  <2>1. flows' = flows => IsList(flows)'
    BY DEF Calls
  <2> QED
    BY <2>1, DeletedList, PutList DEF DeleteMisses, RequestFails
<1> QED
  BY <1>1, <1>2, FailureShape DEF Own

\* A tab is reloaded: its panels are as at first, and the others as they were.
LEMMA ReloadSteps ==
  ASSUME Calls, NEW t \in Tabs, Reloads(t)
  PROVE  Calls'
<1> USE DEF Calls, Functions, Reset
<1>1. Functions' /\ OnePerTab' /\ IsList(flows)'
  BY DEF Reloads, OnePerTab
<1>2. ASSUME NEW p \in Panels, Tab(p) = t
      PROVE  Shape(p)' /\ Undisturbed(p)'
  <2>1. /\ pc'[p] = "idle" /\ goal'[p] = "none" /\ told'[p] = "none" /\ form'[p] = DefaultDraft
        /\ pfwConfig'[p] = None /\ deletes'[p] = {} /\ puts'[p] = <<>> /\ alone'[p] = FALSE
    BY <1>2 DEF Reloads
  <2>2. IsList(DefaultDraft.portMappings) /\ IsList(<<>>)
    BY LanPresenceAssumption DEF IsList
  <2> QED
    BY <2>1, <2>2 DEF Shape, Undisturbed
<1>3. ASSUME NEW p \in Panels, Tab(p) # t
      PROVE  Shape(p)' /\ Undisturbed(p)'
  <2>1. /\ pc'[p] = pc[p] /\ goal'[p] = goal[p] /\ told'[p] = told[p] /\ form'[p] = form[p]
        /\ mapping'[p] = mapping[p] /\ pfwConfig'[p] = pfwConfig[p] /\ deletes'[p] = deletes[p]
        /\ puts'[p] = puts[p] /\ alone'[p] = alone[p] /\ flows' = flows
        /\ p \in open' <=> p \in open
    BY <1>3 DEF Reloads
  <2> QED
    BY <2>1 DEF Shape, Undisturbed, Planned
<1> QED
  BY <1>1, <1>2, <1>3

\* The other clients of PFW, which add any flows and delete any.
LEMMA OtherSteps ==
  ASSUME Calls, OtherAdds \/ OtherDeletes
  PROVE  /\ Calls'
         /\ UNCHANGED <<open, panelVars>>
         /\ \A p \in Panels : current'[p] => current[p] /\ Managed(flows') = Managed(flows)
<1> USE DEF Calls
<1>1. UNCHANGED <<open, panelVars>>
  BY DEF OtherAdds, OtherDeletes
<1>2. ASSUME ChangedBy({})
      PROVE  /\ alone' \in [Panels -> BOOLEAN] /\ current' \in [Panels -> BOOLEAN]
             /\ \A p \in Panels :
                  ~alone'[p] /\ (current'[p] => current[p] /\ Managed(flows') = Managed(flows))
  BY <1>2 DEF ChangedBy, Functions
<1>3. CASE ChangedBy({}) /\ IsList(flows)'
  <2>1. Functions' /\ OnePerTab' /\ \A p \in Panels : Shape(p)'
    BY <1>1, <1>2, <1>3 DEF panelVars, Functions, OnePerTab, Shape
  <2>2. \A p \in Panels : Undisturbed(p)'
    BY <1>2, <1>3 DEF Undisturbed
  <2> QED
    BY <1>1, <1>2, <1>3, <2>1, <2>2
<1>4. CASE OtherDeletes
  <2>1. IsList(flows)'
    BY <1>4, Removed, ListFacts DEF OtherDeletes, IsList
  <2> QED
    BY <1>3, <1>4, <2>1 DEF OtherDeletes
<1>5. CASE OtherAdds
  <2>1. PICK r \in OtherFlows :
          /\ flows' = Append(flows, r)
          /\ IF isManagedLanPresenceRule(r) THEN ChangedBy({}) ELSE UNCHANGED <<alone, current>>
    BY <1>5 DEF OtherAdds
  <2>2. CASE isManagedLanPresenceRule(r)
    BY <1>3, <2>1, <2>2, ManagedPut
  <2>3. CASE ~isManagedLanPresenceRule(r)
    <3>1. /\ IsList(flows)' /\ Managed(flows') = Managed(flows)
          /\ ManagedIndexes(flows') = ManagedIndexes(flows)
      BY <2>1, <2>3, ForeignPut
    <3>2. Functions' /\ OnePerTab' /\ \A p \in Panels : Shape(p)'
      BY <1>1, <2>1, <2>3 DEF panelVars, Functions, OnePerTab, Shape
    <3>3. \A p \in Panels : Undisturbed(p)'
      BY <1>1, <2>1, <2>3, <3>1 DEF Undisturbed, Planned, panelVars
    <3> QED
      BY <1>1, <2>1, <2>3, <3>1, <3>2, <3>3
  <2> QED
    BY <2>2, <2>3
<1> QED
  BY <1>4, <1>5

LEMMA NextCalls == Calls /\ [Next]_vars => Calls'
<1>1. CASE UNCHANGED vars
  BY <1>1 DEF Calls, vars, panelVars, Functions, OnePerTab, Shape, Undisturbed, Planned
<1>2. ASSUME Calls, NEW p \in Panels, Panel(p)
      PROVE  Calls'
  <2>1. Own(p)'
    BY <1>2, UserSteps, LoadSteps, GetSteps, DeleteSteps, PutSteps, FailureSteps DEF Panel
  <2> QED
    BY <1>2, <2>1, OnlyItsOwn, Elsewhere DEF Own, Calls
<1> QED
  BY <1>1, <1>2, ReloadSteps, OtherSteps DEF Next

LEMMA AlwaysCalls == Spec => []Calls
BY InitCalls, NextCalls, PTL DEF Spec

-----------------------------------------------------------------------------
(***************************************************************************)
(* Types hold: nothing is planned outside a call, and what an undisturbed  *)
(* call has yet to delete is all that is managed.                          *)
(***************************************************************************)
THEOREM TypeCorrect == Spec => []TypeOK
<1>1. Calls => TypeOK
  BY DEF Calls, OnePerTab, Shape, Undisturbed, TypeOK, IsList
<1> QED
  BY <1>1, AlwaysCalls, PTL

(***************************************************************************)
(* A success message tells the truth, for any number of panels, whatever   *)
(* the lists and whatever failed before, unless the call was disturbed.    *)
(***************************************************************************)
THEOREM SuccessesAreTrue == Spec => []SuccessIsTrue
<1>1. Calls => SuccessIsTrue
  BY DEF Calls, Undisturbed, SuccessIsTrue
<1> QED
  BY <1>1, AlwaysCalls, PTL

\* An undisturbed call deletes no flow of somebody else, and moves none.
THEOREM UndisturbedDeletes == Spec => UndisturbedDeletesOnlyManaged
<1>1. ASSUME Calls, [Next]_vars
      PROVE  [\A p \in Panels : alone[p] /\ deletes[p] # deletes'[p] =>
                ForeignFlows' = ForeignFlows]_vars
  <2> SUFFICES ASSUME Next, NEW p \in Panels, alone[p], deletes[p] # deletes'[p]
               PROVE  ForeignFlows' = ForeignFlows
    BY <1>1
  <2>1. CASE \E q \in Panels \ {p} : Panel(q)
    BY <1>1, <2>1, OnlyItsOwn
  <2>2. flows' = flows => ForeignFlows' = ForeignFlows
    BY DEF ForeignFlows
  <2>3. CASE GetAnswered(p) \/ GetConflicts(p) \/ DeleteMisses(p)
    BY <2>2, <2>3 DEF GetAnswered, GetConflicts, DeleteMisses
  <2>4. CASE DeleteAnswered(p) \/ PutAnswered(p)
    BY <1>1, <2>4, DeletedList, PutList DEF DeleteAnswered, PutAnswered
  <2>5. CASE RequestFails(p)
    BY <1>1, <2>2, <2>5, DeletedList, PutList DEF RequestFails
  <2>6. CASE \/ Mounts(p) \/ Leaves(p) \/ Edit(p) \/ PressApply(p) \/ PressRemove(p)
             \/ Loaded(p) \/ LoadFails(p)
    BY <2>2, <2>6 DEF Mounts, Leaves, Edit, PressApply, PressRemove, Loaded, LoadFails, Finishes
  <2>7. CASE \E t \in Tabs : Reloads(t)
    BY <2>2, <2>7 DEF Reloads
  <2>8. ~(OtherAdds \/ OtherDeletes)
    BY DEF OtherAdds, OtherDeletes, panelVars
  <2> QED
    BY <2>1, <2>3, <2>4, <2>5, <2>6, <2>7, <2>8 DEF Next, Panel
<1> QED
  BY <1>1, AlwaysCalls, PTL DEF Spec, UndisturbedDeletesOnlyManaged

(***************************************************************************)
(* At rest, and until the next GET, a panel shows the managed flows, for   *)
(* any number of tabs and panels, whoever else changes the list meanwhile: *)
(* its own calls load when they end, failed or not, and the changes others *)
(* make to managed flows are the only ones it does not see.                *)
(***************************************************************************)
Shown(p) ==
  p \in open /\ pc[p] \in {"idle", "get"} /\ pfwConfig[p] # None /\ current[p] =>
    Managed(pfwConfig[p]) = Managed(flows)

AllShown == \A p \in Panels : Shown(p)

THEOREM NothingHidden == Spec => []NothingIsHidden
<1>1. Init => AllShown
  BY DEF Init, AllShown, Shown
<1>2. ASSUME Calls, AllShown, [Next]_vars
      PROVE  AllShown'
  <2> SUFFICES ASSUME NEW p \in Panels
               PROVE  Shown(p)'
    BY DEF AllShown
  <2> USE DEF Calls, Functions, Goto, AllShown
  <2>1. CASE UNCHANGED vars
    BY <1>2, <2>1 DEF vars, panelVars, Shown
  <2>2. CASE OtherAdds \/ OtherDeletes
    BY <1>2, <2>2, OtherSteps DEF Shown, panelVars
  <2>3. CASE \E t \in Tabs : Reloads(t)
    BY <1>2, <2>3 DEF Shown, Reloads, Reset
  <2>4. CASE \E q \in Panels \ {p} : Panel(q)
    BY <1>2, <2>4, OnlyItsOwn DEF Shown
  <2>5. CASE Mounts(p) \/ Leaves(p) \/ Edit(p) \/ PressApply(p) \/ PressRemove(p)
    BY <1>2, <2>5 DEF Shown, Mounts, Leaves, Edit, PressApply, PressRemove
  <2>6. CASE Loaded(p) \/ LoadFails(p)
    BY <1>2, <2>6 DEF Shown, Loaded, LoadFails, Finishes
  <2>7. CASE GetAnswered(p) \/ DeleteAnswered(p) \/ PutAnswered(p)
    BY <1>2, <2>7 DEF Shown, GetAnswered, DeleteAnswered, PutAnswered, Remaining
  <2>8. CASE GetConflicts(p) \/ DeleteMisses(p) \/ RequestFails(p)
    BY <1>2, <2>8 DEF Shown, GetConflicts, DeleteMisses, RequestFails, Fails, ReloadsConfig
  <2> QED
    BY <1>2, <2>1, <2>2, <2>3, <2>4, <2>5, <2>6, <2>7, <2>8 DEF Next, Panel
<1>3. AllShown /\ Calls => NothingIsHidden
  BY DEF AllShown, Shown, NothingIsHidden, Calls, OnePerTab
<1> QED
  BY <1>1, <1>2, <1>3, AlwaysCalls, PTL DEF Spec
=============================================================================
