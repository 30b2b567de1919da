--------------------------- MODULE DashboardRules ---------------------------
(***************************************************************************)
(* The pure part of frontend/src/Plugin.js: the draft that is made of the  *)
(* configuration GET /config shows, the edits, the body of the PUT that    *)
(* saves it, and the checks that come before.  No state.                   *)
(*                                                                         *)
(* A draft holds texts.  A port's text is the number it spells, 0 when it  *)
(* spells no whole number; the text of the ignore list is the bag of its   *)
(* lines; names and URLs are opaque, as they are after trim().             *)
(***************************************************************************)
EXTENDS ConfigRules

CONSTANTS
  None,       \* null and undefined
  BlankLine,  \* a line of the ignore list with nothing on it
  Presets     \* PRESETS: the sets of services that one press enables

ASSUME DashboardRulesAssumption ==
  /\ BlankLine \notin Addresses
  /\ Presets \subseteq SUBSET Catalog
  /\ Catalog \cap {"NodeID", "IgnoreIPs", "Enabled", "Kind", "URL"} = {}

\* What GET /config shows: everything but the webhook URL.
configView(c) ==
  [NodeID    |-> c.NodeID,
   IgnoreIPs |-> c.IgnoreIPs,
   Services  |-> c.Services,
   Webhook   |-> [Enabled    |-> c.Webhook.Enabled,
                  Kind       |-> c.Webhook.Kind,
                  Configured |-> c.Webhook.URL # NoURL]]

formFromConfig(v) ==
  IF v = None
  THEN [NodeID    |-> DefaultNode,
        IgnoreIPs |-> [a \in {} |-> 1],
        Services  |-> [s \in {} |-> None],
        Webhook   |-> [Enabled |-> FALSE, Kind |-> "generic", URL |-> NoURL, Clear |-> FALSE]]
  ELSE [NodeID    |-> v.NodeID,
        IgnoreIPs |-> v.IgnoreIPs,
        Services  |-> v.Services,
        Webhook   |-> [Enabled |-> v.Webhook.Enabled, Kind |-> v.Webhook.Kind,
                       URL |-> NoURL, Clear |-> FALSE]]

-----------------------------------------------------------------------------
(***************************************************************************)
(* The edits.  A dashboard that has no configuration yet shows the whole   *)
(* catalog all the same; a service that is not in its draft is off and has *)
(* no port.                                                                *)
(***************************************************************************)
ServiceOf(form, s) ==
  IF s \in DOMAIN form.Services THEN form.Services[s] ELSE [Enabled |-> FALSE, Port |-> 0]

setService(form, s, value) ==
  [form EXCEPT !.Services = [t \in DOMAIN @ \cup {s} |-> IF t = s THEN value ELSE @[t]]]

Toggled(form, s) ==
  LET old == ServiceOf(form, s) IN setService(form, s, [old EXCEPT !.Enabled = ~@])

WithPort(form, s, port) == setService(form, s, [ServiceOf(form, s) EXCEPT !.Port = port])

applyPreset(form, preset) ==
  [form EXCEPT !.Services = [s \in DOMAIN @ |-> [@[s] EXCEPT !.Enabled = s \in preset]]]

WithURL(form, url) == [form EXCEPT !.Webhook = [@ EXCEPT !.URL = url, !.Clear = FALSE]]

WithoutDestination(form) ==
  [form EXCEPT !.Webhook = [@ EXCEPT !.Enabled = FALSE, !.URL = NoURL, !.Clear = TRUE]]

-----------------------------------------------------------------------------
parseIgnoreList(text) == [a \in DOMAIN text \ {BlankLine} |-> text[a]]

\* The body of the PUT that saves a draft.
UpdateOf(form) ==
  [NodeID    |-> form.NodeID,
   IgnoreIPs |-> parseIgnoreList(form.IgnoreIPs),
   Services  |-> form.Services,
   Webhook   |-> form.Webhook]

PortsBelowLimit(S) ==                   \* mutant: >= 65535 instead of >
  \A s \in DOMAIN S : S[s].Port \in 1 .. PortLimit - 1
PortsInRange(S) == \A s \in DOMAIN S : S[s].Port \in 1 .. PortLimit

\* The checks of save(), each with its alert.
PassesChecks(form) ==
  /\ form.NodeID \in NodeIDs
  /\ PortsInRange(form.Services)
  /\ \A s, t \in DOMAIN form.Services :
       form.Services[s].Port = form.Services[t].Port => s = t
  /\ \E s \in DOMAIN form.Services : form.Services[s].Enabled

-----------------------------------------------------------------------------
\* The parts of a configuration, and those in which two drafts differ.
Parts == Catalog \cup {"NodeID", "IgnoreIPs", "Enabled", "Kind", "URL"}

Part(c, p) ==
  CASE p \in Catalog                -> IF p \in DOMAIN c.Services THEN c.Services[p] ELSE None
    [] p \in {"NodeID", "IgnoreIPs"} -> c[p]
    [] p \in {"Enabled", "Kind"}     -> c.Webhook[p]
    [] p = "URL"                     -> [x \in {"URL", "Clear"} \cap DOMAIN c.Webhook |-> c.Webhook[x]]

Touched(form, baseline) ==
  IF baseline = None THEN Parts
  ELSE {p \in Parts : Part(form, p) # Part(baseline, p)}
=============================================================================
