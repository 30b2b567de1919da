---------------------------- MODULE ConfigRules ----------------------------
(***************************************************************************)
(* The rules of code/config.go about one configuration: what an update     *)
(* makes of the current one, when the result is accepted, and the file     *)
(* that OpenCanary is given.  No state; ConfigStore uses these operators.  *)
(*                                                                         *)
(* Node names, ignore-list entries and webhook URLs are opaque values, the *)
(* ones left after strings.TrimSpace.  An ignore list is a bag (entry |->  *)
(* how often): sort.Strings makes the order of an update irrelevant.       *)
(***************************************************************************)
EXTENDS Integers, FiniteSets

CONSTANTS
  Catalog,      \* keys of serviceCatalog
  DefaultPort,  \* ServiceDefinition.DefaultPort of each
  DefaultOn,    \* the services defaultConfig enables
  PortLimit,    \* the largest port, 65535 in the code
  LlmnrPort,    \* the port opencanary.base.json gives its LLMNR module, 5355
  IgnoreLimit,  \* the longest ignore list, 128 in the code
  NodeIDs,      \* the names nodeIDPattern matches
  DefaultNode,  \* the name defaultConfig gives
  Addresses,    \* the entries netip parses as an address or a prefix
  URLs,         \* the absolute http(s) URLs of at most 2048 bytes
  NoURL         \* the empty string

\* The module of opencanary.base.json that is not in the catalog but has a port.
Llmnr == "llmnr"

ASSUME ConfigRulesAssumption ==
  /\ DefaultPort \in [Catalog -> 1 .. PortLimit]
  /\ \A s, t \in Catalog : DefaultPort[s] = DefaultPort[t] => s = t
  /\ \A s \in Catalog : DefaultPort[s] # LlmnrPort
  /\ DefaultOn \subseteq Catalog /\ DefaultOn # {}
  /\ IgnoreLimit \in Nat /\ PortLimit \in Nat
  /\ DefaultNode \in NodeIDs
  /\ NoURL \notin URLs
  /\ Llmnr \notin Catalog

Kinds == {"generic", "slack", "teams"}

\* The configurations validateConfig may accept, and the bodies json may decode.
ServiceConfig == [Enabled : BOOLEAN, Port : 1 .. PortLimit]
IgnoreLists   == {[a \in S |-> 1] : S \in SUBSET Addresses}
Configs ==
  [NodeID    : NodeIDs,
   IgnoreIPs : IgnoreLists,
   Services  : [Catalog -> ServiceConfig],
   Webhook   : [Enabled : BOOLEAN, Kind : Kinds, URL : URLs \cup {NoURL}]]

IsUpdate(u) ==
  /\ u.IgnoreIPs \in [DOMAIN u.IgnoreIPs -> Nat]
  /\ u.Services \in [DOMAIN u.Services -> [Enabled : BOOLEAN, Port : Int]]
  /\ u.Webhook.Enabled \in BOOLEAN /\ u.Webhook.Clear \in BOOLEAN

defaultConfig ==
  [NodeID    |-> DefaultNode,
   IgnoreIPs |-> [a \in {} |-> 1],
   Services  |-> [s \in Catalog |-> [Enabled |-> s \in DefaultOn, Port |-> DefaultPort[s]]],
   Webhook   |-> [Enabled |-> FALSE, Kind |-> "generic", URL |-> NoURL]]

-----------------------------------------------------------------------------
(***************************************************************************)
(* validateConfig, rule by rule.  Ports are compared over the whole        *)
(* catalog: OpenCanary refuses a clash with a disabled service too.        *)
(***************************************************************************)
ValidIgnoreIPs(b) ==
  /\ Cardinality(DOMAIN b) <= IgnoreLimit
  /\ \A a \in DOMAIN b : a \in Addresses /\ b[a] = 1

DistinctPortsOfEnabled(S) ==            \* mutant: disabled services may clash
  \A s, t \in Catalog :
    S[s].Enabled /\ S[t].Enabled /\ S[s].Port = S[t].Port => s = t
DistinctPorts(S) == \A s, t \in Catalog : S[s].Port = S[t].Port => s = t

ValidServices(S) ==
  /\ DOMAIN S = Catalog
  /\ \A s \in Catalog : S[s].Port \in (1 .. PortLimit) \ {LlmnrPort}
  /\ DistinctPorts(S)
  /\ \E s \in Catalog : S[s].Enabled

ValidWebhook(w) ==
  /\ w.Kind \in Kinds \cup {""}
  /\ w.URL \in URLs \cup {NoURL}
  /\ w.Enabled => w.URL # NoURL

validateConfig(c) ==
  /\ c.NodeID \in NodeIDs
  /\ ValidIgnoreIPs(c.IgnoreIPs)
  /\ ValidServices(c.Services)
  /\ ValidWebhook(c.Webhook)

-----------------------------------------------------------------------------
(***************************************************************************)
(* The configuration an update asks for.  The URL is write-only: a client  *)
(* that does not send one keeps the current one, unless it says Clear.     *)
(***************************************************************************)
NextURL(current, w) ==
  IF w.Clear THEN NoURL
  ELSE IF w.URL = NoURL THEN current.Webhook.URL
  ELSE w.URL

candidate(current, u) ==
  [NodeID    |-> u.NodeID,
   IgnoreIPs |-> u.IgnoreIPs,
   Services  |-> u.Services,
   Webhook   |-> [Enabled |-> u.Webhook.Enabled,
                  Kind    |-> IF u.Webhook.Kind = "" THEN "generic" ELSE u.Webhook.Kind,
                  URL     |-> NextURL(current, u.Webhook)]]

(***************************************************************************)
(* opencanary.conf: the ports of the catalog and of the LLMNR module, the  *)
(* enabled services (tcpbanner under both of its names), and one outbound  *)
(* handler, behind the attacker_events filter, when the webhook is on.     *)
(***************************************************************************)
renderOpenCanaryConfig(c) ==
  [node     |-> c.NodeID,
   ignore   |-> c.IgnoreIPs,
   port     |-> [m \in Catalog \cup {Llmnr} |->
                   IF m = Llmnr THEN LlmnrPort ELSE c.Services[m].Port],
   enabled  |-> {s \in Catalog : c.Services[s].Enabled},
   handlers |-> IF c.Webhook.Enabled
                THEN {[kind |-> c.Webhook.Kind, url |-> c.Webhook.URL, filters |-> {"attacker_events"}]}
                ELSE {},
   filters  |-> IF c.Webhook.Enabled THEN {"attacker_events"} ELSE {}]

(***************************************************************************)
(* What OpenCanary asks of its file before it starts: every port of every  *)
(* module, enabled or not, is its own, something is enabled, and a handler *)
(* has somewhere to send to and names only filters the file defines.       *)
(***************************************************************************)
OpenCanaryAccepts(r) ==
  /\ \A m, n \in DOMAIN r.port : r.port[m] = r.port[n] => m = n
  /\ r.enabled # {}
  /\ \A e \in r.handlers : e.url \in URLs /\ e.filters \subseteq r.filters
=============================================================================
