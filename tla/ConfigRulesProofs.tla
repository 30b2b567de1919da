------------------------- MODULE ConfigRulesProofs -------------------------
(***************************************************************************)
(* What the rules of ConfigRules promise to whoever keeps to them: the     *)
(* default configuration is accepted, an accepted update gives an accepted *)
(* configuration, and OpenCanary takes what is rendered of one.            *)
(***************************************************************************)
EXTENDS ConfigRules, FiniteSetTheorems, TLAPS

\* The configurations that may be held and stored.
Accepted == {c \in Configs : validateConfig(c)}

\* A fresh installation starts from a configuration its own rules accept.
LEMMA DefaultIsAccepted == defaultConfig \in Accepted
<1>1. defaultConfig \in Configs
  <2>1. defaultConfig.IgnoreIPs \in IgnoreLists
    BY DEF defaultConfig, IgnoreLists
  <2> QED
    BY <2>1, ConfigRulesAssumption DEF defaultConfig, Configs, ServiceConfig, Kinds
<1>2. ValidIgnoreIPs(defaultConfig.IgnoreIPs)
  BY FS_EmptySet, ConfigRulesAssumption DEF defaultConfig, ValidIgnoreIPs
<1>3. ValidServices(defaultConfig.Services)
  BY ConfigRulesAssumption DEF defaultConfig, ValidServices, DistinctPorts
<1>4. ValidWebhook(defaultConfig.Webhook)
  BY DEF defaultConfig, ValidWebhook, Kinds
<1> QED
  BY <1>1, <1>2, <1>3, <1>4, ConfigRulesAssumption
  DEF Accepted, validateConfig, defaultConfig

\* An update that passes validateConfig has given a configuration of the right type.
LEMMA CandidateIsAccepted ==
  ASSUME NEW c \in Configs, NEW u, IsUpdate(u), validateConfig(candidate(c, u))
  PROVE  candidate(c, u) \in Accepted
<1> DEFINE d == candidate(c, u)
<1>1. d.NodeID \in NodeIDs
  BY DEF validateConfig
<1>2. d.IgnoreIPs \in IgnoreLists
  <2>1. u.IgnoreIPs = [a \in DOMAIN u.IgnoreIPs |-> 1] /\ DOMAIN u.IgnoreIPs \subseteq Addresses
    BY DEF validateConfig, ValidIgnoreIPs, candidate, IsUpdate
  <2> QED
    BY <2>1 DEF candidate, IgnoreLists
<1>3. d.Services \in [Catalog -> ServiceConfig]
  BY DEF validateConfig, ValidServices, candidate, IsUpdate, ServiceConfig
<1>4. d.Webhook \in [Enabled : BOOLEAN, Kind : Kinds, URL : URLs \cup {NoURL}]
  BY DEF validateConfig, ValidWebhook, candidate, IsUpdate, Kinds
<1>5. d \in Configs
  BY <1>1, <1>2, <1>3, <1>4 DEF Configs, candidate
<1> QED
  BY <1>5 DEF Accepted

\* OpenCanary takes the file that is rendered of any accepted configuration.
LEMMA AcceptedIsRendered ==
  ASSUME NEW c \in Accepted
  PROVE  OpenCanaryAccepts(renderOpenCanaryConfig(c))
<1> DEFINE r == renderOpenCanaryConfig(c)
<1> USE ConfigRulesAssumption DEF Accepted, validateConfig
<1>1. ASSUME NEW m \in DOMAIN r.port, NEW n \in DOMAIN r.port, r.port[m] = r.port[n]
      PROVE  m = n
  BY <1>1 DEF ValidServices, DistinctPorts, renderOpenCanaryConfig
<1>2. r.enabled # {}
  BY DEF ValidServices, renderOpenCanaryConfig
<1>3. ASSUME NEW e \in r.handlers
      PROVE  e.url \in URLs /\ e.filters \subseteq r.filters
  <2>1. c.Webhook.Enabled
    BY <1>3 DEF renderOpenCanaryConfig
  <2>2. r.filters = {"attacker_events"} /\ e.url = c.Webhook.URL /\ e.filters = {"attacker_events"}
    BY <1>3, <2>1 DEF renderOpenCanaryConfig
  <2> QED
    BY <2>1, <2>2 DEF ValidWebhook
<1> QED
  BY <1>1, <1>2, <1>3 DEF OpenCanaryAccepts
=============================================================================
