---------------------------- MODULE MCDashboard ----------------------------
EXTENDS Dashboard

MCCatalog     == {"http", "ssh"}
MCDefaultPort == [s \in MCCatalog |-> IF s = "http" THEN 1 ELSE 2]

Services(on, http, ssh) ==
  [s \in MCCatalog |-> [Enabled |-> s \in on, Port |-> IF s = "http" THEN http ELSE ssh]]

WithDestination == [defaultConfig EXCEPT !.Webhook = [@ EXCEPT !.Enabled = TRUE, !.URL = "urlA"]]
MCConfigs == {WithDestination}

MCOtherUpdates == {
  [NodeID |-> "node2", IgnoreIPs |-> [a \in {} |-> 1], Services |-> Services({"ssh"}, 1, 4),
   Webhook |-> [Enabled |-> TRUE, Kind |-> "slack", URL |-> "urlB", Clear |-> FALSE]]}

Line(entries) == [a \in entries |-> 1]
MCIgnoreTexts == {Line({"addr", "blank"})}

LiveDefaultPort == [s \in {"http"} |-> 1]
LiveConfigs     == {defaultConfig}
=============================================================================
