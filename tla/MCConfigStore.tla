--------------------------- MODULE MCConfigStore ---------------------------
(***************************************************************************)
(* A small instance of ConfigStore: two services, four ports of which one  *)
(* is LLMNR's, two webhook URLs, and updates that exercise each way a PUT  *)
(* is accepted or refused.                                                 *)
(***************************************************************************)
EXTENDS ConfigStore

MCCatalog     == {"http", "ssh"}
MCDefaultPort == [s \in MCCatalog |-> IF s = "http" THEN 1 ELSE 2]

Service(on, http, ssh) ==
  [s \in MCCatalog |-> [Enabled |-> s \in on, Port |-> IF s = "http" THEN http ELSE ssh]]
Webhook(on, kind, url, clear) == [Enabled |-> on, Kind |-> kind, URL |-> url, Clear |-> clear]
Update(services, ignored, webhook) ==
  [NodeID |-> "node", IgnoreIPs |-> [a \in ignored |-> 1], Services |-> services,
   Webhook |-> webhook]

MCUpdates == {
  \* gives a URL; gives another one, and other ports
  Update(Service({"http"}, 1, 2), {}, Webhook(TRUE, "", "urlA", FALSE)),
  Update(Service({"ssh"}, 2, 4), {"addr"}, Webhook(TRUE, "teams", "urlB", FALSE)),
  \* gives none: refused as long as there is none to keep
  Update(Service({"ssh"}, 1, 4), {}, Webhook(TRUE, "slack", "", FALSE)),
  \* forgets it
  Update(Service({"http"}, 1, 2), {}, Webhook(FALSE, "generic", "", TRUE)),
  \* refused: a clash with a disabled service, LLMNR's port, nothing enabled,
  \* a port out of range, too many entries
  Update(Service({"http"}, 2, 2), {}, Webhook(FALSE, "generic", "", FALSE)),
  Update(Service({"http"}, 1, 3), {}, Webhook(FALSE, "generic", "", FALSE)),
  Update(Service({}, 1, 2), {}, Webhook(FALSE, "generic", "", FALSE)),
  Update(Service({"http"}, 0, 5), {}, Webhook(FALSE, "generic", "", FALSE)),
  Update(Service({"http"}, 1, 2), {"addr", "addr2"}, Webhook(FALSE, "generic", "", FALSE))}
=============================================================================
