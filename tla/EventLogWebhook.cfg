SPECIFICATION Spec
CONSTANTS
  Backups    = 2
  Capacity   = 1
  MaxRecords = 4
  Kinds      = {"attack", "lifecycle", "odd"}
  Readers    = {r1}
  Clearers   = {c1}
  Faults     = {}
  None       = None
INVARIANT WebhooksSendAttackerEventsOnly
