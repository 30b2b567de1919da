---------------------------- MODULE LanReference ----------------------------
(***************************************************************************)
(* What the rules of LAN presence must mean, stated over sets of addresses *)
(* and ports without any arithmetic on bits: the answer of LanRules to one *)
(* question of the panel, which does not change.                           *)
(***************************************************************************)
EXTENDS LanRules

CONSTANTS
  Texts,     \* address texts whose ranges are asked for
  Rules,     \* flows that a mapping may conflict with
  Mappings,  \* mappings the panel would let the user publish
  Lists      \* lists of flows the firewall may hold

\* The texts the code reads: four octets or anything else, and a number of two digits.
Addresses == 0 .. Pow2[Width] - 1

IsText(text)    == text.ip \in Addresses \cup {Malformed} /\ text.prefix \in Nat \cup {NoSlash}
IsAddress(text) == text.ip \in Addresses /\ text.prefix \in (0 .. Width) \cup {NoSlash}

IsFlow(r) ==
  /\ r = [RuleName |-> r.RuleName, Client |-> r.Client, Protocol |-> r.Protocol,
          OriginalDst |-> r.OriginalDst, OriginalDstPort |-> r.OriginalDstPort,
          Dst |-> r.Dst, DstPort |-> r.DstPort, DstInterface |-> r.DstInterface,
          Disabled |-> r.Disabled]
  /\ r.Disabled \in BOOLEAN

(***************************************************************************)
(* PFW holds addresses, or none; the panel publishes nothing that its      *)
(* validators refuse.                                                      *)
(***************************************************************************)
ASSUME LanReferenceAssumption ==
  /\ \A text \in Texts : IsText(text)
  /\ \A r \in Rules : /\ \A text \in {r.Client, r.OriginalDst} : text = Blank \/ IsAddress(text)
                      /\ r.OriginalDstPort \in Seq(Int)
                      /\ r.Disabled \in BOOLEAN /\ ~isManagedLanPresenceRule(r)
  /\ \A m \in Mappings : /\ IsText(m.sourceCIDR) /\ validateSourceCIDR(m.sourceCIDR)
                         /\ IsText(m.presentedDestination)
                         /\ validatePresentedDestination(m.presentedDestination)
                         /\ \A i \in DOMAIN m.portMappings :
                              validatePort(m.portMappings[i].presentedPort)
  /\ \A rules \in Lists : rules \in Seq(ToSet(rules)) /\ \A r \in ToSet(rules) : IsFlow(r)

VARIABLE question

NoQuestion == [about |-> "nothing"]

Questions ==
  [about : {"ranges"}, left : Texts, right : Texts]
    \cup [about : {"flow"}, rule : Rules, mapping : Mappings]
    \cup [about : {"list"}, rules : Lists]

-----------------------------------------------------------------------------
\* The addresses that share their first prefix bits with text.
AddressesOf(text) ==
  LET size == Pow2[Width - text.prefix]
  IN IF text.prefix = NoSlash
     THEN {text.ip}
     ELSE {a \in Addresses : a \div size = text.ip \div size}

\* The packets a flow takes: a blank source or port means any.
SourcesOf(r) == IF r.Client = Blank THEN Addresses ELSE AddressesOf(r.Client)

PortsOf(spec) ==
  IF spec = <<>> THEN 1 .. PortLimit
  ELSE IF Len(spec) = 1 THEN {spec[1]} ELSE spec[1] .. spec[2]

HasMeaning(r) ==
  /\ r.OriginalDst # Blank
  /\ Len(r.OriginalDstPort) <= 2 /\ \A i \in DOMAIN r.OriginalDstPort : r.OriginalDstPort[i] # NaN

ShareAPacket(r, m) ==
  /\ SourcesOf(r) \cap AddressesOf(m.sourceCIDR) # {}
  /\ AddressesOf(r.OriginalDst) \cap AddressesOf(m.presentedDestination) # {}
  /\ \E i \in DOMAIN m.portMappings :
       /\ r.Protocol = m.portMappings[i].protocol
       /\ PortsOf(r.OriginalDstPort) \cap PortsOf(m.portMappings[i].presentedPort) # {}

-----------------------------------------------------------------------------
(***************************************************************************)
(* For every prefix length, 0 and the full width included, and for every   *)
(* address, those with the top bit set included, parseAddress returns the  *)
(* first and the last address of the range, and ranges overlap when they   *)
(* have an address in common (lanPresenceRules.js:21-37 and :177).         *)
(***************************************************************************)
RangesAreExact ==
  question.about = "ranges" /\ Parses(question.left, FALSE) /\ Parses(question.right, FALSE) =>
    LET l == parseAddress(question.left)  r == parseAddress(question.right)
    IN /\ l.network .. l.broadcast = AddressesOf(question.left)
       /\ rangesOverlap(l, r) <=>
            AddressesOf(question.left) \cap AddressesOf(question.right) # {}

(***************************************************************************)
(* A flow of somebody else that takes a packet the mapping would redirect  *)
(* is always reported (the test "detects a foreign flow overlapping any    *)
(* presented port").                                                       *)
(***************************************************************************)
NoConflictIsMissed ==
  question.about = "flow" /\ HasMeaning(question.rule) /\ ~question.rule.Disabled
    /\ ShareAPacket(question.rule, question.mapping) =>
      hasLanPresenceConflict(<<question.rule>>, question.mapping)

(***************************************************************************)
(* A conflict is never reported without need, which would keep the user    *)
(* from publishing, except for a source the code does not take for a CIDR  *)
(* and a port specification without meaning, where it errs on this side.   *)
(***************************************************************************)
ConflictsAreReal ==
  question.about = "flow" /\ hasLanPresenceConflict(<<question.rule>>, question.mapping)
    /\ HasMeaning(question.rule)
    /\ (question.rule.Client = Blank \/ question.rule.Client.prefix # NoSlash) =>
      ~question.rule.Disabled /\ ShareAPacket(question.rule, question.mapping)

(***************************************************************************)
(* The panel says "published" of exactly the lists that it would write     *)
(* itself for the mapping it then shows, but for addresses that are blank  *)
(* (lanPresenceState skips those); flows of others do not matter.  It is   *)
(* the test "recognizes a complete managed multi-port mapping" with its    *)
(* converse: a duplicate row, a disabled flow or another target is noticed.*)
(***************************************************************************)
Filled(r, state) ==
  [r EXCEPT !.Client      = IF @ = Blank THEN state.sourceCIDR ELSE @,
            !.OriginalDst = IF @ = Blank THEN state.presentedDestination ELSE @]

RecognizesItsOwn ==
  question.about = "list" =>
    LET state   == lanPresenceState(question.rules, CanaryIP)
        managed == Managed(question.rules)
        ports   == {<<managed[i].Protocol, managed[i].OriginalDstPort>> : i \in DOMAIN managed}
    IN state.configured <=>
         /\ managed # <<>>
         /\ [i \in DOMAIN managed |-> Filled(managed[i], state)] = lanPresenceRules(state)
         /\ validateSourceCIDR(state.sourceCIDR)
         /\ validatePresentedDestination(state.presentedDestination)
         /\ Cardinality(ports) = Len(managed)
         /\ \A i \in DOMAIN managed : /\ managed[i].Protocol \in {"tcp", "udp"}
                                      /\ validatePort(managed[i].OriginalDstPort)
                                      /\ validatePort(managed[i].DstPort)
=============================================================================
