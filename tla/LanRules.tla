------------------------------ MODULE LanRules ------------------------------
(***************************************************************************)
(* The pure part of LAN presence, frontend/src/lanPresenceRules.js:        *)
(* addresses and ranges in JavaScript's signed 32-bit arithmetic, the      *)
(* flows a mapping stands for, what a list of flows says about LAN         *)
(* presence, and when a flow of somebody else is in the way.               *)
(*                                                                         *)
(* A text is what a field holds after trim().  An address text is a record *)
(* of the number before the slash (Malformed when the code's patterns do   *)
(* not match) and the one after it (NoSlash when there is none).  A port   *)
(* text is the sequence of the numbers between its dashes, NaN for what is *)
(* none; that numbers can be spelled in several ways is left out.          *)
(***************************************************************************)
EXTENDS Integers, Sequences, SequencesExt, FiniteSetsExt

CONSTANTS
  Width,          \* the bits of an address and of a bitwise operand, 32 in the code
  PrivateRanges,  \* the address texts of the RFC 1918 ranges
  PortLimit,      \* the largest port, 65535 in the code
  CanaryIP        \* the address of the container

ASSUME LanRulesAssumption == Width \in Nat \ {0} /\ PortLimit \in Nat

Malformed == -1
NoSlash   == -1
NaN       == -1

-----------------------------------------------------------------------------
(***************************************************************************)
(* JavaScript's bitwise operators: operands are taken modulo 2^Width, the  *)
(* result is signed, a shift count is taken modulo Width; n >>> 0 is the   *)
(* unsigned number.  Bits are named by their positions.                    *)
(***************************************************************************)
Pow2[k \in 0 .. Width] == IF k = 0 THEN 1 ELSE 2 * Pow2[k - 1]

Unsigned(n)  == n % Pow2[Width]
Signed(n)    == LET u == Unsigned(n) IN IF u < Pow2[Width - 1] THEN u ELSE u - Pow2[Width]
Shl(n, k)    == Signed(Unsigned(n) * Pow2[k % Width])
Bits(n)      == LET u == Unsigned(n) IN {k \in 0 .. Width - 1 : (u \div Pow2[k]) % 2 = 1}
OfBits(bits) == CHOOSE n \in 0 .. Pow2[Width] - 1 : Bits(n) = bits
BitAnd(m, n) == Signed(OfBits(Bits(m) \cap Bits(n)))
BitOr(m, n)  == Signed(OfBits(Bits(m) \cup Bits(n)))
BitNot(n)    == -n - 1

(***************************************************************************)
(* parseAddress: whether it returns a range, and the range.                *)
(***************************************************************************)
Parses(text, requireCIDR) ==
  /\ text.ip # Malformed
  /\ text.prefix = NoSlash => ~requireCIDR
  /\ text.prefix <= Width

ShiftsOnly(prefix) == Unsigned(Shl(Pow2[Width] - 1, Width - prefix))  \* mutant: no special case
Mask(prefix) == IF prefix = 0 THEN 0 ELSE Unsigned(Shl(Pow2[Width] - 1, Width - prefix))

StaysSigned(ip, mask) == BitAnd(ip, mask)                         \* mutant: no >>> 0
Network(ip, mask)     == Unsigned(BitAnd(ip, mask))

parseAddress(text) ==
  LET mask    == Mask(text.prefix)
      network == Network(text.ip, mask)
  IN IF text.prefix = NoSlash
     THEN [ip |-> text.ip, network |-> text.ip, broadcast |-> text.ip]
     ELSE [ip |-> text.ip, network |-> network,
           broadcast |-> Unsigned(BitOr(network, Unsigned(BitNot(mask))))]

rangesOverlap(left, right) ==
  left.network <= right.broadcast /\ right.network <= left.broadcast

isPrivateRange(range) ==
  \E text \in PrivateRanges :
    LET private == parseAddress(text)
    IN range.network >= private.network /\ range.broadcast <= private.broadcast

IsNetwork(text) == LET range == parseAddress(text) IN range.ip = range.network

-----------------------------------------------------------------------------
\* The validators, TRUE where the code returns no message.
validateSourceCIDR(text) ==
  /\ Parses(text, TRUE)
  /\ IsNetwork(text)
  /\ isPrivateRange(parseAddress(text))

validatePresentedDestination(text) ==
  /\ Parses(text, FALSE)
  /\ text.prefix # NoSlash => IsNetwork(text)

validatePort(text) == \E n \in 1 .. PortLimit : text = <<n>>

-----------------------------------------------------------------------------
(***************************************************************************)
(* A mapping has a source, a destination, rows (protocol, presented port,  *)
(* canary port) and the canary's address; lanPresenceRules makes one flow  *)
(* of each row.  The name of a flow tells whether this plugin manages it,  *)
(* and repeats the row.                                                    *)
(***************************************************************************)
Row(protocol, presented, canary) ==
  [protocol |-> protocol, presentedPort |-> presented, canaryPort |-> canary]
Foreign      == [managed |-> FALSE, row |-> Row("", <<>>, <<>>)]
RuleName(row) == [managed |-> TRUE, row |-> row]

lanPresenceRules(mapping) ==
  [i \in DOMAIN mapping.portMappings |->
     LET row == mapping.portMappings[i]
     IN [RuleName        |-> RuleName(row),
         Client          |-> mapping.sourceCIDR,
         Protocol        |-> row.protocol,
         OriginalDst     |-> mapping.presentedDestination,
         OriginalDstPort |-> row.presentedPort,
         Dst             |-> mapping.canaryIP,
         DstPort         |-> row.canaryPort,
         DstInterface    |-> "",
         Disabled        |-> FALSE]]

isManagedLanPresenceRule(rule) == rule.RuleName.managed

\* Those of the first n flows that are managed, or that are not; none is moved.
Kept(rules, managed) ==
  LET kept[n \in 0 .. Len(rules)] ==
        IF n = 0 THEN <<>>
        ELSE IF isManagedLanPresenceRule(rules[n]) <=> managed
        THEN Append(kept[n - 1], rules[n])
        ELSE kept[n - 1]
  IN kept

Managed(rules) == Kept(rules, TRUE)[Len(rules)]

(***************************************************************************)
(* lanPresenceState: the rows and addresses of the managed flows (Blank if *)
(* they do not agree), and whether this plugin would have written them.    *)
(***************************************************************************)
Blank == [ip |-> Malformed, prefix |-> NoSlash]

Common(texts) == IF \E t \in texts : texts = {t} THEN CHOOSE t \in texts : TRUE ELSE Blank

RowOf(rule) == Row(rule.Protocol, rule.OriginalDstPort, rule.DstPort)

DistinctRows(rules) ==                            \* mutant: compares whole rows
  \A i, j \in DOMAIN rules : RowOf(rules[i]) = RowOf(rules[j]) => i = j
DistinctKeys(rules) ==
  \A i, j \in DOMAIN rules :
    /\ rules[i].Protocol = rules[j].Protocol
    /\ rules[i].OriginalDstPort = rules[j].OriginalDstPort
    => i = j

IsIntact(rule, canaryIP) ==
  /\ rule.Protocol \in {"tcp", "udp"}
  /\ validatePort(rule.OriginalDstPort) /\ validatePort(rule.DstPort)
  /\ rule.RuleName = RuleName(RowOf(rule))
  /\ rule.Dst = canaryIP
  /\ rule.DstInterface = "" /\ ~rule.Disabled

lanPresenceState(rules, canaryIP) ==
  LET managed == Managed(rules)
      source  == Common({managed[i].Client : i \in DOMAIN managed} \ {Blank})
      dest    == Common({managed[i].OriginalDst : i \in DOMAIN managed} \ {Blank})
  IN [sourceCIDR           |-> source,
      presentedDestination |-> dest,
      portMappings         |-> [i \in DOMAIN managed |-> RowOf(managed[i])],
      canaryIP             |-> canaryIP,
      enabled              |-> managed # <<>>,
      configured           |->
        /\ managed # <<>>
        /\ validateSourceCIDR(source) /\ validatePresentedDestination(dest)
        /\ DistinctKeys(managed)
        /\ \A i \in DOMAIN managed : IsIntact(managed[i], canaryIP)]

-----------------------------------------------------------------------------
(***************************************************************************)
(* hasLanPresenceConflict: a flow of somebody else takes packets the       *)
(* mapping wants.  A source that is no CIDR counts as any source.          *)
(***************************************************************************)
Number(text) == IF text = <<>> THEN 0 ELSE IF Len(text) = 1 THEN text[1] ELSE NaN

portSpecIncludes(spec, port) ==
  \/ spec = <<>>
  \/ \E i \in DOMAIN spec : spec[i] = NaN
  \/ spec = <<port>>
  \/ Len(spec) = 2 /\ spec[1] <= port /\ port <= spec[2]

AnyProtocol(rule, row)     == TRUE                  \* mutant: protocol not compared
SameProtocol(rule, row)    == rule.Protocol = row.protocol

SourceContains(rule, source) ==                     \* mutant: contains, not overlaps
  Parses(rule.Client, TRUE) => /\ parseAddress(rule.Client).network <= source.network
                               /\ parseAddress(rule.Client).broadcast >= source.broadcast
SourceOverlaps(rule, source) ==
  Parses(rule.Client, TRUE) => rangesOverlap(source, parseAddress(rule.Client))

Blocks(rule, mapping) ==
  /\ ~isManagedLanPresenceRule(rule) /\ ~rule.Disabled
  /\ Parses(rule.OriginalDst, FALSE)
  /\ rangesOverlap(parseAddress(mapping.presentedDestination), parseAddress(rule.OriginalDst))
  /\ SourceOverlaps(rule, parseAddress(mapping.sourceCIDR))
  /\ \E i \in DOMAIN mapping.portMappings :
       LET row == mapping.portMappings[i]
       IN /\ SameProtocol(rule, row)
          /\ portSpecIncludes(rule.OriginalDstPort, Number(row.presentedPort))

hasLanPresenceConflict(rules, mapping) ==
  /\ Parses(mapping.sourceCIDR, TRUE) /\ Parses(mapping.presentedDestination, FALSE)
  /\ \E i \in DOMAIN rules : Blocks(rules[i], mapping)
=============================================================================
