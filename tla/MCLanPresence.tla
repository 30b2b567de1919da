---------------------------- MODULE MCLanPresence --------------------------
(***************************************************************************)
(* A small instance of LanPresence: drafts of one and two rows that share  *)
(* a row and one that is refused, a flow of others in their way and one    *)
(* that looks like the plugin's, and lists left behind by earlier attempts *)
(* in between flows of others.                                             *)
(***************************************************************************)
EXTENDS LanPresence

At(ip, prefix) == [ip |-> ip, prefix |-> prefix]

MCPrivateRanges == {At(4, 2), At(8, 1)}

Draft(source, rows) ==
  [sourceCIDR |-> source, presentedDestination |-> At(3, NoSlash), portMappings |-> rows,
   canaryIP |-> 1]

RowA == Row("tcp", <<1>>, <<1>>)
RowB == Row("udp", <<2>>, <<2>>)

MCDefault == Draft(At(4, 2), <<RowA>>)
MCDrafts  == {MCDefault, Draft(At(8, 1), <<RowB, RowA>>), Draft(At(5, 2), <<RowA>>)}
MCListeners == {<<"tcp", <<1>>>>, <<"udp", <<2>>>>}

Other(port) ==
  [lanPresenceRules(MCDefault)[1] EXCEPT !.RuleName = Foreign, !.OriginalDstPort = <<port>>,
                                         !.Dst = 2]

FlowA == lanPresenceRules(MCDefault)[1]
FlowB == lanPresenceRules(Draft(At(8, 1), <<RowB>>))[1]

MCOtherFlows == {Other(1), FlowB}

MCInitialFlows == {<<>>, <<FlowA, Other(3)>>, <<FlowB, Other(3), FlowA>>,
                   <<[FlowA EXCEPT !.Disabled = TRUE], Other(3), FlowA>>}
=============================================================================
