------------------------------- MODULE MCLan -------------------------------
(***************************************************************************)
(* LAN presence at once.  A behaviour asks the rules one question of       *)
(* LanReference (addresses of four bits), or it is one of LanPresence:     *)
(* either of one panel at a time, which is left and opened again once its  *)
(* call has ended, beside other clients; or, as one more value of          *)
(* question, of a panel that is left during its call and the one that is   *)
(* opened meanwhile, without other clients, with one draft to enter and an *)
(* apply on a list of two flows at most.                                   *)
(***************************************************************************)
EXTENDS LanReference, MCLanPresence

Returns == [about |-> "two panels"]

MCInit ==
  \/ question \in {NoQuestion, Returns} /\ Init
  \/ question \in Questions /\ Init /\ flows = <<>>

\* A panel is forgotten before the next one is opened, unless its call goes on.
Busy(p) == p \in open \/ pc[p] # "idle"
InOrder ==
  \A p \in open' \ open : \A q \in Panels : Tab(q) = Tab(p) /\ q[2] < p[2] => Busy(q)

MCNext ==
  \/ /\ question = NoQuestion /\ Next
     /\ open' \subseteq Tabs \X {1}
     /\ UNCHANGED question
  \/ /\ question = Returns
     /\ (\E p \in Panels : Panel(p)) \/ (\E t \in Tabs : Reloads(t))
     /\ InOrder
     /\ \A p \in Panels : /\ Edit(p) => form'[p] = MCDefault
                          /\ pc[p] = "idle" /\ goal'[p] = "apply" => Len(flows) <= 2
     /\ UNCHANGED question
  \/ question \notin {NoQuestion, Returns} /\ UNCHANGED <<vars, question>>

MCSpec == MCInit /\ [][MCNext]_<<vars, question>>

-----------------------------------------------------------------------------
MCTexts == {At(ip, prefix) : ip \in 0 .. 15, prefix \in NoSlash .. 5} \cup {Blank}

Flow(name, source, protocol, dest, port, off) ==
  [RuleName |-> name, Client |-> source, Protocol |-> protocol, OriginalDst |-> dest,
   OriginalDstPort |-> port, Dst |-> 1, DstPort |-> <<1>>, DstInterface |-> "",
   Disabled |-> off]

MCMapping(source, dest, rows) ==
  [sourceCIDR |-> source, presentedDestination |-> dest, portMappings |-> rows, canaryIP |-> 1]

Rows == {<<Row("tcp", <<2>>, <<1>>)>>,
         <<Row("tcp", <<4>>, <<1>>), Row("udp", <<2>>, <<3>>)>>}

MCMappings == {MCMapping(s, d, rows) : s \in {At(4, 2), At(8, 1), At(14, 3)},
                                       d \in {At(0, 0), At(5, NoSlash), At(12, 2)},
                                       rows \in Rows}

SomeTexts == {Blank, At(5, NoSlash), At(15, NoSlash), At(0, 0), At(4, 2), At(12, 2), At(14, 3)}
Ports     == {<<>>, <<2>>, <<1, 3>>, <<3, 1>>, <<NaN, 2>>, <<1, 2, 3>>, <<4>>}

MCRules == {Flow(Foreign, s, p, d, port, off) :
              s \in SomeTexts, p \in {"tcp", "udp"}, d \in SomeTexts, port \in Ports,
              off \in BOOLEAN}

\* What the panel writes, and that with one field changed or one flow inserted.
Written == {lanPresenceRules(m) : m \in MCMappings}
Tampered(r) == {
  [r EXCEPT !.Client = At(8, 2)], [r EXCEPT !.Client = Blank],
  [r EXCEPT !.OriginalDst = At(3, NoSlash)], [r EXCEPT !.OriginalDst = At(13, 2)],
  [r EXCEPT !.Protocol = "icmp"], [r EXCEPT !.OriginalDstPort = <<1, 3>>],
  [r EXCEPT !.DstPort = <<4>>], [r EXCEPT !.Dst = 2], [r EXCEPT !.DstInterface = "eth0"],
  [r EXCEPT !.Disabled = TRUE], [r EXCEPT !.RuleName = Foreign],
  [r EXCEPT !.RuleName = RuleName(Row("tcp", <<1>>, <<1>>))]}

MCLists ==
  Written
  \cup UNION {{ReplaceAt(w, i, r) : i \in DOMAIN w, r \in UNION {Tampered(w[j]) : j \in DOMAIN w}}
              : w \in Written}
  \cup {InsertAt(w, i, r) : w \in {v \in Written : Len(v) = 2}, i \in 1 .. 3,
        r \in {[Flow(RuleName(Row("tcp", <<4>>, <<2>>)), At(4, 2), "tcp", At(0, 0), <<4>>, FALSE)
                  EXCEPT !.DstPort = <<2>>],
               Flow(Foreign, At(4, 2), "tcp", At(0, 0), <<4>>, FALSE)}}
  \cup {<<>>}
=============================================================================
