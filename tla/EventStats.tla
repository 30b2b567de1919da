----------------------------- MODULE EventStats -----------------------------
(***************************************************************************)
(* What GET /events and GET /status make of the alerts that were loaded:   *)
(* queryAlerts and the sort of loadAlerts, code/events.go.  An alert has a *)
(* time (Never when none of the known layouts fits), a service, a source   *)
(* and the words a search may hit.  The order of the list is that of the   *)
(* files, oldest first.                                                    *)
(***************************************************************************)
EXTENDS Integers, Sequences, SequencesExt, FiniteSets

CONSTANTS
  Hour,       \* how many instants of this model make an hour
  Hours,      \* how many hours are shown, 24 in the code
  DefaultLimit, MaxLimit,  \* 100 and 500 in the code
  Histories,  \* lists of alerts that may be loaded
  Limits, Filters, Searches,  \* what is asked for; "" is no filter and no search
  Now

VARIABLE query

\* Go's zero time is before every other.
Never == -1000

IsHistory(alerts) == alerts \in Seq(ToSet(alerts)) /\ \A a \in ToSet(alerts) : a.time \in Int

ASSUME EventStatsAssumption ==
  /\ Hour \in Nat \ {0} /\ Hours \in Nat \ {0}
  /\ MaxLimit \in Nat /\ DefaultLimit \in 1 .. MaxLimit /\ Limits \subseteq Int
  /\ Now \in Int /\ Never < Now - Hours * Hour
  /\ \A alerts \in Histories : IsHistory(alerts)

NoQuery == [about |-> "nothing"]
Queries == [about : {"alerts"}, alerts : Histories, limit : Limits, service : Filters,
            search : Searches]

-----------------------------------------------------------------------------
\* The alerts at these positions, in an order given by the positions up to each.
Arranged(alerts, places, upTo) ==
  [k \in 1 .. Cardinality(places) |->
     alerts[CHOOSE i \in places : Cardinality(upTo[i] \cap places) = k]]

\* Stable, so alerts of the same instant stay in the order of the files.
SortedByTime(alerts) ==
  LET before(j, i) == alerts[j].time > alerts[i].time \/ (alerts[j].time = alerts[i].time /\ j <= i)
  IN Arranged(alerts, DOMAIN alerts,
              [i \in DOMAIN alerts |-> {j \in DOMAIN alerts : before(j, i)}])

Kept(alerts, wanted) ==
  Arranged(alerts, {i \in DOMAIN alerts : alerts[i] \in wanted},
           [i \in DOMAIN alerts |-> 1 .. i])

IsRecent(a) == a.time # Never /\ a.time >= Now - Hours * Hour

\* int(d.Hours()) truncates towards zero.
Floored(d)   == d \div Hour                           \* mutant: math.Floor
Truncated(d) == IF d < 0 THEN -((-d) \div Hour) ELSE d \div Hour
hoursAgo(a)  == Truncated(Now - a.time)

Hourly(recent) ==
  [bar \in 1 .. Hours |-> Cardinality({i \in DOMAIN recent : hoursAgo(recent[i]) = Hours - bar})]

Matches(a, q) ==
  /\ q.service \notin {"", "all"} => a.service = q.service
  /\ q.search # "" => q.search \in a.words

Limit(n) == IF n < 1 THEN DefaultLimit ELSE IF n > MaxLimit THEN MaxLimit ELSE n

Oldest(alerts, n) == SubSeq(alerts, Len(alerts) - n + 1, Len(alerts))  \* mutant: the wrong end
Newest(alerts, n) == SubSeq(alerts, 1, n)

queryAlerts(q) ==
  LET alerts   == SortedByTime(q.alerts)
      recent   == Kept(alerts, {a \in ToSet(alerts) : IsRecent(a)})
      filtered == Kept(alerts, {a \in ToSet(alerts) : Matches(a, q)})
      limit    == Limit(q.limit)
  IN [Total         |-> Len(alerts),
      FilteredTotal |-> Len(filtered),
      Events        |-> IF Len(filtered) > limit THEN Newest(filtered, limit) ELSE filtered,
      ByService     |-> [s \in {a.service : a \in ToSet(alerts)} |->
                           Cardinality({i \in DOMAIN alerts : alerts[i].service = s})],
      Last24Hours   |-> Len(recent),
      UniqueSources |-> Cardinality({a.source : a \in ToSet(recent)} \ {""}),
      Hourly        |-> Hourly(recent),
      LastEvent     |-> IF alerts = <<>> THEN Never ELSE alerts[1].time]

-----------------------------------------------------------------------------
(***************************************************************************)
(* The bars of the pulse chart together are the count above it, but for    *)
(* alerts exactly a day old and those whose clock is an hour ahead, which  *)
(* are counted without a bar; and a bar holds what is that many hours old. *)
(***************************************************************************)
Age(a) == Now - a.time

BarsAreTheDay ==
  query.about = "alerts" =>
    LET answer   == queryAlerts(query)
        alerts   == query.alerts
        InBar(h) == {i \in DOMAIN alerts : /\ Age(alerts[i]) < (h + 1) * Hour
                                           /\ Age(alerts[i]) >= h * Hour \/ h = 0}
        Ahead    == {i \in DOMAIN alerts : Age(alerts[i]) <= -Hour}
        ADay     == {i \in DOMAIN alerts : Age(alerts[i]) = Hours * Hour}
        All      == UNION {InBar(h) : h \in 0 .. Hours - 1}
    IN /\ \A bar \in 1 .. Hours :
            answer.Hourly[bar] = Cardinality(InBar(Hours - bar) \ Ahead)
       /\ answer.Last24Hours = Cardinality(All \cup Ahead \cup ADay)

(***************************************************************************)
(* A page that leaves alerts out leaves out the oldest: whatever matches   *)
(* the filter and the search is on it or not newer than anything on it,    *)
(* and LastEvent is never older than what the page shows.                  *)
(***************************************************************************)
NothingNewerIsLeftOut ==
  query.about = "alerts" =>
    LET answer == queryAlerts(query)
        wanted == {i \in DOMAIN query.alerts : Matches(query.alerts[i], query)}
        shown  == ToSet(answer.Events)
    IN /\ Len(answer.Events) = IF Cardinality(wanted) < Limit(query.limit)
                               THEN Cardinality(wanted) ELSE Limit(query.limit)
       /\ shown \subseteq {query.alerts[i] : i \in wanted}
       /\ \A i \in wanted : \A b \in shown :
            query.alerts[i] \in shown \/ query.alerts[i].time <= b.time
       /\ \A a \in shown : a.time <= answer.LastEvent
=============================================================================
