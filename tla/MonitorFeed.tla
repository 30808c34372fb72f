------------------------------ MODULE MonitorFeed ------------------------------
(***************************************************************************)
(* The dashboard's live feed: wsServer (server/monitor/ws-server.ts), which *)
(* broadcasts to every open socket and keeps nothing, and the page that     *)
(* shows it (client/src/pages/monitor.tsx) in one browser.                 *)
(*                                                                         *)
(* Each visit to the page starts a connection that reconnects whenever it   *)
(* closes, also when it closes because the page was left.                  *)
(***************************************************************************)
EXTENDS Naturals, SequencesExt

CONSTANTS
  Visits,    \* visits to the page
  Wire       \* bound: messages on their way to one page

ASSUME WireAssumption == Wire \in Nat

VARIABLES
  page,      \* per visit: "unopened", "mounted" or "left"
  link,      \* per visit: "none", "connecting", "open", or "waiting" to reconnect
  wire,      \* per visit: messages sent and not yet received
  streaming, \* per visit: isStreaming
  shown,     \* per visit: streamingAnomalyIds
  missed     \* history, per visit: it was not connected when an analysis started
             \* or ended, and has not seen the start or the end of one since

feedVars == <<page, link, wire, streaming, shown, missed>>

FeedInit ==
  /\ page = [v \in Visits |-> "unopened"]
  /\ link = [v \in Visits |-> "none"]
  /\ wire = [v \in Visits |-> <<>>]
  /\ streaming = [v \in Visits |-> FALSE]
  /\ shown = [v \in Visits |-> <<>>]
  /\ missed = [v \in Visits |-> FALSE]

Message(type, ids) == [type |-> type, ids |-> ids]

HasRoom == \A v \in Visits : link[v] = "open" => Len(wire[v]) < Wire

Broadcast(m) ==
  /\ HasRoom
  /\ wire' = [v \in Visits |-> IF link[v] = "open" THEN Append(wire[v], m) ELSE wire[v]]
  /\ UNCHANGED <<page, link, streaming, shown, missed>>

-----------------------------------------------------------------------------
(* the page *)

Visit(v) ==
  /\ page[v] = "unopened"
  /\ \A w \in Visits : page[w] # "mounted"
  /\ page' = [page EXCEPT ![v] = "mounted"]
  /\ link' = [link EXCEPT ![v] = "connecting"]
  /\ UNCHANGED <<wire, streaming, shown, missed>>

\* The socket is gone, with what was on its way; onclose sets a timer.
Closed(v, running) ==
  /\ link' = [link EXCEPT ![v] = "waiting"]
  /\ wire' = [wire EXCEPT ![v] = <<>>]
  /\ missed' = [missed EXCEPT ![v] = @ \/ running \/ wire[v] # <<>>]

\* The cleanup closes the socket wsRef holds; a timer that is set goes on.
Leave(v, running) ==
  /\ page[v] = "mounted"
  /\ page' = [page EXCEPT ![v] = "left"]
  /\ \/ link[v] # "waiting" /\ Closed(v, running)
     \/ link[v] = "waiting" /\ UNCHANGED <<link, wire, missed>>
  /\ UNCHANGED <<streaming, shown>>

Drops(v, running) ==
  /\ link[v] \in {"connecting", "open"}
  /\ Closed(v, running)
  /\ UNCHANGED <<page, streaming, shown>>

Opens(v, running) ==
  /\ link[v] = "connecting"
  /\ link' = [link EXCEPT ![v] = "open"]
  /\ missed' = [missed EXCEPT ![v] = @ \/ running]
  /\ UNCHANGED <<page, wire, streaming, shown>>

Reconnects(v) ==
  /\ link[v] = "waiting"
  /\ link' = [link EXCEPT ![v] = "connecting"]
  /\ UNCHANGED <<page, wire, streaming, shown, missed>>

\* Mutant: the end of an analysis is not taken for one unless it has a result.
Ends_with_result(m) == m.type = "complete"

\* Also when the analysis failed: the message then carries the error.
Ends(m) == m.type \in {"complete", "failed"}

\* onmessage; after the page was left it changes nothing that is shown.
Receives(v) ==
  LET m == Head(wire[v])
  IN  /\ wire[v] # <<>>
      /\ wire' = [wire EXCEPT ![v] = Tail(@)]
      /\ \/ m.type = "start"
            /\ streaming' = [streaming EXCEPT ![v] = TRUE]
            /\ shown' = [shown EXCEPT ![v] = m.ids]
            /\ missed' = [missed EXCEPT ![v] = FALSE]
         \/ Ends(m)
            /\ streaming' = [streaming EXCEPT ![v] = FALSE]
            /\ missed' = [missed EXCEPT ![v] = FALSE]
            /\ UNCHANGED shown
         \/ m.type # "start" /\ ~Ends(m)
            /\ UNCHANGED <<streaming, shown, missed>>
      /\ UNCHANGED <<page, link>>

-----------------------------------------------------------------------------
(* Properties *)

FeedTypeOK ==
  /\ page \in [Visits -> {"unopened", "mounted", "left"}]
  /\ link \in [Visits -> {"none", "connecting", "open", "waiting"}]
  /\ DOMAIN wire = Visits /\ \A v \in Visits : Len(wire[v]) <= Wire
  /\ streaming \in [Visits -> BOOLEAN]
  /\ DOMAIN shown = Visits
  /\ missed \in [Visits -> BOOLEAN]
  /\ \A v \in Visits : page[v] = "unopened" <=> link[v] = "none"
=============================================================================
