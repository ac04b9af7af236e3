----------------------------- MODULE RemotePane -----------------------------
(***************************************************************************)
(* One pane of a remote domain: the server that owns the terminal and the  *)
(* client that keeps a cache of its lines (wezterm-client's renderable.rs  *)
(* and client.rs, wezterm-mux-server-impl's sessionhandler.rs).            *)
(*                                                                         *)
(* The server pushes the rows that changed since the sequence number of    *)
(* its last push; the client fetches the rows it is not given.  Pushes,    *)
(* fetches, polls and a dropped connection overlap, and an answer to a     *)
(* request reaches the cache one turn of the main loop sooner than a push  *)
(* that was read before it.                                                *)
(*                                                                         *)
(* A line is the sequence number of its last change on the server.         *)
(***************************************************************************)
EXTENDS Naturals, Sequences, SequencesExt

CONSTANTS LastRow,    \* rows the terminal can come to have, scrollback included
          View,       \* rows of the viewport
          MaxSeq,     \* bound: the sequence number the terminal can reach
          MaxDrops,   \* bound: times the connection is lost
          Stamps      \* bound: fetches that can be told apart at one time

ASSUME RemoteAssumption ==
  /\ LastRow \in Nat /\ View \in 1..LastRow
  /\ MaxSeq \in Nat \ {0} /\ MaxDrops \in Nat /\ Stamps \in Nat \ {0}

VARIABLES
  term,      \* the terminal: version of each row, seqno, physical_top, cursor row
  sent,      \* the session's PerPane: what the client was last told
  due,       \* a push for PaneOutput is scheduled
  scan,      \* compute_changes between its first and its last look at the terminal
  requests,  \* written by the client, not yet handled by the server
  replies,   \* written by the server, not yet read by the client
  inbox,     \* tasks of the client's main thread
  lines,     \* the client's cache: RenderableInner.lines
  view,      \* the client's seqno, physical_top, cursor row and poll_in_progress
  missed,    \* history: rows a scan has left out of every later push
  drops      \* connections lost

vars == <<term, sent, due, scan, requests, replies, inbox, lines, view, missed, drops>>

server == <<sent, due, scan, missed>>
client == <<lines, view>>

Rows == 1..LastRow

Viewport(top) == top..(top + View - 1)

\* The rows the terminal has.
Existing(t) == 1..(t.top + View - 1)

\* A server that keeps what it told the client across connections.
NewPerPaneKept == sent

\* PerPane::default: nothing was sent, the palette is still to be sent.
NewPerPane == [seqno |-> 0, top |-> 0, cursor |-> 1, palette |-> FALSE]

NoScan == [by |-> "none"]

(***************************************************************************)
(* Cache entries.  held is 0 without a line, fetch is 0 without a fetch:   *)
(* Line, Fetching, LineAndFetching and Stale are the other combinations.   *)
(***************************************************************************)
Absent == [held |-> 0, fetch |-> 0, stale |-> FALSE]

Line(v) == [held |-> v, fetch |-> 0, stale |-> FALSE]

IsLine(e) == e.held > 0 /\ e.fetch = 0 /\ ~e.stale

Fetching(e, now) == [e EXCEPT !.fetch = now, !.stale = FALSE]

\* A line that is only being fetched is forgotten, any other is kept as stale.
MakeStale(e) == IF e.held = 0 THEN Absent ELSE [held |-> e.held, fetch |-> 0, stale |-> TRUE]

MakeAllStale(e) == IF e.fetch = 0 THEN MakeStale(e) ELSE e

\* The answer of a fetch replaces the entries that still wait for this fetch.
PutLine(e, v, stamp) == IF e.fetch = stamp THEN Line(v) ELSE e

\* The entry is left waiting.
UnfetchedNever(e, stamp) == e

\* A fetch that failed: forget the entry, or return to the line it had.
Unfetched(e, stamp) == IF e.fetch = stamp THEN [e EXCEPT !.fetch = 0] ELSE e

\* The instant a fetch is stamped with: the first one no live fetch carries.
FreeStamps ==
  {s \in 1..Stamps :
     /\ \A r \in Rows : lines[r].fetch # s
     /\ \A m \in ToSet(requests) \union ToSet(replies) \union ToSet(inbox) :
          m.kind \in {"lines", "failed"} => m.stamp # s}

IsNow(now) == now \in FreeStamps /\ \A s \in FreeStamps : now <= s

\* Only the first row is asked for.
FetchFirst(rows, now) ==
  IF rows = {} THEN <<>>
  ELSE <<[kind |-> "lines", rows |-> {CHOOSE r \in rows : \A q \in rows : r <= q}, stamp |-> now]>>

\* The request for rows, if there are any.
Fetch(rows, now) == IF rows = {} THEN <<>> ELSE <<[kind |-> "lines", rows |-> rows, stamp |-> now]>>

\* The pane was attached and its viewport is shown (Reconnect begins from nothing).
Init ==
  /\ term = [version |-> [r \in Rows |-> IF r <= View THEN 1 ELSE 0],
             seqno |-> 1, top |-> 1, cursor |-> 1]
  /\ sent = [seqno |-> 1, top |-> 1, cursor |-> 1, palette |-> TRUE]
  /\ due = FALSE /\ scan = NoScan
  /\ requests = <<>> /\ replies = <<>> /\ inbox = <<>>
  /\ lines = [r \in Rows |-> IF r <= View THEN Line(1) ELSE Absent]
  /\ view = [seqno |-> 1, top |-> 1, cursor |-> 1, polling |-> FALSE]
  /\ missed = {} /\ drops = 0

-----------------------------------------------------------------------------
(* The server. *)

\* The parser thread changes a row; the cursor goes there or is left where it was.
Output(r, c) ==
  /\ term.seqno < MaxSeq
  /\ r \in Viewport(term.top) /\ c \in {r, term.cursor}
  /\ term' = [term EXCEPT !.version[r] = term.seqno + 1, !.seqno = @ + 1, !.cursor = c]
  /\ due' = TRUE
  /\ missed' = missed \ {r}
  /\ UNCHANGED <<sent, scan, requests, replies, inbox, client, drops>>

\* It adds a row at the bottom, and the first row of the viewport becomes scrollback.
Scroll ==
  LET new == term.top + View IN
  /\ term.seqno < MaxSeq /\ new <= LastRow
  /\ term' = [version |-> [term.version EXCEPT ![new] = term.seqno + 1],
              seqno |-> term.seqno + 1, top |-> term.top + 1, cursor |-> new]
  /\ due' = TRUE
  /\ UNCHANGED <<sent, scan, requests, replies, inbox, client, missed, drops>>

\* What maybe_push_pane_changes and the poll send after the changes.
Closing(by) ==
  (IF sent.palette THEN <<>> ELSE <<[kind |-> "palette", hop |-> 0]>>)
    \o (IF by = "poll" THEN <<[kind |-> "alive"]>> ELSE <<>>)

\* Rows that changed since the last push.
Dirty == {r \in Existing(term) : term.version[r] > sent.seqno}

\* compute_changes looks at dimensions, cursor and changed rows.
Examine(by) ==
  /\ IF Dirty # {} \/ term.top # sent.top \/ term.cursor # sent.cursor
     THEN /\ scan' = [by |-> by, dirty |-> Dirty, top |-> term.top,
                      cursor |-> term.cursor, seqno |-> term.seqno]
          /\ UNCHANGED <<sent, replies>>
     ELSE /\ replies' = replies \o Closing(by)
          /\ sent' = [sent EXCEPT !.palette = TRUE]
          /\ UNCHANGED scan
  /\ UNCHANGED <<term, inbox, client, missed, drops>>

PushOutput ==
  /\ due /\ scan = NoScan
  /\ due' = FALSE
  /\ Examine("output")
  /\ UNCHANGED requests

AnswerPoll ==
  /\ scan = NoScan /\ requests # <<>> /\ Head(requests).kind = "poll"
  /\ requests' = Tail(requests)
  /\ Examine("poll")
  /\ UNCHANGED due

\* The rows of the viewport that were dirty, and the row of the cursor.
Bonus == (scan.dirty \intersect Viewport(scan.top)) \union {scan.cursor}

\* It takes the lines and, last, the sequence number the next scan starts from.
FinishPush ==
  /\ scan # NoScan
  /\ sent' = [seqno |-> term.seqno, top |-> scan.top, cursor |-> scan.cursor, palette |-> TRUE]
  /\ replies' = Append(replies,
       [kind |-> "push", hop |-> 0, seqno |-> term.seqno, top |-> scan.top, cursor |-> scan.cursor,
        dirty |-> scan.dirty \ Viewport(scan.top),
        bonus |-> [r \in Bonus |-> term.version[r]]]) \o Closing(scan.by)
  /\ missed' = (missed \union {r \in Rows : term.version[r] > scan.seqno})
                 \ (scan.dirty \union Bonus)
  /\ scan' = NoScan
  /\ UNCHANGED <<term, due, requests, inbox, client, drops>>

AnswerLines ==
  /\ scan = NoScan /\ requests # <<>> /\ Head(requests).kind = "lines"
  /\ LET ask == Head(requests) IN
     replies' = Append(replies, [kind |-> "lines", rows |-> ask.rows, stamp |-> ask.stamp,
                                 found |-> [r \in ask.rows |-> term.version[r]]])
  /\ requests' = Tail(requests)
  /\ UNCHANGED <<term, server, inbox, client, drops>>

-----------------------------------------------------------------------------
(* The client. *)

\* The reader thread hands the next message to the main thread.
Receive ==
  /\ replies # <<>>
  /\ inbox' = Append(inbox, Head(replies))
  /\ replies' = Tail(replies)
  /\ UNCHANGED <<term, server, requests, client, drops>>

Task(kind) == inbox # <<>> /\ Head(inbox).kind = kind

\* process_unilateral: the first turn only spawns the task that handles the message.
Respawn ==
  /\ inbox # <<>> /\ Head(inbox).kind \in {"push", "palette"} /\ Head(inbox).hop = 0
  /\ inbox' = Append(Tail(inbox), [Head(inbox) EXCEPT !.hop = 1])
  /\ UNCHANGED <<term, server, requests, replies, client, drops>>

\* Rows the push says have changed and does not bring.
Unsent(push) ==
  (push.dirty \union (IF push.cursor = view.cursor THEN {} ELSE {view.cursor, push.cursor}))
    \ DOMAIN push.bonus

\* apply_changes_to_surface; the rate limiter admits the fetch or not.
ApplyPush ==
  /\ Task("push") /\ Head(inbox).hop = 1
  /\ LET push   == Head(inbox)
         wanted == {r \in Unsent(push) : r >= push.top}
     IN \E now \in 1..Stamps, admitted \in BOOLEAN :
          /\ IF wanted = {} THEN admitted /\ now = 1 ELSE admitted => IsNow(now)
          /\ lines' = [r \in Rows |->
               CASE r \in DOMAIN push.bonus -> Line(push.bonus[r])
                 [] r \in wanted /\ admitted -> Fetching(lines[r], now)
                 [] r \in wanted /\ ~admitted -> MakeStale(lines[r])
                 [] r \in Unsent(push) \ wanted -> Absent
                 [] OTHER -> lines[r]]
          /\ requests' = requests \o Fetch(IF admitted THEN wanted ELSE {}, now)
          /\ view' = [view EXCEPT !.seqno = push.seqno, !.top = push.top, !.cursor = push.cursor]
  /\ inbox' = Tail(inbox)
  /\ UNCHANGED <<term, server, replies, drops>>

ApplyPalette ==
  /\ Task("palette") /\ Head(inbox).hop = 1
  /\ lines' = [r \in Rows |-> MakeAllStale(lines[r])]
  /\ inbox' = Tail(inbox)
  /\ UNCHANGED <<term, server, requests, replies, view, drops>>

\* apply_lines with the lines, or with the error of a lost connection.
ApplyLines ==
  /\ Task("lines")
  /\ LET m == Head(inbox) IN
     lines' = [r \in Rows |-> IF r \in m.rows THEN PutLine(lines[r], m.found[r], m.stamp)
                              ELSE lines[r]]
  /\ inbox' = Tail(inbox)
  /\ UNCHANGED <<term, server, requests, replies, view, drops>>

ApplyFailure ==
  /\ Task("failed")
  /\ LET m == Head(inbox) IN
     lines' = [r \in Rows |-> IF r \in m.rows THEN Unfetched(lines[r], m.stamp) ELSE lines[r]]
  /\ inbox' = Tail(inbox)
  /\ UNCHANGED <<term, server, requests, replies, view, drops>>

\* The poll was answered, or failed: the pane of a reconnectable domain stays alive.
EndPoll ==
  /\ Task("alive")
  /\ view' = [view EXCEPT !.polling = FALSE]
  /\ inbox' = Tail(inbox)
  /\ UNCHANGED <<term, server, requests, replies, lines, drops>>

\* get_changed_since polls, one poll at a time.
Poll ==
  /\ ~view.polling
  /\ view' = [view EXCEPT !.polling = TRUE]
  /\ requests' = Append(requests, [kind |-> "poll"])
  /\ UNCHANGED <<term, server, replies, inbox, lines, drops>>

\* A line newer than what the client was told of is shown and fetched again.
AheadOfClient(e) == IsLine(e) /\ e.held > view.seqno

\* A stale line is shown for as long as it is there.
NeededIfAbsent(e) == e = Absent \/ AheadOfClient(e)

\* An entry get_lines fetches.
Needed(e) == e = Absent \/ e.stale \/ AheadOfClient(e)

\* get_lines for the rows from first on: what is missing or stale is fetched.
Paint(first) ==
  LET needed == {r \in Viewport(first) : Needed(lines[r])} IN
     /\ needed # {}
     /\ \E now \in 1..Stamps :
          /\ IsNow(now)
          /\ lines' = [r \in Rows |->
               IF r \notin needed THEN lines[r]
               ELSE IF AheadOfClient(lines[r]) THEN MakeStale(lines[r])
               ELSE Fetching(lines[r], now)]
          /\ requests' = requests \o Fetch(needed, now)
     /\ UNCHANGED <<term, server, replies, inbox, view, drops>>

-----------------------------------------------------------------------------
(* The connection. *)

\* The client makes a failure of every answer that will not come.
Failures(lost) ==
  {[kind |-> "failed", rows |-> m.rows, stamp |-> m.stamp] :
      m \in {x \in lost : x.kind = "lines"}}
    \union {[kind |-> "alive"] : m \in {x \in lost : x.kind \in {"poll", "alive"}}}

\* The connection is lost and made again: what was on the way is gone, every
\* promise fails, in the order of a hash map, and a new session knows nothing of
\* the client.  The requests the client had not yet written go to the new session.
Reconnect ==
  /\ drops < MaxDrops
  /\ \E written \in 0..Len(requests) :
       LET lost == ToSet(replies) \union {[kind |-> scan.by]}
                     \union ToSet(SubSeq(requests, 1, written))
       IN /\ requests' = SubSeq(requests, written + 1, Len(requests))
          /\ \E failures \in SetToSeqs(Failures(lost)) : inbox' = inbox \o failures
  /\ replies' = <<>>
  /\ sent' = NewPerPane /\ due' = FALSE /\ scan' = NoScan /\ missed' = {}
  /\ drops' = drops + 1
  /\ UNCHANGED <<term, client>>

Next ==
  \/ \E r, c \in Rows : Output(r, c)
  \/ Scroll
  \/ PushOutput \/ FinishPush \/ AnswerPoll \/ AnswerLines
  \/ Receive \/ Respawn \/ ApplyPush \/ ApplyPalette \/ ApplyLines \/ ApplyFailure \/ EndPoll
  \/ Poll
  \/ \E first \in 1..LastRow : first <= view.top /\ Paint(first)
  \/ Reconnect

\* Both main threads drain their queues, messages arrive, and the window is
\* painted (the status bar asks for it), which polls too.
Fairness ==
  /\ WF_vars(PushOutput) /\ WF_vars(FinishPush) /\ WF_vars(AnswerPoll \/ AnswerLines)
  /\ WF_vars(Receive)
  /\ WF_vars(Respawn \/ ApplyPush \/ ApplyPalette \/ ApplyLines \/ ApplyFailure \/ EndPoll)
  /\ WF_vars(Poll) /\ WF_vars(Paint(view.top))

Spec == Init /\ [][Next]_vars /\ Fairness

-----------------------------------------------------------------------------
(* Properties. *)

InFlight == ToSet(replies) \union ToSet(inbox)

\* Every entry that waits for a fetch waits for one that is under way and asked
\* for its row (LineEntry::Fetching: "Currently being downloaded from the
\* server"): no row is left waiting for an answer that cannot come.
FetchingIsOutstanding ==
  \A r \in Rows : lines[r].fetch # 0 =>
    \E m \in ToSet(requests) \union InFlight :
      m.kind \in {"lines", "failed"} /\ m.stamp = lines[r].fetch /\ r \in m.rows

\* The next push or one on its way tells of row r.
Owed(r) ==
  \/ term.version[r] > sent.seqno
  \/ scan # NoScan /\ r \in scan.dirty \union {scan.cursor}
  \/ \E m \in InFlight : /\ m.kind = "push"
                         /\ r \in m.dirty \/ (r \in DOMAIN m.bonus /\ m.bonus[r] = term.version[r])

\* A line the client takes to be up to date (LineEntry::Line) and that is not is
\* one a push will still tell of, whatever fetches overtook the pushes and
\* whichever connections were lost; only the rows a scan missed are exempt.
StaleLineIsOwed ==
  \A r \in Rows \ missed :
    IsLine(lines[r]) /\ lines[r].held # term.version[r] => Owed(r)

Current(r) == IsLine(lines[r]) /\ lines[r].held = term.version[r]

\* Once the terminal is quiet the client comes to show its viewport: the rows
\* are the server's, except those a scan missed, and stay so.
CatchesUp ==
  <>[](view.top = term.top /\ \A r \in Viewport(term.top) \ missed : Current(r))
=============================================================================
