--------------------------- MODULE RemotePane_proofs ---------------------------
(***************************************************************************)
(* Theorems about RemotePane, for any number of rows, changes, fetches and *)
(* lost connections: no row waits for an answer that cannot come, and a    *)
(* line that passes for current and is not will be told of by a push.      *)
(***************************************************************************)
EXTENDS RemotePane, SequenceTheorems, FiniteSetTheorems, TLAPS

-------------------------------------------------------------------------------
(* Types *)

Tops == 1..(LastRow - View + 1)
Stampset == 1..Stamps

\* Versions of some rows.
Versions == UNION {[S -> Nat] : S \in SUBSET Rows}

Entries == [held : Nat, fetch : 0..Stamps, stale : BOOLEAN]

Pushes(hops) ==
    [kind : {"push"}, hop : hops, seqno : Nat, top : Tops, cursor : Rows,
     dirty : SUBSET Rows, bonus : Versions]
Palettes(hops) == [kind : {"palette"}, hop : hops]
Alive == [kind : {"alive"}]
Answers ==
    {a \in [kind : {"lines"}, rows : SUBSET Rows, stamp : Stampset, found : Versions] :
        DOMAIN a.found = a.rows}
Failed == [kind : {"failed"}, rows : SUBSET Rows, stamp : Stampset]

\* What the server writes, and what the main thread of the client is given.
Written == Pushes({0}) \cup Palettes({0}) \cup Alive \cup Answers
Tasks == Pushes({0, 1}) \cup Palettes({0, 1}) \cup Alive \cup Answers \cup Failed

Requests ==
    [kind : {"poll"}] \cup [kind : {"lines"}, rows : SUBSET Rows, stamp : Stampset]

Scans == [by : {"output", "poll"}, dirty : SUBSET Rows, top : Tops, cursor : Rows, seqno : Nat]

Types ==
    /\ term \in [version : [Rows -> Nat], seqno : Nat, top : Tops, cursor : Rows]
    /\ sent \in [seqno : Nat, top : Nat, cursor : Nat, palette : BOOLEAN]
    /\ scan \in Scans \cup {NoScan}
    /\ requests \in Seq(Requests) /\ replies \in Seq(Written) /\ inbox \in Seq(Tasks)
    /\ lines \in [Rows -> Entries]
    /\ view \in [seqno : Nat, top : Tops, cursor : Rows, polling : BOOLEAN]

\* What each kind of task carries.
LEMMA TaskFields ==
    ASSUME NEW m \in Tasks
    PROVE  /\ m.kind \in {"push", "palette", "alive", "lines", "failed"}
           /\ m.kind = "push" => m \in Pushes({0, 1})
           /\ m.kind = "palette" => m \in Palettes({0, 1})
           /\ m.kind = "alive" => m \in Alive
           /\ m.kind = "lines" => m \in Answers
           /\ m.kind = "failed" => m \in Failed
BY DEF Tasks, Pushes, Palettes, Alive, Answers, Failed

LEMMA PushFields ==
    ASSUME NEW m, m \in Pushes({0, 1})
    PROVE  /\ m.kind = "push" /\ m.hop \in {0, 1} /\ m.seqno \in Nat /\ m.top \in Tops
           /\ m.cursor \in Rows /\ m.dirty \subseteq Rows
           /\ DOMAIN m.bonus \subseteq Rows /\ m.bonus \in [DOMAIN m.bonus -> Nat]
<1>1. m.bonus \in Versions BY DEF Pushes
<1>2. PICK S \in SUBSET Rows : m.bonus \in [S -> Nat] BY <1>1 DEF Versions
<1> QED BY <1>2 DEF Pushes

LEMMA AnswerFields ==
    ASSUME NEW m, m \in Answers
    PROVE  /\ m.kind = "lines" /\ m.rows \subseteq Rows /\ m.stamp \in Stampset
           /\ m.found \in [m.rows -> Nat]
<1>1. m.found \in Versions /\ DOMAIN m.found = m.rows BY DEF Answers
<1>2. PICK S \in SUBSET Rows : m.found \in [S -> Nat] BY <1>1 DEF Versions
<1> QED BY <1>1, <1>2 DEF Answers

LEMMA WrittenTasks ==
    /\ Written \subseteq Tasks
    /\ \A m \in Written : /\ m.kind # "failed"
                          /\ m.kind \in {"push", "palette"} => m.hop = 0
<1>1. Pushes({0}) \subseteq Pushes({0, 1}) /\ Palettes({0}) \subseteq Palettes({0, 1})
    BY DEF Pushes, Palettes
<1>2. \A m \in Written : /\ m.kind # "failed"
                         /\ m.kind \in {"push", "palette"} => m.hop = 0
    BY DEF Written, Pushes, Palettes, Alive, Answers
<1> QED BY <1>1, <1>2 DEF Written, Tasks

LEMMA RequestFields ==
    ASSUME NEW m \in Requests
    PROVE  /\ m.kind \in {"poll", "lines"}
           /\ m.kind = "lines" => m.rows \in SUBSET Rows /\ m.stamp \in Stampset
BY DEF Requests

\* The rows: there is one, and a viewport is within them.
LEMMA RowFacts ==
    /\ 1 \in Rows /\ 1 \in Tops /\ LastRow \in Nat /\ View \in Nat \ {0} /\ Stamps \in Nat \ {0}
    /\ \A top \in Tops : Viewport(top) \subseteq Rows
    /\ \A t : t.top \in Tops => Existing(t) \subseteq Rows
BY RemoteAssumption DEF Rows, Tops, Viewport, Existing

\* What closes a push or the answer to a poll.
LEMMA ClosingType == \A by \in {"output", "poll"} : Closing(by) \in Seq(Written)
<1>1. <<[kind |-> "palette", hop |-> 0]>> \in Seq(Written)
      /\ <<[kind |-> "alive"]>> \in Seq(Written)
    BY DEF Written, Palettes, Alive
<1>2. <<>> \in Seq(Written) BY EmptySeq
<1> QED BY <1>1, <1>2, ConcatProperties DEF Closing

\* A request for rows.
LEMMA FetchType ==
    ASSUME NEW rows \in SUBSET Rows, NEW now \in Stampset
    PROVE  Fetch(rows, now) \in Seq(Requests)
<1>1. [kind |-> "lines", rows |-> rows, stamp |-> now] \in Requests BY DEF Requests
<1>2. <<>> \in Seq(Requests) BY EmptySeq
<1> QED BY <1>1, <1>2 DEF Fetch

\* Entries stay entries.
LEMMA EntryTypes ==
    ASSUME NEW e \in Entries, NEW now \in Stampset, NEW v \in Nat
    PROVE  /\ Absent \in Entries /\ Line(v) \in Entries /\ Fetching(e, now) \in Entries
           /\ MakeStale(e) \in Entries /\ MakeAllStale(e) \in Entries
           /\ PutLine(e, v, now) \in Entries /\ Unfetched(e, now) \in Entries
<1>1. e.held \in Nat /\ e.fetch \in 0..Stamps /\ e.stale \in BOOLEAN
      /\ 0 \in 0..Stamps /\ now \in 0..Stamps
    BY RowFacts DEF Entries, Stampset
<1>2. Absent \in Entries /\ Line(v) \in Entries BY <1>1 DEF Entries, Absent, Line
<1>3. Fetching(e, now) \in Entries BY <1>1 DEF Entries, Fetching
<1>4. MakeStale(e) \in Entries BY <1>1, <1>2 DEF Entries, MakeStale
<1>5. [e EXCEPT !.fetch = 0] \in Entries BY <1>1 DEF Entries
<1> QED BY <1>2, <1>3, <1>4, <1>5 DEF MakeAllStale, PutLine, Unfetched

-------------------------------------------------------------------------------
(* Sequences of messages *)

\* What the main thread has yet to do, in the order in which it is told.
Coming == inbox \o replies

LEMMA ConcatAt ==
    ASSUME NEW S, NEW s \in Seq(S), NEW t \in Seq(S)
    PROVE  /\ s \o t \in Seq(S) /\ Len(s) \in Nat /\ Len(t) \in Nat
           /\ Len(s \o t) = Len(s) + Len(t)
           /\ \A i \in 1..Len(s) : (s \o t)[i] = s[i]
           /\ \A i \in 1..Len(t) : (s \o t)[Len(s) + i] = t[i]
           /\ ToSet(s \o t) = ToSet(s) \cup ToSet(t)
<1>1. /\ s \o t \in Seq(S) /\ Len(s \o t) = Len(s) + Len(t)
      /\ \A i \in 1..Len(s) : (s \o t)[i] = s[i]
      /\ \A i \in 1..Len(t) : (s \o t)[Len(s) + i] = t[i]
    BY ConcatProperties
<1>2. /\ Len(s) \in Nat /\ DOMAIN s = 1..Len(s)
      /\ Len(t) \in Nat /\ DOMAIN t = 1..Len(t)
      /\ DOMAIN (s \o t) = 1..(Len(s) + Len(t))
    BY <1>1, LenProperties
<1>3. ToSet(s \o t) \subseteq ToSet(s) \cup ToSet(t)
    <2> SUFFICES ASSUME NEW i \in 1..(Len(s) + Len(t))
                 PROVE  (s \o t)[i] \in ToSet(s) \cup ToSet(t)
        BY <1>2 DEF ToSet
    <2>1. CASE i \in 1..Len(s) BY <1>1, <1>2, <2>1 DEF ToSet
    <2>2. CASE i \notin 1..Len(s)
        <3>1. i - Len(s) \in 1..Len(t) /\ i = Len(s) + (i - Len(s)) BY <1>2, <2>2
        <3> QED BY <1>1, <1>2, <3>1 DEF ToSet
    <2> QED BY <2>1, <2>2
<1>4. \A i \in 1..Len(s) : i \in DOMAIN (s \o t) BY <1>2
<1>5. \A i \in 1..Len(t) : Len(s) + i \in DOMAIN (s \o t) BY <1>2
<1>6. ToSet(s) \subseteq ToSet(s \o t) BY <1>1, <1>2, <1>4 DEF ToSet
<1>7. ToSet(t) \subseteq ToSet(s \o t) BY <1>1, <1>2, <1>5 DEF ToSet
<1> QED BY <1>1, <1>2, <1>3, <1>6, <1>7

LEMMA AppendAt ==
    ASSUME NEW S, NEW s \in Seq(S), NEW e \in S
    PROVE  /\ Append(s, e) \in Seq(S) /\ Len(s) \in Nat /\ Len(Append(s, e)) = Len(s) + 1
           /\ \A i \in 1..Len(s) : Append(s, e)[i] = s[i]
           /\ Append(s, e)[Len(s) + 1] = e
           /\ ToSet(Append(s, e)) = ToSet(s) \cup {e}
<1>1. /\ Append(s, e) \in Seq(S) /\ Len(Append(s, e)) = Len(s) + 1
      /\ \A i \in 1..Len(s) : Append(s, e)[i] = s[i]
      /\ Append(s, e)[Len(s) + 1] = e
    BY AppendProperties
<1>2. /\ Len(s) \in Nat /\ DOMAIN s = 1..Len(s)
      /\ DOMAIN Append(s, e) = 1..(Len(s) + 1)
    BY <1>1, LenProperties
<1>3. \A i : i \in 1..(Len(s) + 1) <=> i \in 1..Len(s) \/ i = Len(s) + 1 BY <1>2
<1>4. ToSet(Append(s, e)) = ToSet(s) \cup {e} BY <1>1, <1>2, <1>3 DEF ToSet
<1> QED BY <1>1, <1>2, <1>4

LEMMA TailAt ==
    ASSUME NEW S, NEW s \in Seq(S), s # <<>>
    PROVE  /\ Head(s) \in S /\ Head(s) = s[1] /\ Tail(s) \in Seq(S)
           /\ Len(s) \in Nat \ {0} /\ Len(Tail(s)) = Len(s) - 1
           /\ \A i \in 1..(Len(s) - 1) : Tail(s)[i] = s[i + 1]
           /\ ToSet(s) = {Head(s)} \cup ToSet(Tail(s))
<1>1. /\ Head(s) \in S /\ Head(s) = s[1] /\ Tail(s) \in Seq(S)
      /\ Len(Tail(s)) = Len(s) - 1
      /\ \A i \in 1..Len(Tail(s)) : Tail(s)[i] = s[i + 1]
    BY HeadTailProperties
<1>2. /\ Len(s) \in Nat \ {0} /\ DOMAIN s = 1..Len(s)
      /\ DOMAIN Tail(s) = 1..(Len(s) - 1)
    BY <1>1, LenProperties, EmptySeq
<1>3. ToSet(s) \subseteq {Head(s)} \cup ToSet(Tail(s))
    <2> SUFFICES ASSUME NEW i \in 1..Len(s), i # 1 PROVE s[i] \in ToSet(Tail(s))
        BY <1>1, <1>2 DEF ToSet
    <2>1. i - 1 \in 1..(Len(s) - 1) /\ Tail(s)[i - 1] = s[i] BY <1>1, <1>2
    <2> QED BY <1>2, <2>1 DEF ToSet
<1>4. \A i \in 1..(Len(s) - 1) : i + 1 \in DOMAIN s /\ Tail(s)[i] = s[i + 1]
    BY <1>1, <1>2
<1>5. {Head(s)} \cup ToSet(Tail(s)) \subseteq ToSet(s) BY <1>1, <1>2, <1>4 DEF ToSet
<1> QED BY <1>1, <1>2, <1>3, <1>5

\* The messages in a sequence of them.
LEMMA ToSetType ==
    ASSUME NEW S, NEW s \in Seq(S)
    PROVE  /\ ToSet(s) \subseteq S /\ IsFiniteSet(ToSet(s))
           /\ \A i \in 1..Len(s) : s[i] \in ToSet(s)
           /\ \A x \in ToSet(s) : \E i \in 1..Len(s) : x = s[i]
<1>1. Len(s) \in Nat /\ DOMAIN s = 1..Len(s) /\ s \in [1..Len(s) -> S]
    BY LenProperties, ElementOfSeq
<1>2. s \in Surjection(1..Len(s), ToSet(s)) BY <1>1 DEF ToSet, Surjection
<1>3. IsFiniteSet(1..Len(s)) BY <1>1, FS_Interval
<1>4. IsFiniteSet(ToSet(s)) BY <1>2, <1>3, FS_Surjection
<1> QED BY <1>1, <1>4 DEF ToSet

\* SetToSeqs orders a finite set.
LEMMA OrderedSet ==
    ASSUME NEW S, IsFiniteSet(S), NEW s \in SetToSeqs(S)
    PROVE  s \in Seq(S) /\ ToSet(s) = S
<1> DEFINE n == Cardinality(S)
<1>1. n \in Nat /\ s \in Injection(1..n, S) /\ s \in [1..n -> S]
    BY FS_CardinalityType DEF SetToSeqs, Injection, IsInjective
<1>2. Cardinality(1..n) = n BY <1>1, FS_Interval
<1>3. s \in Surjection(1..n, S) BY <1>1, <1>2, FS_Injection
<1>4. s \in Seq(S) BY <1>1, IsASeq
<1>5. ToSet(s) = S BY <1>1, <1>3 DEF ToSet, Surjection
<1> QED BY <1>4, <1>5

\* The server writes more.
LEMMA WriteMore ==
    ASSUME replies \in Seq(Written), inbox \in Seq(Tasks), NEW more \in Seq(Written),
           replies' = replies \o more, UNCHANGED inbox
    PROVE  /\ replies' \in Seq(Written) /\ inbox' \in Seq(Tasks)
           /\ ToSet(replies') = ToSet(replies) \cup ToSet(more)
           /\ Coming \in Seq(Tasks) /\ Coming' \in Seq(Tasks)
           /\ Len(Coming') = Len(Coming) + Len(more)
           /\ \A i \in 1..Len(Coming) : Coming'[i] = Coming[i]
           /\ \A i \in 1..Len(more) : Coming'[Len(Coming) + i] = more[i]
<1>1. more \in Seq(Tasks) /\ replies \in Seq(Tasks) BY WrittenTasks, SeqDef
<1>2. replies' \in Seq(Written) /\ ToSet(replies') = ToSet(replies) \cup ToSet(more)
    BY ConcatAt
<1>3. Coming \in Seq(Tasks) BY <1>1, ConcatAt DEF Coming
<1>4. Coming' = Coming \o more BY <1>1, ConcatAssociative DEF Coming
<1> HIDE DEF Coming
<1> QED BY <1>1, <1>2, <1>3, <1>4, ConcatAt

\* The main thread takes the next task.
LEMMA TakeTask ==
    ASSUME replies \in Seq(Written), inbox \in Seq(Tasks), inbox # <<>>,
           inbox' = Tail(inbox), UNCHANGED replies
    PROVE  /\ replies' \in Seq(Written) /\ inbox' \in Seq(Tasks) /\ Head(inbox) \in Tasks
           /\ ToSet(inbox) = {Head(inbox)} \cup ToSet(inbox')
           /\ Coming \in Seq(Tasks) /\ Coming' \in Seq(Tasks) /\ Len(Coming) \in Nat \ {0}
           /\ Coming[1] = Head(inbox) /\ Len(Coming') = Len(Coming) - 1
           /\ \A i \in 1..(Len(Coming) - 1) : Coming'[i] = Coming[i + 1]
<1>1. replies \in Seq(Tasks) BY WrittenTasks, SeqDef
<1>2. /\ Head(inbox) \in Tasks /\ Head(inbox) = inbox[1] /\ inbox' \in Seq(Tasks)
      /\ Len(inbox) \in Nat \ {0} /\ Len(inbox') = Len(inbox) - 1
      /\ \A i \in 1..(Len(inbox) - 1) : inbox'[i] = inbox[i + 1]
      /\ ToSet(inbox) = {Head(inbox)} \cup ToSet(inbox')
    BY TailAt
<1>3. /\ Coming \in Seq(Tasks) /\ Len(replies) \in Nat
      /\ Len(Coming) = Len(inbox) + Len(replies)
      /\ \A i \in 1..Len(inbox) : Coming[i] = inbox[i]
      /\ \A i \in 1..Len(replies) : Coming[Len(inbox) + i] = replies[i]
    BY <1>1, ConcatAt DEF Coming
<1>4. /\ Coming' \in Seq(Tasks) /\ Len(Coming') = Len(inbox') + Len(replies)
      /\ \A i \in 1..Len(inbox') : Coming'[i] = inbox'[i]
      /\ \A i \in 1..Len(replies) : Coming'[Len(inbox') + i] = replies[i]
    BY <1>1, <1>2, ConcatAt DEF Coming
<1> HIDE DEF Coming
<1>5. ASSUME NEW i \in 1..(Len(Coming) - 1) PROVE Coming'[i] = Coming[i + 1]
    <2>1. CASE i \in 1..(Len(inbox) - 1) BY <1>2, <1>3, <1>4, <2>1
    <2>2. CASE i \notin 1..(Len(inbox) - 1)
        <3>1. PICK k \in 1..Len(replies) : i = Len(inbox') + k /\ i + 1 = Len(inbox) + k
            <4>1. i - (Len(inbox) - 1) \in 1..Len(replies)
                  /\ i = Len(inbox') + (i - (Len(inbox) - 1))
                  /\ i + 1 = Len(inbox) + (i - (Len(inbox) - 1))
                BY <1>2, <1>3, <2>2
            <4> QED BY <4>1
        <3>2. Coming'[i] = replies[k] BY <1>4, <3>1
        <3>3. Coming[i + 1] = replies[k] BY <1>3, <3>1
        <3> QED BY <3>2, <3>3
    <2> QED BY <2>1, <2>2
<1> QED BY <1>2, <1>3, <1>4, <1>5

\* The reader hands over the next message: nothing changes of what is coming.
LEMMA HandOver ==
    ASSUME replies \in Seq(Written), inbox \in Seq(Tasks), replies # <<>>,
           inbox' = Append(inbox, Head(replies)), replies' = Tail(replies)
    PROVE  /\ replies' \in Seq(Written) /\ inbox' \in Seq(Tasks)
           /\ ToSet(inbox') \cup ToSet(replies') = ToSet(inbox) \cup ToSet(replies)
           /\ Coming \in Seq(Tasks) /\ Coming' = Coming
<1> DEFINE m == Head(replies)
<1>1. replies \in Seq(Tasks) BY WrittenTasks, SeqDef
<1>2. /\ m \in Written /\ replies' \in Seq(Written)
      /\ ToSet(replies) = {m} \cup ToSet(replies')
    BY TailAt
<1>3. replies' \in Seq(Tasks) /\ m \in Tasks BY <1>2, WrittenTasks, SeqDef
<1>4. replies = <<m>> \o replies' BY <1>2, HeadTailProperties
<1>5. <<m>> \in Seq(Tasks) /\ ToSet(<<m>>) = {m} BY <1>3 DEF ToSet
<1>6. inbox' = inbox \o <<m>> BY <1>3, AppendIsConcat
<1> HIDE DEF m
<1>7. inbox' \in Seq(Tasks) /\ ToSet(inbox') = ToSet(inbox) \cup {m}
    <2>1. /\ inbox \o <<m>> \in Seq(Tasks)
          /\ ToSet(inbox \o <<m>>) = ToSet(inbox) \cup ToSet(<<m>>)
        BY <1>5, ConcatAt
    <2> QED BY <1>5, <1>6, <2>1
<1>8. Coming' = Coming BY <1>3, <1>4, <1>5, <1>6, ConcatAssociative DEF Coming
<1>9. Coming \in Seq(Tasks) BY <1>1, ConcatAt DEF Coming
<1> QED BY <1>2, <1>7, <1>8, <1>9

-------------------------------------------------------------------------------
(* Fetches *)

\* Every message of the connection.
Messages == ToSet(requests) \cup InFlight

\* A message of msgs is the fetch of row r with this stamp, its answer or its
\* failure.
Fetched(msgs, stamp, r) ==
    \E m \in msgs : m.kind \in {"lines", "failed"} /\ m.stamp = stamp /\ r \in m.rows

FetchInv == Types /\ FetchingIsOutstanding

LEMMA FetchingFacts ==
    FetchingIsOutstanding <=>
        \A r \in Rows : lines[r].fetch # 0 => Fetched(Messages, lines[r].fetch, r)
BY DEF FetchingIsOutstanding, Fetched, Messages

\* Nothing is lost while the entries stay as they are.
LEMMA FetchingKept ==
    ASSUME FetchingIsOutstanding, UNCHANGED lines,
           \A s \in Stampset, r \in Rows : Fetched(Messages, s, r) => Fetched(Messages', s, r),
           lines \in [Rows -> Entries]
    PROVE  FetchingIsOutstanding'
<1>1. \A r \in Rows : lines[r].fetch # 0 => lines[r].fetch \in Stampset
    BY RowFacts DEF Entries, Stampset
<1>2. \A r \in Rows : lines[r].fetch # 0 => Fetched(Messages, lines[r].fetch, r)
    BY FetchingFacts
<1>3. \A r \in Rows : lines'[r].fetch # 0 => Fetched(Messages', lines'[r].fetch, r)
    BY <1>1, <1>2
<1> QED BY <1>3 DEF FetchingIsOutstanding, Fetched, Messages

LEMMA MoreFetched ==
    ASSUME NEW msgs, NEW more, msgs \subseteq more
    PROVE  \A s, r : Fetched(msgs, s, r) => Fetched(more, s, r)
BY DEF Fetched

\* The first request is answered or is no fetch.
LEMMA ServeRequest ==
    ASSUME requests \in Seq(Requests), requests # <<>>, requests' = Tail(requests)
    PROVE  /\ requests' \in Seq(Requests) /\ Head(requests) \in Requests
           /\ ToSet(requests) = {Head(requests)} \cup ToSet(requests')
BY TailAt

\* Steps of the terminal and of the server.
LEMMA ExamineTypes ==
    ASSUME Types, NEW by \in {"output", "poll"}, Examine(by)
    PROVE  /\ scan' \in Scans \cup {NoScan}
           /\ sent' \in [seqno : Nat, top : Nat, cursor : Nat, palette : BOOLEAN]
           /\ sent'.seqno = sent.seqno
           /\ UNCHANGED <<term, inbox, lines, view, missed, drops>>
           /\ \/ /\ replies' = replies
                 /\ scan' = [by |-> by, dirty |-> Dirty, top |-> term.top,
                             cursor |-> term.cursor, seqno |-> term.seqno]
              \/ \E more \in Seq(Written) :
                    /\ replies' = replies \o more /\ UNCHANGED scan
                    /\ \A i \in 1..Len(more) : more[i].kind \in {"palette", "alive"}
<1>1. /\ term \in [version : [Rows -> Nat], seqno : Nat, top : Tops, cursor : Rows]
      /\ sent \in [seqno : Nat, top : Nat, cursor : Nat, palette : BOOLEAN]
      /\ scan \in Scans \cup {NoScan}
    BY DEF Types
<1>2. UNCHANGED <<term, inbox, lines, view, missed, drops>> BY DEF Examine, client
<1>3. CASE Dirty # {} \/ term.top # sent.top \/ term.cursor # sent.cursor
    <2>1. /\ scan' = [by |-> by, dirty |-> Dirty, top |-> term.top,
                      cursor |-> term.cursor, seqno |-> term.seqno]
          /\ UNCHANGED <<sent, replies>>
        BY <1>3 DEF Examine
    <2>2. Dirty \subseteq Rows BY <1>1, RowFacts DEF Dirty
    <2>3. scan' \in Scans BY <1>1, <2>1, <2>2 DEF Scans
    <2> QED BY <1>1, <1>2, <2>1, <2>3
<1>4. CASE ~(Dirty # {} \/ term.top # sent.top \/ term.cursor # sent.cursor)
    <2>1. /\ replies' = replies \o Closing(by) /\ sent' = [sent EXCEPT !.palette = TRUE]
          /\ UNCHANGED scan
        BY <1>4 DEF Examine
    <2>2. Closing(by) \in Seq(Written) BY ClosingType
    <2>3. \A i \in 1..Len(Closing(by)) : Closing(by)[i].kind \in {"palette", "alive"}
        BY DEF Closing
    <2> QED BY <1>1, <1>2, <2>1, <2>2, <2>3
<1> QED BY <1>3, <1>4

\* The push that ends a scan.
Pushed ==
    [kind |-> "push", hop |-> 0, seqno |-> term.seqno, top |-> scan.top, cursor |-> scan.cursor,
     dirty |-> scan.dirty \ Viewport(scan.top),
     bonus |-> [r \in Bonus |-> term.version[r]]]

LEMMA PushedType ==
    ASSUME Types, scan # NoScan
    PROVE  /\ scan \in Scans /\ Pushed \in Written /\ Bonus \subseteq Rows
           /\ <<Pushed>> \o Closing(scan.by) \in Seq(Written)
           /\ Len(<<Pushed>> \o Closing(scan.by)) \in Nat \ {0}
           /\ (<<Pushed>> \o Closing(scan.by))[1] = Pushed
           /\ \A i \in 1..Len(<<Pushed>> \o Closing(scan.by)) :
                i # 1 => (<<Pushed>> \o Closing(scan.by))[i].kind \in {"palette", "alive"}
<1>1. scan \in Scans /\ term.version \in [Rows -> Nat] /\ term.seqno \in Nat
    BY DEF Types
<1>2. Bonus \subseteq Rows BY <1>1 DEF Bonus, Scans
<1>3. [r \in Bonus |-> term.version[r]] \in Versions
    BY <1>1, <1>2 DEF Versions
<1>4. Pushed \in Pushes({0}) BY <1>1, <1>3 DEF Pushed, Pushes, Scans
<1>5. Pushed \in Written BY <1>4 DEF Written
<1> HIDE DEF Pushed
<1>6. <<Pushed>> \in Seq(Written) /\ Len(<<Pushed>>) = 1 /\ <<Pushed>>[1] = Pushed BY <1>5
<1> DEFINE one == <<Pushed>>
           more == Closing(scan.by)
<1>7. more \in Seq(Written) BY <1>1, ClosingType DEF Scans
<1>8. \A i \in 1..Len(more) : more[i].kind \in {"palette", "alive"} BY DEF Closing
<1>9. one \in Seq(Written) /\ Len(one) = 1 /\ one[1] = Pushed BY <1>6
<1> HIDE DEF one, more
<1>10. /\ one \o more \in Seq(Written) /\ Len(more) \in Nat /\ Len(one \o more) = 1 + Len(more)
       /\ \A i \in 1..1 : (one \o more)[i] = one[i]
       /\ \A i \in 1..Len(more) : (one \o more)[1 + i] = more[i]
    BY <1>7, <1>9, ConcatAt
<1>11. ASSUME NEW i \in 1..Len(one \o more), i # 1 
       PROVE  (one \o more)[i].kind \in {"palette", "alive"}
    <2>1. i - 1 \in 1..Len(more) /\ i = 1 + (i - 1) BY <1>10, <1>11
    <2> QED BY <1>8, <1>10, <2>1
<1>12. (one \o more)[1] = Pushed BY <1>9, <1>10
<1> QED BY <1>1, <1>2, <1>5, <1>10, <1>11, <1>12 DEF one, more

\* What a finished scan writes.
LEMMA FinishWrites ==
    ASSUME Types, FinishPush
    PROVE  /\ scan # NoScan /\ replies' = replies \o (<<Pushed>> \o Closing(scan.by))
           /\ UNCHANGED <<term, due, requests, inbox, lines, view, drops>>
           /\ scan' = NoScan
           /\ sent' = [seqno |-> term.seqno, top |-> scan.top, cursor |-> scan.cursor,
                       palette |-> TRUE]
           /\ missed' = (missed \union {r \in Rows : term.version[r] > scan.seqno})
                          \ (scan.dirty \union Bonus)
<1>1. /\ scan # NoScan /\ replies' = Append(replies, Pushed) \o Closing(scan.by)
      /\ UNCHANGED <<term, due, requests, inbox, lines, view, drops>>
      /\ scan' = NoScan
      /\ sent' = [seqno |-> term.seqno, top |-> scan.top, cursor |-> scan.cursor,
                  palette |-> TRUE]
      /\ missed' = (missed \union {r \in Rows : term.version[r] > scan.seqno})
                     \ (scan.dirty \union Bonus)
    BY DEF FinishPush, Pushed, client
<1>2. replies \in Seq(Written) BY DEF Types
<1>3. Pushed \in Written /\ scan \in Scans BY <1>1, PushedType
<1>4. Closing(scan.by) \in Seq(Written) BY <1>3, ClosingType DEF Scans
<1>5. Append(replies, Pushed) = replies \o <<Pushed>> BY <1>2, <1>3, AppendIsConcat
<1>6. <<Pushed>> \in Seq(Written) BY <1>3
<1>7. (replies \o <<Pushed>>) \o Closing(scan.by) = replies \o (<<Pushed>> \o Closing(scan.by))
    BY <1>2, <1>4, <1>6, ConcatAssociative
<1> QED BY <1>1, <1>5, <1>7

\* The answer to a fetch.
Answer(ask) ==
    [kind |-> "lines", rows |-> ask.rows, stamp |-> ask.stamp,
     found |-> [r \in ask.rows |-> term.version[r]]]

LEMMA AnswerType ==
    ASSUME Types, NEW ask \in Requests, ask.kind = "lines"
    PROVE  /\ Answer(ask) \in Written /\ Answer(ask).kind = "lines"
           /\ Answer(ask).rows = ask.rows /\ Answer(ask).stamp = ask.stamp
           /\ Answer(ask).found = [r \in ask.rows |-> term.version[r]]
<1>1. ask.rows \in SUBSET Rows /\ ask.stamp \in Stampset BY RequestFields
<1>2. [r \in ask.rows |-> term.version[r]] \in Versions
    BY <1>1 DEF Versions, Types
<1> QED BY <1>1, <1>2 DEF Answer, Answers, Written

LEMMA ServerFetch ==
    ASSUME FetchInv,
           \/ \E r, c \in Rows : Output(r, c)
           \/ Scroll \/ PushOutput \/ FinishPush \/ AnswerPoll \/ AnswerLines
    PROVE  FetchInv'
<1>1. /\ Types /\ FetchingIsOutstanding
      /\ term \in [version : [Rows -> Nat], seqno : Nat, top : Tops, cursor : Rows]
      /\ requests \in Seq(Requests) /\ replies \in Seq(Written) /\ inbox \in Seq(Tasks)
      /\ lines \in [Rows -> Entries] /\ scan \in Scans \cup {NoScan}
    BY DEF FetchInv, Types
<1>2. ASSUME UNCHANGED <<sent, scan, requests, replies, inbox, lines, view>>,
             term' \in [version : [Rows -> Nat], seqno : Nat, top : Tops, cursor : Rows]
      PROVE  FetchInv'
    BY <1>1, <1>2 DEF FetchInv, Types, FetchingIsOutstanding, InFlight
<1>3. ASSUME NEW more \in Seq(Written), replies' = replies \o more,
             UNCHANGED <<term, requests, inbox, lines, view>>,
             sent' \in [seqno : Nat, top : Nat, cursor : Nat, palette : BOOLEAN],
             scan' \in Scans \cup {NoScan}
      PROVE  FetchInv'
    <2>1. replies' \in Seq(Written) /\ ToSet(replies') = ToSet(replies) \cup ToSet(more)
        BY <1>1, <1>3, WriteMore
    <2>2. Messages \subseteq Messages' BY <1>3, <2>1 DEF Messages, InFlight
    <2>3. FetchingIsOutstanding' BY <1>1, <1>3, <2>2, MoreFetched, FetchingKept
    <2>4. Types' BY <1>1, <1>3, <2>1 DEF Types
    <2> QED BY <2>3, <2>4 DEF FetchInv
<1>4. ASSUME NEW r \in Rows, NEW c \in Rows, Output(r, c) PROVE FetchInv'
    <2>1. UNCHANGED <<sent, scan, requests, replies, inbox, lines, view>>
        BY <1>4 DEF Output, client
    <2>2. term' \in [version : [Rows -> Nat], seqno : Nat, top : Tops, cursor : Rows]
        <3>1. [term.version EXCEPT ![r] = term.seqno + 1] \in [Rows -> Nat] BY <1>1
        <3>2. term' = [version |-> [term.version EXCEPT ![r] = term.seqno + 1],
                       seqno |-> term.seqno + 1, top |-> term.top, cursor |-> c]
            BY <1>1, <1>4 DEF Output
        <3> QED BY <1>1, <3>1, <3>2
    <2> QED BY <1>2, <2>1, <2>2
<1>5. ASSUME Scroll PROVE FetchInv'
    <2> DEFINE new == term.top + View
    <2>1. UNCHANGED <<sent, scan, requests, replies, inbox, lines, view>>
        BY <1>5 DEF Scroll, client
    <2>2. /\ new <= LastRow
          /\ term' = [version |-> [term.version EXCEPT ![new] = term.seqno + 1],
                     seqno |-> term.seqno + 1, top |-> term.top + 1, cursor |-> new]
        BY <1>5 DEF Scroll
    <2>3. new \in Rows /\ term.top + 1 \in Tops /\ term.seqno + 1 \in Nat
        <3>1. term.top \in Tops /\ term.seqno \in Nat BY <1>1
        <3> QED BY <2>2, <3>1, RowFacts DEF Rows, Tops
    <2> HIDE DEF new
    <2>4. [term.version EXCEPT ![new] = term.seqno + 1] \in [Rows -> Nat]
        <3>1. term.version \in [Rows -> Nat] BY <1>1
        <3> QED BY <2>3, <3>1
    <2>5. term' \in [version : [Rows -> Nat], seqno : Nat, top : Tops, cursor : Rows]
        BY <2>2, <2>3, <2>4
    <2> QED BY <1>2, <2>1, <2>5
<1>6. ASSUME NEW by \in {"output", "poll"}, Examine(by),
             \/ UNCHANGED requests
             \/ requests # <<>> /\ Head(requests).kind = "poll" /\ requests' = Tail(requests)
      PROVE  FetchInv'
    <2>1. /\ scan' \in Scans \cup {NoScan}
          /\ sent' \in [seqno : Nat, top : Nat, cursor : Nat, palette : BOOLEAN]
          /\ UNCHANGED <<term, inbox, lines, view>>
          /\ replies' = replies \/ \E more \in Seq(Written) : replies' = replies \o more
        BY <1>1, <1>6, ExamineTypes
    <2>2. replies' \in Seq(Written) /\ ToSet(replies) \subseteq ToSet(replies')
        BY <1>1, <2>1, WriteMore
    <2>3. /\ requests' \in Seq(Requests)
          /\ \A m \in ToSet(requests) : m \in ToSet(requests') \/ m.kind = "poll"
        BY <1>1, <1>6, ServeRequest
    <2>4. \A m \in Messages : m \in Messages' \/ m.kind = "poll"
        BY <2>1, <2>2, <2>3 DEF Messages, InFlight
    <2>5. \A s, r : Fetched(Messages, s, r) => Fetched(Messages', s, r)
        BY <2>4 DEF Fetched
    <2>6. FetchingIsOutstanding' BY <1>1, <2>1, <2>5, FetchingKept
    <2>7. Types' BY <1>1, <2>1, <2>2, <2>3 DEF Types
    <2> QED BY <2>6, <2>7 DEF FetchInv
<1>7. ASSUME FinishPush PROVE FetchInv'
    <2>1. /\ scan # NoScan /\ replies' = replies \o (<<Pushed>> \o Closing(scan.by))
          /\ UNCHANGED <<term, requests, inbox, lines, view>> /\ scan' = NoScan
          /\ sent' = [seqno |-> term.seqno, top |-> scan.top, cursor |-> scan.cursor,
                      palette |-> TRUE]
        BY <1>1, <1>7, FinishWrites
    <2>2. <<Pushed>> \o Closing(scan.by) \in Seq(Written) /\ scan \in Scans
        BY <1>1, <2>1, PushedType
    <2>3. sent' \in [seqno : Nat, top : Nat, cursor : Nat, palette : BOOLEAN]
        BY <1>1, <2>1, <2>2 DEF Scans, Tops, Rows
    <2> QED BY <1>3, <2>1, <2>2, <2>3
<1>8. ASSUME AnswerLines PROVE FetchInv'
    <2> DEFINE ask == Head(requests)
    <2>1. /\ requests # <<>> /\ ask.kind = "lines" /\ requests' = Tail(requests)
          /\ replies' = Append(replies, Answer(ask))
          /\ UNCHANGED <<term, sent, scan, inbox, lines, view>>
        BY <1>8 DEF AnswerLines, Answer, server, client
    <2>2. /\ requests' \in Seq(Requests) /\ ask \in Requests
          /\ ToSet(requests) = {ask} \cup ToSet(requests')
        BY <1>1, <2>1, ServeRequest
    <2> HIDE DEF ask
    <2>3. /\ Answer(ask) \in Written /\ Answer(ask).kind = "lines"
          /\ Answer(ask).rows = ask.rows /\ Answer(ask).stamp = ask.stamp
        BY <1>1, <2>1, <2>2, AnswerType
    <2> DEFINE answer == Answer(ask)
    <2> HIDE DEF answer
    <2>4. <<answer>> \in Seq(Written) /\ answer \in ToSet(<<answer>>)
        BY <2>3 DEF answer, ToSet
    <2>5. replies' = replies \o <<answer>>
        BY <1>1, <2>1, <2>3, AppendIsConcat DEF answer
    <2>6. replies' \in Seq(Written) /\ ToSet(replies) \subseteq ToSet(replies')
          /\ answer \in ToSet(replies')
        BY <1>1, <2>1, <2>4, <2>5, WriteMore
    <2>7. \A m \in Messages : m \in Messages' \/ m = ask
        BY <2>1, <2>2, <2>6 DEF Messages, InFlight
    <2>8. answer \in Messages' BY <2>6 DEF Messages, InFlight
    <2>9. \A s, r : Fetched(Messages, s, r) => Fetched(Messages', s, r)
        BY <2>3, <2>7, <2>8 DEF Fetched, answer
    <2>10. FetchingIsOutstanding' BY <1>1, <2>1, <2>9, FetchingKept
    <2>11. Types' BY <1>1, <2>1, <2>2, <2>6 DEF Types
    <2> QED BY <2>10, <2>11 DEF FetchInv
<1>9. CASE PushOutput BY <1>6, <1>9 DEF PushOutput
<1>10. CASE AnswerPoll BY <1>6, <1>10 DEF AnswerPoll
<1> QED BY <1>4, <1>5, <1>7, <1>8, <1>9, <1>10

\* What a push does to every entry, and what it asks for.
LEMMA PushApplied ==
    ASSUME Types, ApplyPush
    PROVE  LET push == Head(inbox) IN
           /\ inbox # <<>> /\ push \in Pushes({0, 1}) /\ push.hop = 1
           /\ inbox' = Tail(inbox)
           /\ UNCHANGED <<term, sent, due, scan, missed, replies, drops>>
           /\ view' \in [seqno : Nat, top : Tops, cursor : Rows, polling : BOOLEAN]
           /\ lines' \in [Rows -> Entries]
           /\ requests' \in Seq(Requests) /\ ToSet(requests) \subseteq ToSet(requests')
           /\ \E now \in Stampset : \A r \in Rows :
                /\ r \in DOMAIN push.bonus => lines'[r] = Line(push.bonus[r])
                /\ r \in Unsent(push) /\ r \notin DOMAIN push.bonus =>
                     \/ /\ lines'[r] = Fetching(lines[r], now) /\ IsNow(now)
                        /\ \E m \in ToSet(requests') :
                             m.kind = "lines" /\ m.stamp = now /\ r \in m.rows
                     \/ lines'[r] = MakeStale(lines[r])
                     \/ lines'[r] = Absent
                /\ r \notin Unsent(push) /\ r \notin DOMAIN push.bonus => lines'[r] = lines[r]
<1> DEFINE push   == Head(inbox)
           wanted == {r \in Unsent(push) : r >= push.top}
<1>1. /\ inbox # <<>> /\ push.kind = "push" /\ push.hop = 1
      /\ inbox' = Tail(inbox)
      /\ UNCHANGED <<term, sent, due, scan, missed, replies, drops>>
      /\ view' = [view EXCEPT !.seqno = push.seqno, !.top = push.top, !.cursor = push.cursor]
    BY DEF ApplyPush, Task, server
<1>2. PICK now \in Stampset, admitted \in BOOLEAN :
        /\ IF wanted = {} THEN admitted /\ now = 1 ELSE admitted => IsNow(now)
        /\ lines' = [r \in Rows |->
               CASE r \in DOMAIN push.bonus -> Line(push.bonus[r])
                 [] r \in wanted /\ admitted -> Fetching(lines[r], now)
                 [] r \in wanted /\ ~admitted -> MakeStale(lines[r])
                 [] r \in Unsent(push) \ wanted -> Absent
                 [] OTHER -> lines[r]]
        /\ requests' = requests \o Fetch(IF admitted THEN wanted ELSE {}, now)
    BY DEF ApplyPush, Stampset
<1>3. push \in Tasks BY <1>1, TailAt DEF Types
<1>4. push \in Pushes({0, 1}) BY <1>1, <1>3, TaskFields
<1>5. /\ DOMAIN push.bonus \subseteq Rows /\ push.bonus \in [DOMAIN push.bonus -> Nat]
      /\ push.dirty \subseteq Rows /\ push.cursor \in Rows /\ push.seqno \in Nat
      /\ push.top \in Tops
    BY <1>4, PushFields
<1>6. view \in [seqno : Nat, top : Tops, cursor : Rows, polling : BOOLEAN]
      /\ lines \in [Rows -> Entries] /\ requests \in Seq(Requests)
    BY DEF Types
<1>7. Unsent(push) \subseteq Rows /\ Unsent(push) \cap DOMAIN push.bonus = {}
    BY <1>5, <1>6 DEF Unsent
<1>8. view' \in [seqno : Nat, top : Tops, cursor : Rows, polling : BOOLEAN]
    BY <1>1, <1>5, <1>6
<1> HIDE DEF push
<1>9. wanted \subseteq Unsent(push) /\ wanted \in SUBSET Rows BY <1>7
<1> DEFINE asked == IF admitted THEN wanted ELSE {}
<1>10. asked \in SUBSET Rows BY <1>9
<1> HIDE DEF wanted
<1>11. \A r \in Rows :
        /\ r \in DOMAIN push.bonus => lines'[r] = Line(push.bonus[r])
        /\ r \in wanted /\ admitted => lines'[r] = Fetching(lines[r], now)
        /\ r \in wanted /\ ~admitted => lines'[r] = MakeStale(lines[r])
        /\ r \in Unsent(push) \ wanted => lines'[r] = Absent
        /\ r \notin Unsent(push) /\ r \notin DOMAIN push.bonus => lines'[r] = lines[r]
    BY <1>2, <1>7, <1>9
<1>12. Fetch(asked, now) \in Seq(Requests) BY <1>10, FetchType
<1>13. requests' = requests \o Fetch(asked, now) BY <1>2
<1>14. /\ requests' \in Seq(Requests)
       /\ ToSet(requests') = ToSet(requests) \cup ToSet(Fetch(asked, now))
    BY <1>6, <1>12, <1>13, ConcatAt
<1>15. ASSUME NEW r \in asked
       PROVE  \E m \in ToSet(requests') : m.kind = "lines" /\ m.stamp = now /\ r \in m.rows
    <2> DEFINE m == [kind |-> "lines", rows |-> asked, stamp |-> now]
    <2>1. Fetch(asked, now) = <<m>> BY <1>15 DEF Fetch
    <2>2. m \in ToSet(Fetch(asked, now)) BY <2>1 DEF ToSet
    <2> QED BY <1>14, <2>2
<1>16. lines' \in [Rows -> Entries]
    <2>1. \A r \in Rows : lines'[r] \in Entries
        <3> SUFFICES ASSUME NEW r \in Rows PROVE lines'[r] \in Entries OBVIOUS
        <3>1. lines[r] \in Entries BY <1>6
        <3>2. /\ Absent \in Entries /\ Fetching(lines[r], now) \in Entries
              /\ MakeStale(lines[r]) \in Entries
            BY <3>1, EntryTypes, RowFacts
        <3>3. r \in DOMAIN push.bonus => Line(push.bonus[r]) \in Entries
            BY <1>5, <3>1, EntryTypes
        <3> QED BY <1>11, <3>1, <3>2, <3>3
    <2>2. lines' = [r \in Rows |-> lines'[r]] BY <1>2
    <2> QED BY <2>1, <2>2
<1>17. \A r \in Rows : r \in Unsent(push) /\ r \notin DOMAIN push.bonus =>
                     \/ /\ lines'[r] = Fetching(lines[r], now) /\ IsNow(now)
                        /\ \E m \in ToSet(requests') :
                             m.kind = "lines" /\ m.stamp = now /\ r \in m.rows
                     \/ lines'[r] = MakeStale(lines[r])
                     \/ lines'[r] = Absent
    <2> SUFFICES ASSUME NEW r \in Rows, r \in Unsent(push), r \notin DOMAIN push.bonus,
                        r \in wanted, admitted
                 PROVE  /\ lines'[r] = Fetching(lines[r], now) /\ IsNow(now)
                        /\ \E m \in ToSet(requests') :
                             m.kind = "lines" /\ m.stamp = now /\ r \in m.rows
        BY <1>11
    <2> QED BY <1>2, <1>11, <1>15
<1>18. \A r \in Rows :
                /\ r \in DOMAIN push.bonus => lines'[r] = Line(push.bonus[r])
                /\ r \in Unsent(push) /\ r \notin DOMAIN push.bonus =>
                     \/ /\ lines'[r] = Fetching(lines[r], now) /\ IsNow(now)
                        /\ \E m \in ToSet(requests') :
                             m.kind = "lines" /\ m.stamp = now /\ r \in m.rows
                     \/ lines'[r] = MakeStale(lines[r])
                     \/ lines'[r] = Absent
                /\ r \notin Unsent(push) /\ r \notin DOMAIN push.bonus => lines'[r] = lines[r]
    BY <1>11, <1>17
<1> HIDE DEF asked
<1> QED BY <1>1, <1>4, <1>8, <1>14, <1>16, <1>18 DEF push

\* What painting does to every entry, and what it asks for.
LEMMA PaintApplied ==
    ASSUME Types, NEW first \in Nat, Paint(first), Viewport(first) \subseteq Rows
    PROVE  /\ UNCHANGED <<term, sent, due, scan, missed, replies, inbox, view, drops>>
           /\ lines' \in [Rows -> Entries]
           /\ requests' \in Seq(Requests) /\ ToSet(requests) \subseteq ToSet(requests')
           /\ \E now \in Stampset : \A r \in Rows :
                \/ lines'[r] = lines[r]
                \/ lines'[r] = MakeStale(lines[r])
                \/ /\ lines'[r] = Fetching(lines[r], now) /\ IsNow(now)
                   /\ \E m \in ToSet(requests') :
                        m.kind = "lines" /\ m.stamp = now /\ r \in m.rows
<1> DEFINE needed == {r \in Viewport(first) : Needed(lines[r])}
<1>1. /\ needed # {}
      /\ UNCHANGED <<term, sent, due, scan, missed, replies, inbox, view, drops>>
    BY DEF Paint, server
<1>2. PICK now \in Stampset :
        /\ IsNow(now)
        /\ lines' = [r \in Rows |->
               IF r \notin needed THEN lines[r]
               ELSE IF AheadOfClient(lines[r]) THEN MakeStale(lines[r])
               ELSE Fetching(lines[r], now)]
        /\ requests' = requests \o Fetch(needed, now)
    BY DEF Paint, Stampset
<1>3. lines \in [Rows -> Entries] /\ requests \in Seq(Requests) BY DEF Types
<1>4. needed \in SUBSET Rows OBVIOUS
<1> DEFINE request == [kind |-> "lines", rows |-> needed, stamp |-> now]
<1>5. Fetch(needed, now) = <<request>> /\ request.kind = "lines"
      /\ request.stamp = now /\ request.rows = needed
    BY <1>1 DEF Fetch
<1>6. Fetch(needed, now) \in Seq(Requests) BY <1>4, FetchType
<1> HIDE DEF needed
<1>7. request \in ToSet(Fetch(needed, now)) BY <1>5 DEF ToSet
<1> HIDE DEF request
<1>8. /\ requests' \in Seq(Requests)
      /\ ToSet(requests') = ToSet(requests) \cup ToSet(Fetch(needed, now))
    BY <1>2, <1>3, <1>6, ConcatAt
<1>9. \A r \in Rows :
                \/ lines'[r] = lines[r]
                \/ lines'[r] = MakeStale(lines[r])
                \/ /\ lines'[r] = Fetching(lines[r], now) /\ IsNow(now)
                   /\ \E m \in ToSet(requests') :
                        m.kind = "lines" /\ m.stamp = now /\ r \in m.rows
    BY <1>2, <1>5, <1>7, <1>8
<1>10. lines' \in [Rows -> Entries]
    <2>1. \A r \in Rows : lines'[r] \in Entries
        <3> SUFFICES ASSUME NEW r \in Rows PROVE lines'[r] \in Entries OBVIOUS
        <3>1. lines[r] \in Entries BY <1>3
        <3>2. Fetching(lines[r], now) \in Entries /\ MakeStale(lines[r]) \in Entries
            BY <3>1, EntryTypes, RowFacts
        <3> QED BY <1>9, <3>1, <3>2
    <2>2. lines' = [r \in Rows |-> lines'[r]] BY <1>2
    <2> QED BY <2>1, <2>2
<1> QED BY <1>1, <1>8, <1>9, <1>10

\* The views a window can ask to paint lie in the rows.
LEMMA PaintedRows ==
    ASSUME Types, NEW first \in 1..LastRow, first <= view.top
    PROVE  first \in Nat /\ Viewport(first) \subseteq Rows
<1>1. view.top \in Tops BY DEF Types
<1>2. first \in Tops BY <1>1, RowFacts DEF Tops
<1> QED BY <1>2, RowFacts DEF Tops

\* Stale and forgotten entries wait for nothing, and the others for what they did.
LEMMA EntryFetches ==
    ASSUME NEW e \in Entries
    PROVE  /\ Absent.fetch = 0 /\ MakeStale(e).fetch = 0
           /\ MakeAllStale(e).fetch \in {0, e.fetch}
           /\ \A v : Line(v).fetch = 0
           /\ \A now \in Stampset : Fetching(e, now).fetch = now
           /\ \A v, s : PutLine(e, v, s).fetch = IF e.fetch = s THEN 0 ELSE e.fetch
           /\ \A s : Unfetched(e, s).fetch = IF e.fetch = s THEN 0 ELSE e.fetch
BY DEF Entries, Absent, Line, Fetching, MakeStale, MakeAllStale, PutLine, Unfetched

\* The main thread applied the answer or the failure m: only the rows that waited
\* for it change.
LEMMA AnswerTaken ==
    ASSUME Types, ApplyLines \/ ApplyFailure
    PROVE  LET m == Head(inbox) IN
           /\ inbox # <<>> /\ inbox' = Tail(inbox) /\ m \in Answers \cup Failed
           /\ UNCHANGED <<term, sent, due, scan, missed, requests, replies, view, drops>>
           /\ lines' \in [Rows -> Entries]
           /\ \A r \in Rows :
                IF r \in m.rows /\ lines[r].fetch = m.stamp
                THEN lines'[r] = IF m.kind = "lines" THEN Line(m.found[r])
                                 ELSE [lines[r] EXCEPT !.fetch = 0]
                ELSE lines'[r] = lines[r]
<1> DEFINE m == Head(inbox)
<1>1. /\ inbox # <<>> /\ inbox' = Tail(inbox) /\ m.kind \in {"lines", "failed"}
      /\ UNCHANGED <<term, sent, due, scan, missed, requests, replies, view, drops>>
    BY DEF ApplyLines, ApplyFailure, Task, server
<1>2. m \in Tasks BY <1>1, TailAt DEF Types
<1>3. m \in Answers \cup Failed BY <1>1, <1>2, TaskFields
<1>4. lines \in [Rows -> Entries] BY DEF Types
<1>5. CASE ApplyLines
    <2>1. /\ m.kind = "lines"
          /\ lines' = [r \in Rows |-> IF r \in m.rows THEN PutLine(lines[r], m.found[r], m.stamp)
                              ELSE lines[r]]
        BY <1>5 DEF ApplyLines, Task
    <2>2. m.found \in [m.rows -> Nat] /\ m.stamp \in Stampset
        BY <1>2, <2>1, TaskFields, AnswerFields
    <2> HIDE DEF m
    <2>3. \A r \in Rows :
                IF r \in m.rows /\ lines[r].fetch = m.stamp
                THEN lines'[r] = Line(m.found[r]) ELSE lines'[r] = lines[r]
        BY <2>1 DEF PutLine
    <2>4. \A r \in Rows : lines'[r] \in Entries
        <3> SUFFICES ASSUME NEW r \in Rows PROVE lines'[r] \in Entries OBVIOUS
        <3>1. lines[r] \in Entries BY <1>4
        <3>2. r \in m.rows => Line(m.found[r]) \in Entries BY <2>2, <3>1, EntryTypes
        <3> QED BY <2>3, <3>1, <3>2
    <2>5. lines' = [r \in Rows |-> lines'[r]] BY <2>1
    <2>6. lines' \in [Rows -> Entries] BY <2>4, <2>5
    <2> QED BY <1>1, <1>3, <2>1, <2>3, <2>6 DEF m
<1>6. CASE ApplyFailure
    <2>1. /\ m.kind = "failed"
          /\ lines' = [r \in Rows |-> IF r \in m.rows THEN Unfetched(lines[r], m.stamp) ELSE lines[r]]
        BY <1>6 DEF ApplyFailure, Task
    <2>2. m.stamp \in Stampset BY <1>2, <2>1, TaskFields DEF Failed
    <2> HIDE DEF m
    <2>3. \A r \in Rows :
                IF r \in m.rows /\ lines[r].fetch = m.stamp
                THEN lines'[r] = [lines[r] EXCEPT !.fetch = 0] ELSE lines'[r] = lines[r]
        BY <2>1 DEF Unfetched
    <2>4. \A r \in Rows : lines'[r] \in Entries
        <3> SUFFICES ASSUME NEW r \in Rows PROVE lines'[r] \in Entries OBVIOUS
        <3>1. lines[r] \in Entries BY <1>4
        <3>2. Unfetched(lines[r], m.stamp) \in Entries BY <2>2, <3>1, EntryTypes
        <3> QED BY <2>1, <3>1, <3>2
    <2>5. lines' = [r \in Rows |-> lines'[r]] BY <2>1
    <2>6. lines' \in [Rows -> Entries] BY <2>4, <2>5
    <2> QED BY <1>1, <1>3, <2>1, <2>3, <2>6 DEF m
<1> QED BY <1>5, <1>6

\* A task that brings no answer is done: no fetch is lost.
LEMMA FetchedAfterTask ==
    ASSUME Types, inbox # <<>>, inbox' = Tail(inbox), UNCHANGED replies,
           ToSet(requests) \subseteq ToSet(requests')
    PROVE  \A s, r : Fetched(Messages, s, r) =>
                \/ Fetched(Messages', s, r)
                \/ /\ Head(inbox).kind \in {"lines", "failed"}
                   /\ Head(inbox).stamp = s /\ r \in Head(inbox).rows
<1>1. ToSet(inbox) = {Head(inbox)} \cup ToSet(inbox') BY TakeTask DEF Types
<1>2. \A m \in Messages : m \in Messages' \/ m = Head(inbox)
    BY <1>1 DEF Messages, InFlight
<1> QED BY <1>2 DEF Fetched

\* Steps of the client.
LEMMA ClientFetch ==
    ASSUME FetchInv,
           \/ Receive \/ Respawn \/ ApplyPush \/ ApplyPalette \/ ApplyLines
           \/ ApplyFailure \/ EndPoll \/ Poll
           \/ \E first \in 1..LastRow : first <= view.top /\ Paint(first)
    PROVE  FetchInv'
<1>1. /\ Types /\ FetchingIsOutstanding
      /\ requests \in Seq(Requests) /\ replies \in Seq(Written) /\ inbox \in Seq(Tasks)
      /\ lines \in [Rows -> Entries] /\ scan \in Scans \cup {NoScan}
      /\ view \in [seqno : Nat, top : Tops, cursor : Rows, polling : BOOLEAN]
    BY DEF FetchInv, Types
<1>2. \A r \in Rows : lines[r].fetch # 0 =>
            lines[r].fetch \in Stampset /\ Fetched(Messages, lines[r].fetch, r)
    BY <1>1, FetchingFacts, RowFacts DEF Entries, Stampset
<1>3. ASSUME Receive PROVE FetchInv'
    <2>1. /\ replies # <<>> /\ inbox' = Append(inbox, Head(replies)) /\ replies' = Tail(replies)
          /\ UNCHANGED <<term, sent, scan, requests, lines, view>>
        BY <1>3 DEF Receive, server, client
    <2>2. /\ replies' \in Seq(Written) /\ inbox' \in Seq(Tasks)
          /\ ToSet(inbox') \cup ToSet(replies') = ToSet(inbox) \cup ToSet(replies)
        BY <1>1, <2>1, HandOver
    <2>3. Messages' = Messages BY <2>1, <2>2 DEF Messages, InFlight
    <2>4. FetchingIsOutstanding' BY <1>1, <2>1, <2>3, FetchingKept
    <2>5. Types' BY <1>1, <2>1, <2>2 DEF Types
    <2> QED BY <2>4, <2>5 DEF FetchInv
<1>4. ASSUME Respawn PROVE FetchInv'
    <2> DEFINE m == Head(inbox)
               n == [m EXCEPT !.hop = 1]
    <2>1. /\ inbox # <<>> /\ m.kind \in {"push", "palette"}
          /\ inbox' = Append(Tail(inbox), n)
          /\ UNCHANGED <<term, sent, scan, requests, replies, lines, view>>
        BY <1>4 DEF Respawn, server, client
    <2>2. /\ m \in Tasks /\ Tail(inbox) \in Seq(Tasks)
          /\ ToSet(inbox) = {m} \cup ToSet(Tail(inbox))
        BY <1>1, <2>1, TailAt
    <2>3. m \in Pushes({0, 1}) \/ m \in Palettes({0, 1}) BY <2>1, <2>2, TaskFields
    <2>4. n \in Tasks BY <2>3 DEF Tasks, Pushes, Palettes
    <2> HIDE DEF m, n
    <2> DEFINE rest == Tail(inbox)
    <2>5. rest \in Seq(Tasks) /\ inbox' = Append(rest, n) BY <2>1, <2>2
    <2> HIDE DEF rest
    <2>6. inbox' \in Seq(Tasks) /\ ToSet(rest) \subseteq ToSet(inbox')
        BY <2>4, <2>5, AppendAt
    <2>7. inbox' \in Seq(Tasks) /\ ToSet(Tail(inbox)) \subseteq ToSet(inbox')
        BY <2>6 DEF rest
    <2>8. \A x \in Messages : x \in Messages' \/ x = m
        BY <2>1, <2>2, <2>7 DEF Messages, InFlight
    <2>9. \A s, r : Fetched(Messages, s, r) => Fetched(Messages', s, r)
        BY <2>1, <2>8 DEF Fetched
    <2>10. FetchingIsOutstanding' BY <1>1, <2>1, <2>9, FetchingKept
    <2>11. Types' BY <1>1, <2>1, <2>7 DEF Types
    <2> QED BY <2>10, <2>11 DEF FetchInv
<1>5. ASSUME ApplyPush PROVE FetchInv'
    <2> DEFINE push == Head(inbox)
    <2>1. /\ inbox # <<>> /\ push \in Pushes({0, 1}) /\ inbox' = Tail(inbox)
          /\ UNCHANGED <<term, sent, scan, replies>>
          /\ view' \in [seqno : Nat, top : Tops, cursor : Rows, polling : BOOLEAN]
          /\ lines' \in [Rows -> Entries]
          /\ requests' \in Seq(Requests) /\ ToSet(requests) \subseteq ToSet(requests')
        BY <1>1, <1>5, PushApplied
    <2>2. PICK now \in Stampset : \A r \in Rows :
                /\ r \in DOMAIN push.bonus => lines'[r] = Line(push.bonus[r])
                /\ r \in Unsent(push) /\ r \notin DOMAIN push.bonus =>
                     \/ /\ lines'[r] = Fetching(lines[r], now) /\ IsNow(now)
                        /\ \E m \in ToSet(requests') :
                             m.kind = "lines" /\ m.stamp = now /\ r \in m.rows
                     \/ lines'[r] = MakeStale(lines[r])
                     \/ lines'[r] = Absent
                /\ r \notin Unsent(push) /\ r \notin DOMAIN push.bonus => lines'[r] = lines[r]
        BY <1>1, <1>5, PushApplied
    <2>3. push.kind = "push" BY <2>1 DEF Pushes
    <2>4. \A s, r : Fetched(Messages, s, r) => Fetched(Messages', s, r)
        BY <1>1, <2>1, <2>3, FetchedAfterTask
    <2> HIDE DEF push
    <2>5. ToSet(requests') \subseteq Messages' BY DEF Messages
    <2>6. ASSUME NEW r \in Rows, lines'[r].fetch # 0
          PROVE  Fetched(Messages', lines'[r].fetch, r)
        <3>1. lines[r] \in Entries BY <1>1
        <3>2. CASE lines'[r] = lines[r] BY <1>2, <2>4, <2>6, <3>2
        <3>3. CASE /\ lines'[r] = Fetching(lines[r], now)
                   /\ \E m \in ToSet(requests') :
                             m.kind = "lines" /\ m.stamp = now /\ r \in m.rows
            <4>1. lines'[r].fetch = now BY <3>1, <3>3, EntryFetches
            <4> QED BY <2>5, <3>3, <4>1 DEF Fetched
        <3> QED BY <2>2, <2>6, <3>1, <3>2, <3>3, EntryFetches
    <2>7. FetchingIsOutstanding' BY <2>6 DEF FetchingIsOutstanding, Fetched, Messages
    <2>8. inbox' \in Seq(Tasks) BY <1>1, <2>1, TakeTask
    <2>9. Types' BY <1>1, <2>1, <2>8 DEF Types
    <2> QED BY <2>7, <2>9 DEF FetchInv
<1>6. ASSUME ApplyPalette PROVE FetchInv'
    <2>1. /\ inbox # <<>> /\ Head(inbox).kind = "palette" /\ inbox' = Tail(inbox)
          /\ lines' = [r \in Rows |-> MakeAllStale(lines[r])]
          /\ UNCHANGED <<term, sent, scan, requests, replies, view>>
        BY <1>6 DEF ApplyPalette, Task, server
    <2>2. \A s, r : Fetched(Messages, s, r) => Fetched(Messages', s, r)
        BY <1>1, <2>1, FetchedAfterTask
    <2>3. \A r \in Rows : lines'[r] \in Entries /\ lines'[r].fetch \in {0, lines[r].fetch}
        <3> SUFFICES ASSUME NEW r \in Rows
                     PROVE  lines'[r] \in Entries /\ lines'[r].fetch \in {0, lines[r].fetch}
            OBVIOUS
        <3>1. lines[r] \in Entries BY <1>1
        <3>2. MakeAllStale(lines[r]) \in Entries BY <3>1, EntryTypes, RowFacts DEF Stampset
        <3> QED BY <2>1, <3>1, <3>2, EntryFetches
    <2>4. \A r \in Rows : lines'[r].fetch # 0 => Fetched(Messages', lines'[r].fetch, r)
        BY <1>2, <2>2, <2>3
    <2>5. FetchingIsOutstanding' BY <2>4 DEF FetchingIsOutstanding, Fetched, Messages
    <2>6. inbox' \in Seq(Tasks) BY <1>1, <2>1, TakeTask
    <2>7. lines' \in [Rows -> Entries] BY <2>1, <2>3
    <2>8. Types' BY <1>1, <2>1, <2>6, <2>7 DEF Types
    <2> QED BY <2>5, <2>8 DEF FetchInv
<1>7. ASSUME ApplyLines \/ ApplyFailure PROVE FetchInv'
    <2> DEFINE m == Head(inbox)
    <2>1. /\ inbox # <<>> /\ inbox' = Tail(inbox) /\ m \in Answers \cup Failed
          /\ UNCHANGED <<term, sent, scan, requests, replies, view>>
          /\ lines' \in [Rows -> Entries]
          /\ \A r \in Rows :
                IF r \in m.rows /\ lines[r].fetch = m.stamp
                THEN lines'[r] = IF m.kind = "lines" THEN Line(m.found[r])
                                 ELSE [lines[r] EXCEPT !.fetch = 0]
                ELSE lines'[r] = lines[r]
        BY <1>1, <1>7, AnswerTaken
    <2>2. \A s, r : Fetched(Messages, s, r) =>
            Fetched(Messages', s, r) \/ (m.stamp = s /\ r \in m.rows)
        BY <1>1, <2>1, FetchedAfterTask
    <2> HIDE DEF m
    <2>3. ASSUME NEW r \in Rows, lines'[r].fetch # 0
          PROVE  Fetched(Messages', lines'[r].fetch, r)
        <3>1. CASE r \in m.rows /\ lines[r].fetch = m.stamp
            <4>1. lines'[r].fetch = 0 BY <1>1, <2>1, <3>1 DEF Line, Entries
            <4> QED BY <2>3, <4>1
        <3>2. CASE ~(r \in m.rows /\ lines[r].fetch = m.stamp)
            <4>1. lines'[r] = lines[r] BY <2>1, <3>2
            <4> QED BY <1>2, <2>2, <2>3, <3>2, <4>1
        <3> QED BY <3>1, <3>2
    <2>4. FetchingIsOutstanding' BY <2>3 DEF FetchingIsOutstanding, Fetched, Messages
    <2>5. inbox' \in Seq(Tasks) BY <1>1, <2>1, TakeTask
    <2>6. Types' BY <1>1, <2>1, <2>5 DEF Types
    <2> QED BY <2>4, <2>6 DEF FetchInv
<1>8. ASSUME EndPoll PROVE FetchInv'
    <2>1. /\ inbox # <<>> /\ Head(inbox).kind = "alive" /\ inbox' = Tail(inbox)
          /\ view' = [view EXCEPT !.polling = FALSE]
          /\ UNCHANGED <<term, sent, scan, requests, replies, lines>>
        BY <1>8 DEF EndPoll, Task, server
    <2>2. \A s, r : Fetched(Messages, s, r) => Fetched(Messages', s, r)
        BY <1>1, <2>1, FetchedAfterTask
    <2>3. FetchingIsOutstanding' BY <1>1, <2>1, <2>2, FetchingKept
    <2>4. inbox' \in Seq(Tasks) BY <1>1, <2>1, TakeTask
    <2>5. Types' BY <1>1, <2>1, <2>4 DEF Types
    <2> QED BY <2>3, <2>5 DEF FetchInv
<1>9. ASSUME Poll PROVE FetchInv'
    <2>1. /\ view' = [view EXCEPT !.polling = TRUE]
          /\ requests' = Append(requests, [kind |-> "poll"])
          /\ UNCHANGED <<term, sent, scan, inbox, replies, lines>>
        BY <1>9 DEF Poll, server
    <2> DEFINE poll == [kind |-> "poll"]
    <2>2. poll \in Requests BY DEF Requests
    <2> HIDE DEF poll
    <2>3. requests' = Append(requests, poll) BY <2>1 DEF poll
    <2>4. requests' \in Seq(Requests) /\ ToSet(requests) \subseteq ToSet(requests')
        BY <1>1, <2>2, <2>3, AppendAt
    <2>5. Messages \subseteq Messages' BY <2>1, <2>4 DEF Messages, InFlight
    <2>6. FetchingIsOutstanding' BY <1>1, <2>1, <2>5, MoreFetched, FetchingKept
    <2>7. Types' BY <1>1, <2>1, <2>4 DEF Types
    <2> QED BY <2>6, <2>7 DEF FetchInv
<1>10. ASSUME NEW first \in 1..LastRow, first <= view.top, Paint(first) PROVE FetchInv'
    <2>1. first \in Nat /\ Viewport(first) \subseteq Rows BY <1>1, <1>10, PaintedRows
    <2>2. /\ UNCHANGED <<term, sent, scan, replies, inbox, view>>
          /\ lines' \in [Rows -> Entries]
          /\ requests' \in Seq(Requests) /\ ToSet(requests) \subseteq ToSet(requests')
        BY <1>1, <1>10, <2>1, PaintApplied
    <2>3. PICK now \in Stampset : \A r \in Rows :
                \/ lines'[r] = lines[r]
                \/ lines'[r] = MakeStale(lines[r])
                \/ /\ lines'[r] = Fetching(lines[r], now) /\ IsNow(now)
                   /\ \E m \in ToSet(requests') :
                        m.kind = "lines" /\ m.stamp = now /\ r \in m.rows
        BY <1>1, <1>10, <2>1, PaintApplied
    <2>4. Messages \subseteq Messages' /\ ToSet(requests') \subseteq Messages'
        BY <2>2 DEF Messages, InFlight
    <2>5. \A s, r : Fetched(Messages, s, r) => Fetched(Messages', s, r)
        BY <2>4, MoreFetched
    <2>6. ASSUME NEW r \in Rows, lines'[r].fetch # 0
          PROVE  Fetched(Messages', lines'[r].fetch, r)
        <3>1. lines[r] \in Entries BY <1>1
        <3>2. CASE lines'[r] = lines[r] BY <1>2, <2>5, <2>6, <3>2
        <3>3. CASE /\ lines'[r] = Fetching(lines[r], now)
                   /\ \E m \in ToSet(requests') :
                             m.kind = "lines" /\ m.stamp = now /\ r \in m.rows
            <4>1. lines'[r].fetch = now BY <3>1, <3>3, EntryFetches
            <4> QED BY <2>4, <3>3, <4>1 DEF Fetched
        <3> QED BY <2>3, <2>6, <3>1, <3>2, <3>3, EntryFetches
    <2>7. FetchingIsOutstanding' BY <2>6 DEF FetchingIsOutstanding, Fetched, Messages
    <2>8. Types' BY <1>1, <2>2 DEF Types
    <2> QED BY <2>7, <2>8 DEF FetchInv
<1> QED BY <1>3, <1>4, <1>5, <1>6, <1>7, <1>8, <1>9, <1>10

\* What the client makes of the answers that were lost: a finite set, with a
\* failure for every fetch among them.
LEMMA FailuresType ==
    ASSUME NEW lost, IsFiniteSet(lost),
           \A m \in lost : m.kind = "lines" => m.rows \in SUBSET Rows /\ m.stamp \in Stampset
    PROVE  /\ IsFiniteSet(Failures(lost)) /\ Failures(lost) \subseteq Failed \cup Alive
           /\ \A m \in lost : m.kind = "lines" =>
                \E f \in Failures(lost) :
                    f.kind = "failed" /\ f.stamp = m.stamp /\ f.rows = m.rows
<1> DEFINE L == {x \in lost : x.kind = "lines"}
           P == {x \in lost : x.kind \in {"poll", "alive"}}
           F == {[kind |-> "failed", rows |-> m.rows, stamp |-> m.stamp] : m \in L}
           A == {[kind |-> "alive"] : m \in P}
<1>1. IsFiniteSet(L) /\ IsFiniteSet(P) BY FS_Subset
<1>2. IsFiniteSet(F)
    <2> DEFINE f == [m \in L |-> [kind |-> "failed", rows |-> m.rows, stamp |-> m.stamp]]
    <2>1. f \in Surjection(L, F) BY DEF Surjection
    <2> QED BY <1>1, <2>1, FS_Surjection
<1>3. IsFiniteSet(A)
    <2> DEFINE f == [m \in P |-> [kind |-> "alive"]]
    <2>1. f \in Surjection(P, A) BY DEF Surjection
    <2> QED BY <1>1, <2>1, FS_Surjection
<1>4. Failures(lost) = F \cup A BY DEF Failures
<1>5. F \subseteq Failed /\ A \subseteq Alive BY DEF Failed, Alive
<1>6. \A m \in lost : m.kind = "lines" =>
        \E f \in F : f.kind = "failed" /\ f.stamp = m.stamp /\ f.rows = m.rows
    <2> SUFFICES ASSUME NEW m \in lost, m.kind = "lines"
                 PROVE  \E f \in F : f.kind = "failed" /\ f.stamp = m.stamp /\ f.rows = m.rows
        OBVIOUS
    <2> DEFINE g == [kind |-> "failed", rows |-> m.rows, stamp |-> m.stamp]
    <2>1. g \in F OBVIOUS
    <2>2. g.kind = "failed" /\ g.stamp = m.stamp /\ g.rows = m.rows OBVIOUS
    <2> QED BY <2>1, <2>2
<1> HIDE DEF F, A
<1> QED BY <1>2, <1>3, <1>4, <1>5, <1>6, FS_Union

\* A lost connection: its answers become failures, in some order.
LEMMA ReconnectTypes ==
    ASSUME Types, Reconnect
    PROVE  /\ requests' \in Seq(Requests) /\ replies' = <<>>
           /\ sent' = NewPerPane /\ scan' = NoScan /\ missed' = {}
           /\ UNCHANGED <<term, lines, view>>
           /\ \E failures \in Seq(Tasks) :
                /\ inbox' = inbox \o failures
                /\ \A m \in ToSet(failures) : m.kind \in {"failed", "alive"}
                /\ \A m \in ToSet(requests) \cup ToSet(replies) : m.kind = "lines" =>
                    \/ m \in ToSet(requests')
                    \/ \E f \in ToSet(failures) :
                            f.kind = "failed" /\ f.stamp = m.stamp /\ f.rows = m.rows
<1>1. requests \in Seq(Requests) /\ replies \in Seq(Written) /\ scan \in Scans \cup {NoScan}
    BY DEF Types
<1>2. /\ replies' = <<>> /\ sent' = NewPerPane /\ scan' = NoScan /\ missed' = {}
      /\ UNCHANGED <<term, lines, view>>
    BY DEF Reconnect, client
<1>3. PICK written \in 0..Len(requests) :
       LET lost == ToSet(replies) \union {[kind |-> scan.by]}
                     \union ToSet(SubSeq(requests, 1, written))
       IN /\ requests' = SubSeq(requests, written + 1, Len(requests))
          /\ \E failures \in SetToSeqs(Failures(lost)) : inbox' = inbox \o failures
    BY DEF Reconnect
<1> DEFINE first == SubSeq(requests, 1, written)
           lost == ToSet(replies) \union {[kind |-> scan.by]} \union ToSet(first)
<1>4. Len(requests) \in Nat BY <1>1, LenProperties
<1>5. /\ first \in Seq(Requests) /\ requests' \in Seq(Requests)
      /\ ToSet(requests) \subseteq ToSet(first) \cup ToSet(requests')
    <2>1. /\ first \in Seq(Requests) /\ Len(first) = written
          /\ \A i \in 1..written : first[i] = requests[i]
        BY <1>1, <1>4, SubSeqProperties
    <2>2. /\ requests' \in Seq(Requests) /\ Len(requests') = Len(requests) - written
          /\ \A i \in 1..(Len(requests) - written) : requests'[i] = requests[written + i]
        BY <1>1, <1>3, <1>4, SubSeqProperties
    <2> HIDE DEF first
    <2>3. ASSUME NEW i \in 1..Len(requests)
          PROVE  requests[i] \in ToSet(first) \cup ToSet(requests')
        <3>1. CASE i <= written
            <4>1. i \in 1..Len(first) /\ requests[i] = first[i] BY <1>4, <2>1, <3>1
            <4> QED BY <2>1, <4>1, ToSetType
        <3>2. CASE i > written
            <4>1. i - written \in 1..Len(requests') /\ requests[i] = requests'[i - written]
                BY <1>4, <2>2, <3>2
            <4> QED BY <2>2, <4>1, ToSetType
        <3> QED BY <1>4, <3>1, <3>2
    <2>4. ASSUME NEW m \in ToSet(requests) PROVE m \in ToSet(first) \cup ToSet(requests')
        <3>1. PICK i \in 1..Len(requests) : m = requests[i] BY <1>1, ToSetType
        <3> QED BY <3>1, <2>3
    <2> QED BY <2>1, <2>2, <2>4
<1> HIDE DEF first
<1>6. ToSet(replies) \subseteq Written /\ IsFiniteSet(ToSet(replies))
      /\ ToSet(first) \subseteq Requests /\ IsFiniteSet(ToSet(first))
    BY <1>1, <1>5, ToSetType
<1>7. IsFiniteSet(lost)
    BY <1>6, FS_Union, FS_Singleton
<1>8. \A m \in lost : m.kind = "lines" => m.rows \in SUBSET Rows /\ m.stamp \in Stampset
    <2>1. \A m \in ToSet(replies) : m.kind = "lines" => m.rows \in SUBSET Rows /\ m.stamp \in Stampset
        BY <1>6, WrittenTasks, TaskFields, AnswerFields
    <2>2. \A m \in ToSet(first) : m.kind = "lines" => m.rows \in SUBSET Rows /\ m.stamp \in Stampset
        BY <1>6, RequestFields
    <2>3. scan.by # "lines" BY <1>1 DEF Scans, NoScan
    <2> QED BY <2>1, <2>2, <2>3
<1>9. PICK failures \in SetToSeqs(Failures(lost)) : inbox' = inbox \o failures
    BY <1>3 DEF first
<1>10. /\ ToSet(replies) \subseteq lost /\ ToSet(first) \subseteq lost OBVIOUS
<1> HIDE DEF lost
<1>11. /\ IsFiniteSet(Failures(lost)) /\ Failures(lost) \subseteq Failed \cup Alive
       /\ \A m \in lost : m.kind = "lines" =>
                \E f \in Failures(lost) :
                    f.kind = "failed" /\ f.stamp = m.stamp /\ f.rows = m.rows
    BY <1>7, <1>8, FailuresType
<1>12. failures \in Seq(Failures(lost)) /\ ToSet(failures) = Failures(lost)
    BY <1>11, OrderedSet
<1>13. Failures(lost) \subseteq Tasks BY <1>11 DEF Tasks
<1>14. failures \in Seq(Tasks) BY <1>12, <1>13, SeqDef
<1>15. \A m \in ToSet(failures) : m.kind \in {"failed", "alive"}
    BY <1>11, <1>12 DEF Failed, Alive
<1>16. \A m \in ToSet(requests) \cup ToSet(replies) : m.kind = "lines" =>
                    \/ m \in ToSet(requests')
                    \/ \E f \in ToSet(failures) :
                            f.kind = "failed" /\ f.stamp = m.stamp /\ f.rows = m.rows
    BY <1>5, <1>10, <1>11, <1>12
<1> QED BY <1>2, <1>5, <1>9, <1>14, <1>15, <1>16

LEMMA ReconnectFetch == ASSUME FetchInv, Reconnect PROVE FetchInv'
<1>1. /\ Types /\ FetchingIsOutstanding /\ inbox \in Seq(Tasks) /\ replies \in Seq(Written)
      /\ requests \in Seq(Requests) /\ lines \in [Rows -> Entries]
    BY DEF FetchInv, Types
<1>2. /\ requests' \in Seq(Requests) /\ replies' = <<>>
      /\ sent' = NewPerPane /\ scan' = NoScan /\ UNCHANGED <<term, lines, view>>
    BY <1>1, ReconnectTypes
<1>3. PICK failures \in Seq(Tasks) :
        /\ inbox' = inbox \o failures
        /\ \A m \in ToSet(requests) \cup ToSet(replies) : m.kind = "lines" =>
            \/ m \in ToSet(requests')
            \/ \E f \in ToSet(failures) :
                    f.kind = "failed" /\ f.stamp = m.stamp /\ f.rows = m.rows
    BY <1>1, ReconnectTypes
<1>4. inbox' \in Seq(Tasks) /\ ToSet(inbox') = ToSet(inbox) \cup ToSet(failures)
    BY <1>1, <1>3, ConcatAt
<1>5. \A m \in ToSet(requests) \cup ToSet(replies) : m.kind # "failed"
    <2>1. \A m \in ToSet(requests) : m.kind # "failed" BY <1>1, ToSetType, RequestFields
    <2>2. \A m \in ToSet(replies) : m.kind # "failed" BY <1>1, ToSetType, WrittenTasks
    <2> QED BY <2>1, <2>2
<1>6. \A s, r : Fetched(Messages, s, r) => Fetched(Messages', s, r)
    <2> SUFFICES ASSUME NEW s, NEW r, NEW m \in Messages,
                        m.kind \in {"lines", "failed"}, m.stamp = s, r \in m.rows
                 PROVE  \E n \in Messages' : n.kind \in {"lines", "failed"} /\ n.stamp = s /\ r \in n.rows
        BY DEF Fetched
    <2>1. ToSet(requests') \cup ToSet(inbox') \subseteq Messages'
        BY DEF Messages, InFlight
    <2>2. CASE m \in ToSet(inbox) BY <1>4, <2>1, <2>2
    <2>3. CASE m \in ToSet(requests) \cup ToSet(replies)
        <3>1. m.kind = "lines" BY <1>5, <2>3
        <3> QED BY <1>3, <1>4, <2>1, <2>3, <3>1
    <2> QED BY <2>2, <2>3 DEF Messages, InFlight
<1>7. FetchingIsOutstanding' BY <1>1, <1>2, <1>6, FetchingKept
<1>8. NewPerPane \in [seqno : Nat, top : Nat, cursor : Nat, palette : BOOLEAN]
    BY DEF NewPerPane
<1>9. replies' \in Seq(Written) BY <1>2, EmptySeq
<1>10. Types' BY <1>1, <1>2, <1>4, <1>8, <1>9 DEF Types
<1> QED BY <1>7, <1>10 DEF FetchInv

LEMMA FetchInvariant == Spec => []FetchInv
<1>1. Init => FetchInv
    <2> SUFFICES ASSUME Init PROVE FetchInv OBVIOUS
    <2>1. 0 \in 0..Stamps BY RowFacts
    <2>2. lines = [r \in Rows |-> IF r <= View THEN Line(1) ELSE Absent] BY DEF Init
    <2>3. lines \in [Rows -> Entries] BY <2>1, <2>2 DEF Entries, Line, Absent
    <2>4. \A r \in Rows : lines[r].fetch = 0 BY <2>2 DEF Line, Absent
    <2>5. FetchingIsOutstanding BY <2>4 DEF FetchingIsOutstanding
    <2>6. term \in [version : [Rows -> Nat], seqno : Nat, top : Tops, cursor : Rows]
        BY RowFacts DEF Init
    <2>7. /\ sent \in [seqno : Nat, top : Nat, cursor : Nat, palette : BOOLEAN]
          /\ view \in [seqno : Nat, top : Tops, cursor : Rows, polling : BOOLEAN]
        BY RowFacts DEF Init
    <2>8. requests = <<>> /\ replies = <<>> /\ inbox = <<>> /\ scan = NoScan BY DEF Init
    <2>9. Types BY <2>3, <2>6, <2>7, <2>8, EmptySeq DEF Types
    <2> QED BY <2>5, <2>9 DEF FetchInv
<1>2. ASSUME FetchInv, [Next]_vars PROVE FetchInv'
    <2>1. CASE (\E r, c \in Rows : Output(r, c))
               \/ Scroll \/ PushOutput \/ FinishPush \/ AnswerPoll \/ AnswerLines
        BY <1>2, <2>1, ServerFetch
    <2>2. CASE Receive \/ Respawn \/ ApplyPush \/ ApplyPalette \/ ApplyLines \/ ApplyFailure
               \/ EndPoll \/ Poll \/ \E first \in 1..LastRow : first <= view.top /\ Paint(first)
        BY <1>2, <2>2, ClientFetch
    <2>3. CASE Reconnect BY <1>2, <2>3, ReconnectFetch
    <2>4. CASE UNCHANGED vars
        BY <1>2, <2>4 DEF vars, FetchInv, Types, FetchingIsOutstanding, InFlight
    <2> QED BY <1>2, <2>1, <2>2, <2>3, <2>4 DEF Next
<1> QED BY <1>1, <1>2, PTL DEF Spec

\* No row waits for an answer that cannot come, whatever is fetched, pushed,
\* painted and lost, for any number of rows, requests and connections.
THEOREM FetchingCorrect == Spec => []FetchingIsOutstanding
<1>1. FetchInv => FetchingIsOutstanding BY DEF FetchInv
<1> QED BY <1>1, FetchInvariant, PTL

-------------------------------------------------------------------------------
(* Lines that are out of date *)

\* The push m tells the client that row r has come to version v.
Tells(m, r, v) ==
    /\ m.kind = "push"
    /\ r \in m.dirty \/ (r \in DOMAIN m.bonus /\ m.bonus[r] = v)

\* The task m will give the client, or leave it, another line for row r than v:
\* e is the entry of the row.
Old(m, r, v, e) ==
    \/ m.kind = "push" /\ r \in DOMAIN m.bonus /\ m.bonus[r] # v
    \/ m.kind = "lines" /\ r \in m.rows /\ m.found[r] # v
    \/ m.kind = "failed" /\ r \in m.rows /\ e.fetch = m.stamp /\ e.held # v

\* Task j is applied after task i, being a push: a push takes two turns of the
\* main thread, and goes behind all that waits on its first.
After(q, i, j) ==
    IF q[i].kind # "push" THEN j > i
    ELSE IF q[i].hop = 0 THEN j > i /\ q[j].hop = 0
    ELSE j > i \/ q[j].hop = 0

\* The rows a scan under way will push.
Scanned == IF scan = NoScan THEN {} ELSE scan.dirty \union {scan.cursor}

\* The next push tells of row r, which has come to version v.
Due(r, v, from, scanned) == v > from \/ r \in scanned

LinesOwed ==
    \A r \in Rows \ missed :
        IsLine(lines[r]) /\ lines[r].held # term.version[r] =>
            \/ Due(r, term.version[r], sent.seqno, Scanned)
            \/ \E j \in 1..Len(Coming) : Tells(Coming[j], r, term.version[r])

ComingOwed ==
    \A i \in 1..Len(Coming), r \in Rows \ missed :
        Old(Coming[i], r, term.version[r], lines[r]) =>
            \/ Due(r, term.version[r], sent.seqno, Scanned)
            \/ \E j \in 1..Len(Coming) :
                    After(Coming, i, j) /\ Tells(Coming[j], r, term.version[r])

\* No message is newer than the terminal.
Aged(m, version) ==
    /\ m.kind = "push" => \A r \in DOMAIN m.bonus : m.bonus[r] <= version[r]
    /\ m.kind = "lines" => \A r \in m.rows : m.found[r] <= version[r]

\* Nothing the client or the server knows is newer than the terminal, and a scan
\* under way has seen every row that changed before it and was not pushed.
Versioned ==
    /\ sent.seqno <= term.seqno
    /\ \A r \in Rows : /\ term.version[r] <= term.seqno
                       /\ term.version[r] > 0 => r \in Existing(term)
                       /\ lines[r].held <= term.version[r]
    /\ \A i \in 1..Len(Coming) : Aged(Coming[i], term.version)
    /\ scan # NoScan =>
        /\ scan.seqno <= term.seqno
        /\ \A r \in Rows : term.version[r] > sent.seqno =>
                r \in scan.dirty \/ term.version[r] > scan.seqno

\* The first d of the tasks are done and others come behind, and the rows of T
\* are due or told of behind: what was owed still is.
LEMMA OwedKept ==
    ASSUME LinesOwed, ComingOwed, Coming \in Seq(Tasks), Coming' \in Seq(Tasks),
           NEW d \in {0, 1}, d <= Len(Coming), Len(Coming') >= Len(Coming) - d,
           \A i \in 1..(Len(Coming) - d) : Coming'[i] = Coming[i + d],
           d = 1 => ~(Coming[1].kind = "push" /\ Coming[1].hop = 0),
           NEW T,
           \A r \in T : \/ Due(r, term'.version[r], sent'.seqno, Scanned')
                        \/ \E j \in 1..Len(Coming') :
                            /\ j > Len(Coming) - d /\ Coming'[j].hop = 0
                            /\ Tells(Coming'[j], r, term'.version[r]),
           \A r \in Rows \ missed' : r \notin missed =>
                /\ Due(r, term.version[r], sent.seqno, Scanned) => r \in T
                /\ r \in T \/ term'.version[r] = term.version[r],
           \A i \in 1..Len(Coming), r \in Rows \ missed' :
                Old(Coming[i], r, term'.version[r], lines'[r]) =>
                    r \in T \/ (r \notin missed /\ Old(Coming[i], r, term.version[r], lines[r])),
           \A j \in 1..Len(Coming'), r \in Rows \ missed' : j > Len(Coming) - d =>
                ~Old(Coming'[j], r, term'.version[r], lines'[r]),
           \A r \in Rows \ missed' :
                IsLine(lines'[r]) /\ lines'[r].held # term'.version[r] =>
                    \/ r \in T
                    \/ /\ r \notin missed
                       /\ \E j \in 1..Len(Coming) : j > d /\ Tells(Coming[j], r, term.version[r])
    PROVE  LinesOwed' /\ ComingOwed'
<1>1. Len(Coming) \in Nat /\ Len(Coming') \in Nat BY LenProperties
<1>2. ASSUME NEW k \in 1..Len(Coming), k > d
      PROVE  /\ k - d \in 1..(Len(Coming) - d) /\ k - d \in 1..Len(Coming')
             /\ Coming'[k - d] = Coming[k]
    <2>1. /\ k - d \in 1..(Len(Coming) - d) /\ k - d \in 1..Len(Coming') /\ (k - d) + d = k
        BY <1>1, <1>2
    <2> QED BY <2>1
<1>3. LinesOwed'
    <2> SUFFICES ASSUME NEW r \in Rows \ missed',
                        IsLine(lines'[r]), lines'[r].held # term'.version[r]
                 PROVE  \/ Due(r, term'.version[r], sent'.seqno, Scanned')
                        \/ \E j \in 1..Len(Coming') : Tells(Coming'[j], r, term'.version[r])
        BY DEF LinesOwed
    <2>1. CASE r \in T BY <2>1
    <2>2. CASE r \notin T
        <3>1. r \notin missed /\ term'.version[r] = term.version[r] BY <2>2
        <3>2. PICK k \in 1..Len(Coming) : k > d /\ Tells(Coming[k], r, term.version[r])
            BY <2>2
        <3>3. k - d \in 1..Len(Coming') /\ Coming'[k - d] = Coming[k] BY <1>2, <3>2
        <3> QED BY <3>1, <3>2, <3>3
    <2> QED BY <2>1, <2>2
<1>4. ComingOwed'
    <2> SUFFICES ASSUME NEW i \in 1..Len(Coming'), NEW r \in Rows \ missed',
                    Old(Coming'[i], r, term'.version[r], lines'[r])
             PROVE  \/ Due(r, term'.version[r], sent'.seqno, Scanned')
                    \/ \E j \in 1..Len(Coming') :
                        After(Coming', i, j) /\ Tells(Coming'[j], r, term'.version[r])
        BY DEF ComingOwed
    <2>1. i \in 1..(Len(Coming) - d) /\ i + d \in 1..Len(Coming) BY <1>1
    <2>2. Coming'[i] = Coming[i + d] BY <2>1
    <2>3. CASE r \in T
        <3>1. ASSUME NEW j \in 1..Len(Coming'), j > Len(Coming) - d, Coming'[j].hop = 0
              PROVE  After(Coming', i, j)
            BY <1>1, <2>1, <3>1 DEF After
        <3> QED BY <2>3, <3>1
    <2>4. CASE r \notin T
        <3>1. r \notin missed /\ Old(Coming[i + d], r, term.version[r], lines[r])
            BY <2>1, <2>2, <2>4
        <3>2. PICK k \in 1..Len(Coming) :
                After(Coming, i + d, k) /\ Tells(Coming[k], r, term.version[r])
            BY <2>1, <2>4, <3>1 DEF ComingOwed
        <3>3. Tells(Coming[k], r, term'.version[r]) BY <2>4, <3>1, <3>2
        <3>4. CASE k > d
            <4>1. /\ k - d \in 1..Len(Coming') /\ Coming'[k - d] = Coming[k]
                BY <1>2, <3>4
            <4>2. k > i + d => k - d > i BY <1>1
            <4>3. After(Coming', i, k - d) BY <2>2, <3>2, <4>1, <4>2 DEF After
            <4> QED BY <3>3, <4>1, <4>3
        <3>5. CASE k <= d
            <4>1. k = 1 /\ d = 1 /\ ~(k > i + d) BY <1>1, <3>5
            <4>2. Coming[i + d].kind = "push" /\ Coming[i + d].hop # 0 /\ Coming[k].hop = 0
                BY <3>2, <4>1 DEF After
            <4>3. Coming[1].kind = "push" /\ Coming[1].hop = 0 BY <3>3, <4>1, <4>2 DEF Tells
            <4> QED BY <4>1, <4>3
        <3> QED BY <1>1, <3>4, <3>5
    <2> QED BY <2>3, <2>4
<1> QED BY <1>3, <1>4

\* Nothing is done and tasks come behind.
LEMMA OwedGrown ==
    ASSUME LinesOwed, ComingOwed, Coming \in Seq(Tasks), Coming' \in Seq(Tasks),
           Len(Coming') >= Len(Coming), \A i \in 1..Len(Coming) : Coming'[i] = Coming[i],
           NEW T,
           \A r \in T : \/ Due(r, term'.version[r], sent'.seqno, Scanned')
                        \/ \E j \in 1..Len(Coming') :
                            /\ j > Len(Coming) /\ Coming'[j].hop = 0
                            /\ Tells(Coming'[j], r, term'.version[r]),
           \A r \in Rows \ missed' : r \notin missed =>
                /\ Due(r, term.version[r], sent.seqno, Scanned) => r \in T
                /\ r \in T \/ term'.version[r] = term.version[r],
           \A i \in 1..Len(Coming), r \in Rows \ missed' :
                Old(Coming[i], r, term'.version[r], lines'[r]) =>
                    r \in T \/ (r \notin missed /\ Old(Coming[i], r, term.version[r], lines[r])),
           \A j \in 1..Len(Coming'), r \in Rows \ missed' : j > Len(Coming) =>
                ~Old(Coming'[j], r, term'.version[r], lines'[r]),
           \A r \in Rows \ missed' :
                IsLine(lines'[r]) /\ lines'[r].held # term'.version[r] =>
                    \/ r \in T
                    \/ /\ r \notin missed
                       /\ IsLine(lines[r]) /\ lines[r].held # term.version[r]
    PROVE  LinesOwed' /\ ComingOwed'
<1> DEFINE d == 0
<1>1. Len(Coming) \in Nat /\ Len(Coming') \in Nat BY LenProperties
<1>2. d \in {0, 1} /\ d <= Len(Coming) /\ Len(Coming) - d = Len(Coming) /\ d # 1 BY <1>1
<1>3. \A i \in 1..Len(Coming) : i + d = i /\ i > d BY <1>1
<1> HIDE DEF d
<1>4. /\ Len(Coming') >= Len(Coming) - d
      /\ \A i \in 1..(Len(Coming) - d) : Coming'[i] = Coming[i + d]
      /\ d = 1 => ~(Coming[1].kind = "push" /\ Coming[1].hop = 0)
    BY <1>2, <1>3
<1>5. \A r \in T : \/ Due(r, term'.version[r], sent'.seqno, Scanned')
                   \/ \E j \in 1..Len(Coming') :
                            /\ j > Len(Coming) - d /\ Coming'[j].hop = 0
                            /\ Tells(Coming'[j], r, term'.version[r])
    BY <1>2
<1>6. \A j \in 1..Len(Coming'), r \in Rows \ missed' : j > Len(Coming) - d =>
                ~Old(Coming'[j], r, term'.version[r], lines'[r])
    BY <1>2
<1>7. \A r \in Rows \ missed' :
                IsLine(lines'[r]) /\ lines'[r].held # term'.version[r] =>
                    \/ r \in T
                    \/ /\ r \notin missed
                       /\ \E j \in 1..Len(Coming) : j > d /\ Tells(Coming[j], r, term.version[r])
    BY <1>3 DEF LinesOwed
<1> QED BY <1>2, <1>4, <1>5, <1>6, <1>7, OwedKept

\* The first task is done and what is due stays as it was.
LEMMA OwedTaken ==
    ASSUME LinesOwed, ComingOwed, Coming \in Seq(Tasks), Coming' \in Seq(Tasks),
           Len(Coming) \in Nat \ {0}, Len(Coming') = Len(Coming) - 1,
           \A i \in 1..(Len(Coming) - 1) : Coming'[i] = Coming[i + 1],
           ~(Coming[1].kind = "push" /\ Coming[1].hop = 0),
           UNCHANGED <<term, sent, scan, missed>>,
           \A i \in 1..Len(Coming), r \in Rows \ missed :
                Old(Coming[i], r, term.version[r], lines'[r]) =>
                    Old(Coming[i], r, term.version[r], lines[r]),
           \A r \in Rows \ missed :
                IsLine(lines'[r]) /\ lines'[r].held # term.version[r] =>
                    \/ Old(Coming[1], r, term.version[r], lines[r])
                    \/ /\ IsLine(lines[r]) /\ lines[r].held # term.version[r]
                       /\ ~Tells(Coming[1], r, term.version[r])
    PROVE  LinesOwed' /\ ComingOwed'
<1> DEFINE d == 1
           T == {r \in Rows : Due(r, term.version[r], sent.seqno, Scanned)}
<1>1. /\ d \in {0, 1} /\ d <= Len(Coming) /\ Len(Coming') >= Len(Coming) - d
      /\ \A i \in 1..(Len(Coming) - d) : Coming'[i] = Coming[i + d]
      /\ d = 1 => ~(Coming[1].kind = "push" /\ Coming[1].hop = 0)
    OBVIOUS
<1>2. Scanned' = Scanned BY DEF Scanned
<1>3. \A r \in T : Due(r, term'.version[r], sent'.seqno, Scanned') BY <1>2
<1>4. \A r \in Rows \ missed' : Due(r, term.version[r], sent.seqno, Scanned) => r \in T
    OBVIOUS
<1>5. \A j \in 1..Len(Coming') : ~(j > Len(Coming) - d) OBVIOUS
<1>6. 1 \in 1..Len(Coming) OBVIOUS
<1>7. \A j \in 1..Len(Coming) : j # 1 => j > d OBVIOUS
<1>8. \A r \in Rows \ missed' :
                IsLine(lines'[r]) /\ lines'[r].held # term'.version[r] =>
                    \/ r \in T
                    \/ /\ r \notin missed
                       /\ \E j \in 1..Len(Coming) : j > d /\ Tells(Coming[j], r, term.version[r])
    <2> SUFFICES ASSUME NEW r \in Rows \ missed, r \notin T,
                        IsLine(lines'[r]), lines'[r].held # term.version[r]
                 PROVE  \E j \in 1..Len(Coming) : j > d /\ Tells(Coming[j], r, term.version[r])
        OBVIOUS
    <2>1. ~Due(r, term.version[r], sent.seqno, Scanned) OBVIOUS
    <2> HIDE DEF T, d
    <2>2. CASE Old(Coming[1], r, term.version[r], lines[r])
        <3>1. PICK j \in 1..Len(Coming) :
                After(Coming, 1, j) /\ Tells(Coming[j], r, term.version[r])
            BY <1>6, <2>1, <2>2 DEF ComingOwed
        <3>2. j # 1 BY <3>1 DEF After
        <3> QED BY <1>7, <3>1, <3>2
    <2>3. CASE /\ IsLine(lines[r]) /\ lines[r].held # term.version[r]
               /\ ~Tells(Coming[1], r, term.version[r])
        <3>1. PICK j \in 1..Len(Coming) : Tells(Coming[j], r, term.version[r])
            BY <2>1, <2>3 DEF LinesOwed
        <3> QED BY <1>7, <2>3, <3>1
    <2> QED BY <2>2, <2>3
<1> HIDE DEF T, d
<1> QED BY <1>1, <1>3, <1>4, <1>5, <1>8, OwedKept

\* A row changes: the next push tells of it.
LEMMA ChangedOwed ==
    ASSUME Types, Versioned, LinesOwed, ComingOwed, NEW row \in Rows,
           term'.version = [term.version EXCEPT ![row] = term.seqno + 1],
           UNCHANGED <<sent, scan, replies, inbox, lines>>,
           missed' \in {missed, missed \ {row}}
    PROVE  LinesOwed' /\ ComingOwed'
<1>1. /\ term.version \in [Rows -> Nat] /\ term.seqno \in Nat /\ sent.seqno \in Nat
      /\ inbox \in Seq(Tasks) /\ replies \in Seq(Written) /\ replies \in Seq(Tasks)
    BY WrittenTasks, SeqDef DEF Types
<1>2. Coming \in Seq(Tasks) /\ Coming' = Coming BY <1>1, ConcatAt DEF Coming
<1>3. Len(Coming) \in Nat BY <1>2, LenProperties
<1> HIDE DEF Coming
<1> DEFINE T == {r \in Rows : Due(r, term'.version[r], sent'.seqno, Scanned')}
<1>4. term'.version[row] > sent'.seqno
    <2>1. sent.seqno <= term.seqno BY DEF Versioned
    <2> QED BY <1>1, <2>1
<1>5. row \in T BY <1>4 DEF Due
<1>6. \A r \in Rows : r # row => term'.version[r] = term.version[r] BY <1>1
<1>7. Scanned' = Scanned BY DEF Scanned
<1>8. \A r \in Rows : r # row /\ Due(r, term.version[r], sent.seqno, Scanned) => r \in T
    BY <1>6, <1>7
<1>9. \A r \in Rows \ missed' : r # row => r \notin missed OBVIOUS
<1>10. \A r \in T : Due(r, term'.version[r], sent'.seqno, Scanned') OBVIOUS
<1> HIDE DEF T
<1>11. \A r \in Rows \ missed' : r \notin missed =>
                /\ Due(r, term.version[r], sent.seqno, Scanned) => r \in T
                /\ r \in T \/ term'.version[r] = term.version[r]
    BY <1>5, <1>6, <1>8
<1>12. \A i \in 1..Len(Coming), r \in Rows \ missed' :
                Old(Coming[i], r, term'.version[r], lines'[r]) =>
                    r \in T \/ (r \notin missed /\ Old(Coming[i], r, term.version[r], lines[r]))
    BY <1>5, <1>6, <1>9
<1>13. \A r \in Rows \ missed' :
                IsLine(lines'[r]) /\ lines'[r].held # term'.version[r] =>
                    \/ r \in T
                    \/ /\ r \notin missed
                       /\ IsLine(lines[r]) /\ lines[r].held # term.version[r]
    BY <1>5, <1>6, <1>9
<1>14. /\ Len(Coming') >= Len(Coming) /\ \A j \in 1..Len(Coming') : ~(j > Len(Coming))
       /\ \A i \in 1..Len(Coming) : Coming'[i] = Coming[i]
    BY <1>2, <1>3
<1> QED BY <1>2, <1>10, <1>11, <1>12, <1>13, <1>14, OwedGrown

\* The versions stay in step.
LEMMA ChangedVersions ==
    ASSUME Types, Versioned, NEW row \in Rows,
           term'.version = [term.version EXCEPT ![row] = term.seqno + 1],
           term'.seqno = term.seqno + 1, term'.top >= term.top, term'.top \in Nat,
           row \in Existing(term'), UNCHANGED <<sent, scan, replies, inbox, lines>>
    PROVE  Versioned'
<1>1. /\ term.version \in [Rows -> Nat] /\ term.seqno \in Nat /\ sent.seqno \in Nat
      /\ term.top \in Tops /\ lines \in [Rows -> Entries] /\ scan \in Scans \cup {NoScan}
      /\ inbox \in Seq(Tasks) /\ replies \in Seq(Tasks)
    BY WrittenTasks, SeqDef DEF Types
<1>2. Coming \in Seq(Tasks) /\ Coming' = Coming BY <1>1, ConcatAt DEF Coming
<1> HIDE DEF Coming
<1>3. \A r \in Rows : /\ term.version[r] <= term'.version[r] /\ term'.version[r] <= term'.seqno
                      /\ r # row => term'.version[r] = term.version[r]
                      /\ term'.version[r] \in Nat /\ term.version[r] \in Nat
    BY <1>1 DEF Versioned
<1>4. Existing(term) \subseteq Existing(term')
    <2>1. term.top \in Nat /\ View \in Nat BY <1>1, RowFacts DEF Tops
    <2> QED BY <2>1 DEF Existing
<1>5. \A r \in Rows : /\ term'.version[r] <= term'.seqno
                      /\ term'.version[r] > 0 => r \in Existing(term')
                      /\ lines'[r].held <= term'.version[r]
    <2> SUFFICES ASSUME NEW r \in Rows
                 PROVE  /\ term'.version[r] > 0 => r \in Existing(term')
                        /\ lines'[r].held <= term'.version[r]
        BY <1>3
    <2>1. lines[r].held \in Nat BY <1>1 DEF Entries
    <2>2. lines[r].held <= term.version[r] /\ (term.version[r] > 0 => r \in Existing(term))
        BY DEF Versioned
    <2> QED BY <1>3, <1>4, <2>1, <2>2
<1>6. \A i \in 1..Len(Coming') : Aged(Coming'[i], term'.version)
    <2> SUFFICES ASSUME NEW i \in 1..Len(Coming) PROVE Aged(Coming[i], term'.version)
        BY <1>2
    <2> DEFINE m == Coming[i]
    <2>1. m \in Tasks /\ Aged(m, term.version) BY <1>2, ElementOfSeq DEF Versioned
    <2> HIDE DEF m
    <2>2. ASSUME m.kind = "push", NEW r \in DOMAIN m.bonus
          PROVE  m.bonus[r] <= term'.version[r]
        <3>1. m.bonus[r] \in Nat /\ r \in Rows BY <2>1, <2>2, TaskFields, PushFields
        <3> QED BY <1>3, <2>1, <2>2, <3>1 DEF Aged
    <2>3. ASSUME m.kind = "lines", NEW r \in m.rows
          PROVE  m.found[r] <= term'.version[r]
        <3>1. m.found[r] \in Nat /\ r \in Rows BY <2>1, <2>3, TaskFields, AnswerFields
        <3> QED BY <1>3, <2>1, <2>3, <3>1 DEF Aged
    <2>4. Aged(m, term'.version) BY <2>2, <2>3 DEF Aged
    <2> QED BY <2>4 DEF m
<1>7. ASSUME scan' # NoScan
      PROVE  /\ scan'.seqno <= term'.seqno
             /\ \A r \in Rows : term'.version[r] > sent'.seqno =>
                r \in scan'.dirty \/ term'.version[r] > scan'.seqno
    <2>1. scan.seqno \in Nat BY <1>1, <1>7 DEF Scans
    <2>2. /\ scan.seqno <= term.seqno
          /\ \A r \in Rows : term.version[r] > sent.seqno =>
                r \in scan.dirty \/ term.version[r] > scan.seqno
        BY <1>7 DEF Versioned
    <2>3. term'.version[row] > scan.seqno BY <1>1, <2>1, <2>2
    <2> QED BY <1>1, <1>3, <2>1, <2>2, <2>3
<1>8. sent'.seqno <= term'.seqno BY <1>1 DEF Versioned
<1> QED BY <1>5, <1>6, <1>7, <1>8 DEF Versioned

\* The server writes messages that are up to date, and what was due is due or
\* among them.
LEMMA WrittenOwed ==
    ASSUME Types, Versioned, LinesOwed, ComingOwed, NEW more \in Seq(Written),
           replies' = replies \o more, UNCHANGED <<term, inbox, lines>>,
           \A i \in 1..Len(more) : Aged(more[i], term.version),
           \A i \in 1..Len(more), r \in Rows : ~Old(more[i], r, term.version[r], lines[r]),
           \A r \in Rows \ missed' :
                r \in missed \/ Due(r, term.version[r], sent.seqno, Scanned) =>
                    \/ Due(r, term.version[r], sent'.seqno, Scanned')
                    \/ \E i \in 1..Len(more) :
                            more[i].hop = 0 /\ Tells(more[i], r, term.version[r])
    PROVE  /\ LinesOwed' /\ ComingOwed'
           /\ \A i \in 1..Len(Coming') : Aged(Coming'[i], term'.version)
<1>1. inbox \in Seq(Tasks) /\ replies \in Seq(Written) BY DEF Types
<1>2. /\ Coming \in Seq(Tasks) /\ Coming' \in Seq(Tasks)
      /\ Len(Coming') = Len(Coming) + Len(more)
      /\ \A i \in 1..Len(Coming) : Coming'[i] = Coming[i]
      /\ \A i \in 1..Len(more) : Coming'[Len(Coming) + i] = more[i]
    BY <1>1, WriteMore
<1>3. Len(Coming) \in Nat /\ Len(more) \in Nat BY <1>2, LenProperties
<1> HIDE DEF Coming
<1> DEFINE T == {r \in Rows :
                    \/ Due(r, term.version[r], sent'.seqno, Scanned')
                    \/ \E i \in 1..Len(more) :
                            more[i].hop = 0 /\ Tells(more[i], r, term.version[r])}
<1>4. ASSUME NEW j \in 1..Len(Coming'), j > Len(Coming)
      PROVE  \E i \in 1..Len(more) : j = Len(Coming) + i /\ Coming'[j] = more[i]
    <2>1. j - Len(Coming) \in 1..Len(more) /\ j = Len(Coming) + (j - Len(Coming))
        BY <1>2, <1>3, <1>4
    <2> QED BY <1>2, <2>1
<1>5. ASSUME NEW i \in 1..Len(more)
      PROVE  Len(Coming) + i \in 1..Len(Coming') /\ Len(Coming) + i > Len(Coming)
    BY <1>2, <1>3
<1>6. \A r \in T : \/ Due(r, term'.version[r], sent'.seqno, Scanned')
                   \/ \E j \in 1..Len(Coming') :
                            /\ j > Len(Coming) /\ Coming'[j].hop = 0
                            /\ Tells(Coming'[j], r, term'.version[r])
    <2> SUFFICES ASSUME NEW r \in T, NEW i \in 1..Len(more),
                        more[i].hop = 0 /\ Tells(more[i], r, term.version[r])
                 PROVE  \E j \in 1..Len(Coming') :
                            /\ j > Len(Coming) /\ Coming'[j].hop = 0
                            /\ Tells(Coming'[j], r, term'.version[r])
        OBVIOUS
    <2>1. Coming'[Len(Coming) + i] = more[i] BY <1>2
    <2> QED BY <1>5, <2>1
<1>7. \A r \in Rows \ missed' :
            r \in missed \/ Due(r, term.version[r], sent.seqno, Scanned) => r \in T
    OBVIOUS
<1>8. \A j \in 1..Len(Coming'), r \in Rows \ missed' : j > Len(Coming) =>
            ~Old(Coming'[j], r, term'.version[r], lines'[r])
    BY <1>4
<1> HIDE DEF T
<1>9. /\ \A r \in Rows \ missed' : r \notin missed =>
                /\ Due(r, term.version[r], sent.seqno, Scanned) => r \in T
                /\ r \in T \/ term'.version[r] = term.version[r]
      /\ \A i \in 1..Len(Coming), r \in Rows \ missed' :
                Old(Coming[i], r, term'.version[r], lines'[r]) =>
                    r \in T \/ (r \notin missed /\ Old(Coming[i], r, term.version[r], lines[r]))
      /\ \A r \in Rows \ missed' :
                IsLine(lines'[r]) /\ lines'[r].held # term'.version[r] =>
                    \/ r \in T
                    \/ /\ r \notin missed
                       /\ IsLine(lines[r]) /\ lines[r].held # term.version[r]
    BY <1>7
<1>10. Len(Coming') >= Len(Coming) BY <1>2, <1>3
<1>11. LinesOwed' /\ ComingOwed' BY <1>2, <1>6, <1>8, <1>9, <1>10, OwedGrown
<1>12. \A i \in 1..Len(Coming') : Aged(Coming'[i], term'.version)
    <2> SUFFICES ASSUME NEW i \in 1..Len(Coming') PROVE Aged(Coming'[i], term.version)
        OBVIOUS
    <2>1. CASE i > Len(Coming) BY <1>4, <2>1
    <2>2. CASE ~(i > Len(Coming))
        <3>1. i \in 1..Len(Coming) BY <1>3, <2>2
        <3> QED BY <1>2, <3>1 DEF Versioned
    <2> QED BY <2>1, <2>2
<1> QED BY <1>11, <1>12

StaleInv == FetchInv /\ Versioned /\ LinesOwed /\ ComingOwed

LEMMA TerminalOwed ==
    ASSUME StaleInv, (\E r, c \in Rows : Output(r, c)) \/ Scroll
    PROVE  Versioned' /\ LinesOwed' /\ ComingOwed'
<1>1. Types /\ Versioned /\ LinesOwed /\ ComingOwed BY DEF StaleInv, FetchInv
<1>2. /\ term \in [version : [Rows -> Nat], seqno : Nat, top : Tops, cursor : Rows]
      /\ term.top \in Nat /\ View \in Nat \ {0}
    BY <1>1, RowFacts DEF Types, Tops
<1>3. ASSUME NEW r \in Rows, NEW c \in Rows, Output(r, c)
      PROVE  Versioned' /\ LinesOwed' /\ ComingOwed'
    <2>1. /\ UNCHANGED <<sent, scan, replies, inbox, lines>> /\ missed' = missed \ {r}
          /\ r \in Viewport(term.top)
        BY <1>3 DEF Output, client
    <2>2. /\ term'.version = [term.version EXCEPT ![r] = term.seqno + 1]
          /\ term'.seqno = term.seqno + 1 /\ term'.top = term.top
        BY <1>2, <1>3 DEF Output
    <2>3. r \in Existing(term') BY <1>2, <2>1, <2>2 DEF Viewport, Existing, Rows
    <2>4. Versioned' BY <1>1, <1>2, <2>1, <2>2, <2>3, ChangedVersions
    <2>5. LinesOwed' /\ ComingOwed' BY <1>1, <2>1, <2>2, ChangedOwed
    <2> QED BY <2>4, <2>5
<1>4. ASSUME Scroll PROVE Versioned' /\ LinesOwed' /\ ComingOwed'
    <2> DEFINE new == term.top + View
    <2>1. UNCHANGED <<sent, scan, replies, inbox, lines, missed>>
        BY <1>4 DEF Scroll, client
    <2>2. /\ new <= LastRow
          /\ term'.version = [term.version EXCEPT ![new] = term.seqno + 1]
          /\ term'.seqno = term.seqno + 1 /\ term'.top = term.top + 1
        BY <1>4 DEF Scroll
    <2>3. new \in Rows BY <1>2, <2>2, RowFacts DEF Rows
    <2>4. new \in Existing(term') BY <1>2, <2>2 DEF Existing
    <2> HIDE DEF new
    <2>5. term'.top >= term.top /\ term'.top \in Nat BY <1>2, <2>2
    <2>6. Versioned' BY <1>1, <2>1, <2>2, <2>3, <2>4, <2>5, ChangedVersions
    <2>7. LinesOwed' /\ ComingOwed' BY <1>1, <2>1, <2>2, <2>3, ChangedOwed
    <2> QED BY <2>6, <2>7
<1> QED BY <1>1, <1>3, <1>4

LEMMA VersionsKept ==
    ASSUME Versioned, UNCHANGED <<term, lines>>, sent'.seqno <= term.seqno,
           \A i \in 1..Len(Coming') : Aged(Coming'[i], term'.version),
           scan' # NoScan =>
                /\ scan'.seqno <= term.seqno
                /\ \A r \in Rows : term.version[r] > sent'.seqno =>
                        r \in scan'.dirty \/ term.version[r] > scan'.seqno
    PROVE  Versioned'
BY DEF Versioned, Existing

LEMMA ServerOwed ==
    ASSUME StaleInv, PushOutput \/ AnswerPoll \/ FinishPush \/ AnswerLines
    PROVE  Versioned' /\ LinesOwed' /\ ComingOwed'
<1>1. /\ Types /\ Versioned /\ LinesOwed /\ ComingOwed
      /\ term \in [version : [Rows -> Nat], seqno : Nat, top : Tops, cursor : Rows]
      /\ sent.seqno \in Nat /\ scan \in Scans \cup {NoScan}
      /\ replies \in Seq(Written) /\ requests \in Seq(Requests)
    BY DEF StaleInv, FetchInv, Types
<1>2. ASSUME NEW by \in {"output", "poll"}, Examine(by), scan = NoScan
      PROVE  Versioned' /\ LinesOwed' /\ ComingOwed'
    <2>1. /\ sent'.seqno = sent.seqno
          /\ UNCHANGED <<term, inbox, lines, missed>>
          /\ \/ /\ replies' = replies
                /\ scan' = [by |-> by, dirty |-> Dirty, top |-> term.top,
                            cursor |-> term.cursor, seqno |-> term.seqno]
             \/ \E more \in Seq(Written) :
                    /\ replies' = replies \o more /\ UNCHANGED scan
                    /\ \A i \in 1..Len(more) : more[i].kind \in {"palette", "alive"}
        BY <1>1, <1>2, ExamineTypes
    <2>2. PICK more \in Seq(Written) :
            /\ replies' = replies \o more
            /\ \A i \in 1..Len(more) : more[i].kind \in {"palette", "alive"}
        <3>1. <<>> \in Seq(Written) /\ replies \o <<>> = replies /\ Len(<<>>) = 0
            BY <1>1, EmptySeq, ConcatEmptySeq
        <3>2. \A i \in 1..Len(<<>>) : FALSE BY <3>1
        <3> QED BY <2>1, <3>1, <3>2
    <2>3. \A i \in 1..Len(more) : Aged(more[i], term.version) BY <2>2 DEF Aged
    <2>4. \A i \in 1..Len(more), r \in Rows : ~Old(more[i], r, term.version[r], lines[r])
        BY <2>2 DEF Old
    <2>5. \A r \in Rows \ missed' :
                r \in missed \/ Due(r, term.version[r], sent.seqno, Scanned) =>
                    Due(r, term.version[r], sent'.seqno, Scanned')
        <3>1. Scanned = {} BY <1>2 DEF Scanned
        <3> QED BY <2>1, <3>1 DEF Due
    <2>6. /\ LinesOwed' /\ ComingOwed'
          /\ \A i \in 1..Len(Coming') : Aged(Coming'[i], term'.version)
        BY <1>1, <2>1, <2>2, <2>3, <2>4, <2>5, WrittenOwed
    <2>7. scan' # NoScan =>
                /\ scan'.seqno <= term.seqno
                /\ \A r \in Rows : term.version[r] > sent'.seqno =>
                        r \in scan'.dirty \/ term.version[r] > scan'.seqno
        <3> SUFFICES ASSUME scan' = [by |-> by, dirty |-> Dirty, top |-> term.top,
                                     cursor |-> term.cursor, seqno |-> term.seqno]
                     PROVE  /\ scan'.seqno <= term.seqno
                            /\ \A r \in Rows : term.version[r] > sent'.seqno => r \in scan'.dirty
            BY <1>2, <2>1
        <3>1. scan'.seqno = term.seqno /\ scan'.dirty = Dirty OBVIOUS
        <3>2. ASSUME NEW r \in Rows, term.version[r] > sent.seqno PROVE r \in Dirty
            <4>1. term.version[r] \in Nat /\ (term.version[r] > 0 => r \in Existing(term))
                BY <1>1 DEF Versioned
            <4>2. r \in Existing(term) BY <1>1, <3>2, <4>1
            <4> QED BY <3>2, <4>2 DEF Dirty
        <3> QED BY <1>1, <2>1, <3>1, <3>2
    <2>8. sent'.seqno <= term.seqno BY <1>1, <2>1 DEF Versioned
    <2>9. Versioned' BY <1>1, <2>1, <2>6, <2>7, <2>8, VersionsKept
    <2> QED BY <2>6, <2>9
<1>3. CASE PushOutput BY <1>2, <1>3 DEF PushOutput
<1>4. CASE AnswerPoll BY <1>2, <1>4 DEF AnswerPoll
<1>5. CASE FinishPush
    <2> DEFINE more == <<Pushed>> \o Closing(scan.by)
    <2>1. /\ scan # NoScan /\ replies' = replies \o more
          /\ UNCHANGED <<term, inbox, lines>> /\ scan' = NoScan
          /\ sent'.seqno = term.seqno
          /\ missed' = (missed \union {r \in Rows : term.version[r] > scan.seqno})
                          \ (scan.dirty \union Bonus)
        BY <1>1, <1>5, FinishWrites
    <2>2. /\ scan \in Scans /\ Bonus \subseteq Rows
          /\ more \in Seq(Written) /\ Len(more) \in Nat \ {0} /\ more[1] = Pushed
          /\ \A i \in 1..Len(more) : i # 1 => more[i].kind \in {"palette", "alive"}
        BY <1>1, <2>1, PushedType
    <2> HIDE DEF more
    <2>3. /\ Pushed.kind = "push" /\ Pushed.hop = 0
          /\ Pushed.dirty = scan.dirty \ Viewport(scan.top)
          /\ DOMAIN Pushed.bonus = Bonus /\ \A r \in Bonus : Pushed.bonus[r] = term.version[r]
        BY DEF Pushed
    <2>4. \A i \in 1..Len(more) : more[i] = Pushed \/ more[i].kind \in {"palette", "alive"}
        BY <2>2
    <2>5. \A i \in 1..Len(more) : Aged(more[i], term.version)
        <3>1. Aged(Pushed, term.version)
            <4>1. \A r \in Bonus : term.version[r] \in Nat BY <1>1, <2>2
            <4> QED BY <2>3, <4>1 DEF Aged
        <3>2. \A m : m.kind \in {"palette", "alive"} => Aged(m, term.version) BY DEF Aged
        <3> QED BY <2>4, <3>1, <3>2
    <2>6. \A i \in 1..Len(more), r \in Rows : ~Old(more[i], r, term.version[r], lines[r])
        <3>1. \A r \in Rows : ~Old(Pushed, r, term.version[r], lines[r]) BY <2>3 DEF Old
        <3>2. \A m, r : m.kind \in {"palette", "alive"} => ~Old(m, r, term.version[r], lines[r])
            BY DEF Old
        <3> QED BY <2>4, <3>1, <3>2
    <2>7. \A r \in scan.dirty \cup Bonus : Tells(Pushed, r, term.version[r])
        BY <2>3 DEF Tells, Bonus
    <2>8. \A r \in Rows \ missed' :
                r \in missed \/ Due(r, term.version[r], sent.seqno, Scanned) =>
                    \E i \in 1..Len(more) :
                            more[i].hop = 0 /\ Tells(more[i], r, term.version[r])
        <3> SUFFICES ASSUME NEW r \in Rows \ missed',
                            r \in missed \/ Due(r, term.version[r], sent.seqno, Scanned)
                     PROVE  r \in scan.dirty \cup Bonus
            <4>1. 1 \in 1..Len(more) BY <2>2
            <4> QED BY <2>2, <2>3, <2>7, <4>1
        <3>1. CASE r \in missed BY <2>1, <3>1
        <3>2. CASE r \in Scanned BY <2>1, <3>2 DEF Scanned, Bonus
        <3>3. CASE term.version[r] > sent.seqno
            <4>1. r \in scan.dirty \/ term.version[r] > scan.seqno
                BY <1>1, <2>1, <3>3 DEF Versioned
            <4> QED BY <2>1, <4>1
        <3> QED BY <3>1, <3>2, <3>3 DEF Due
    <2>9. /\ LinesOwed' /\ ComingOwed'
          /\ \A i \in 1..Len(Coming') : Aged(Coming'[i], term'.version)
        BY <1>1, <2>1, <2>2, <2>5, <2>6, <2>8, WrittenOwed
    <2>10. sent'.seqno <= term.seqno BY <1>1, <2>1
    <2>11. Versioned' BY <1>1, <2>1, <2>9, <2>10, VersionsKept
    <2> QED BY <2>9, <2>11
<1>6. CASE AnswerLines
    <2> DEFINE ask == Head(requests)
    <2>1. /\ requests # <<>> /\ ask.kind = "lines"
          /\ replies' = Append(replies, Answer(ask))
          /\ UNCHANGED <<term, sent, scan, missed, inbox, lines>>
        BY <1>6 DEF AnswerLines, Answer, server, client
    <2>2. ask \in Requests BY <1>1, <2>1, TailAt
    <2> HIDE DEF ask
    <2>3. /\ Answer(ask) \in Written /\ Answer(ask).kind = "lines"
          /\ Answer(ask).rows \subseteq Rows
          /\ \A r \in Answer(ask).rows : Answer(ask).found[r] = term.version[r]
        BY <1>1, <2>1, <2>2, AnswerType, RequestFields
    <2> DEFINE answer == Answer(ask)
    <2> HIDE DEF answer
    <2> DEFINE more == <<answer>>
    <2>4. more \in Seq(Written) /\ Len(more) = 1 /\ more[1] = answer
        BY <2>3 DEF answer
    <2>5. replies' = replies \o more
        BY <1>1, <2>1, <2>3, AppendIsConcat DEF answer
    <2>6. \A i \in 1..Len(more) : more[i] = answer BY <2>4
    <2> HIDE DEF more
    <2>7. Aged(answer, term.version)
        <3>1. \A r \in answer.rows : term.version[r] \in Nat BY <1>1, <2>3 DEF answer
        <3> QED BY <2>3, <3>1 DEF Aged, answer
    <2>8. \A r \in Rows : ~Old(answer, r, term.version[r], lines[r])
        BY <2>3 DEF Old, answer
    <2>9. Scanned' = Scanned BY <2>1 DEF Scanned
    <2>10. \A r \in Rows \ missed' :
                r \in missed \/ Due(r, term.version[r], sent.seqno, Scanned) =>
                    Due(r, term.version[r], sent'.seqno, Scanned')
        BY <2>1, <2>9
    <2>11. /\ LinesOwed' /\ ComingOwed'
           /\ \A i \in 1..Len(Coming') : Aged(Coming'[i], term'.version)
        BY <1>1, <2>1, <2>4, <2>5, <2>6, <2>7, <2>8, <2>10, WrittenOwed
    <2>12. Versioned' BY <1>1, <2>1, <2>11, VersionsKept DEF Versioned
    <2> QED BY <2>11, <2>12
<1> QED BY <1>1, <1>3, <1>4, <1>5, <1>6

\* What an entry holds after a change, and that only a line passes for one.
LEMMA EntryHolds ==
    ASSUME NEW e \in Entries
    PROVE  /\ Absent.held = 0 /\ ~IsLine(Absent)
           /\ MakeStale(e).held = e.held /\ ~IsLine(MakeStale(e))
           /\ MakeAllStale(e).held = e.held /\ ~IsLine(MakeAllStale(e))
           /\ \A v \in Nat : Line(v).held = v
           /\ \A now \in Stampset : /\ Fetching(e, now).held = e.held
                                    /\ ~IsLine(Fetching(e, now))
<1>1. e.held \in Nat /\ e.fetch \in 0..Stamps /\ e.stale \in BOOLEAN BY DEF Entries
<1>2. Absent.held = 0 /\ ~IsLine(Absent) BY DEF Absent, IsLine
<1>3. MakeStale(e).held = e.held /\ ~IsLine(MakeStale(e))
    BY <1>1, <1>2 DEF MakeStale, Absent, IsLine
<1>4. MakeAllStale(e).held = e.held /\ ~IsLine(MakeAllStale(e))
    BY <1>1, <1>3 DEF MakeAllStale, IsLine
<1>5. \A v \in Nat : Line(v).held = v BY DEF Line
<1>6. \A now \in Stampset : Fetching(e, now).held = e.held /\ ~IsLine(Fetching(e, now))
    <2> SUFFICES ASSUME NEW now \in Stampset
                 PROVE  Fetching(e, now).held = e.held /\ ~IsLine(Fetching(e, now))
        OBVIOUS
    <2>1. Fetching(e, now).held = e.held /\ Fetching(e, now).fetch = now
        BY DEF Fetching, Entries
    <2>2. now # 0 BY RowFacts DEF Stampset
    <2> QED BY <2>1, <2>2 DEF IsLine
<1> QED BY <1>2, <1>3, <1>4, <1>5, <1>6

\* An entry that waits for nothing, or for a new fetch, is none that a failure
\* under way returns to its line.
LEMMA OldKept ==
    ASSUME NEW m \in Tasks, NEW e, NEW f, NEW r, NEW v, Old(m, r, v, f),
           f = e \/ f.fetch = 0 \/ (m.kind = "failed" => m.stamp # f.fetch)
    PROVE  Old(m, r, v, e)
<1>1. m.kind = "failed" => m.stamp # 0
    <2> SUFFICES ASSUME m.kind = "failed" PROVE m.stamp # 0 OBVIOUS
    <2>1. m.stamp \in Stampset BY TaskFields DEF Failed
    <2> QED BY <2>1, RowFacts DEF Stampset
<1> QED BY <1>1 DEF Old

LEMMA StampFresh ==
    ASSUME Types, NEW now, IsNow(now), NEW i \in 1..Len(Coming), Coming[i].kind = "failed"
    PROVE  Coming[i].stamp # now
<1>1. inbox \in Seq(Tasks) /\ replies \in Seq(Tasks) BY WrittenTasks, SeqDef DEF Types
<1>2. Coming \in Seq(Tasks) /\ ToSet(Coming) = ToSet(inbox) \cup ToSet(replies)
    BY <1>1, ConcatAt DEF Coming
<1>3. Coming[i] \in ToSet(inbox) \cup ToSet(replies) BY <1>2, ToSetType
<1> QED BY <1>3 DEF IsNow, FreeStamps

LEMMA VersionsTaken ==
    ASSUME Versioned, Len(Coming) \in Nat \ {0}, Len(Coming') = Len(Coming) - 1,
           \A i \in 1..(Len(Coming) - 1) : Coming'[i] = Coming[i + 1],
           UNCHANGED <<term, sent, scan>>, \A r \in Rows : lines'[r].held <= term.version[r]
    PROVE  Versioned'
<1>1. \A i \in 1..Len(Coming') : Aged(Coming'[i], term'.version)
    <2> SUFFICES ASSUME NEW i \in 1..Len(Coming') PROVE Aged(Coming'[i], term.version)
        OBVIOUS
    <2>1. i + 1 \in 1..Len(Coming) /\ Coming'[i] = Coming[i + 1] OBVIOUS
    <2> QED BY <2>1 DEF Versioned
<1> QED BY <1>1 DEF Versioned, Existing

\* The tasks of the main thread that bring no push.
LEMMA TaskOwed ==
    ASSUME StaleInv, EndPoll \/ ApplyPalette \/ ApplyLines \/ ApplyFailure
    PROVE  Versioned' /\ LinesOwed' /\ ComingOwed'
<1>1. /\ Types /\ Versioned /\ LinesOwed /\ ComingOwed
      /\ term.version \in [Rows -> Nat] /\ lines \in [Rows -> Entries]
      /\ replies \in Seq(Written) /\ inbox \in Seq(Tasks)
    BY DEF StaleInv, FetchInv, Types
<1>2. /\ inbox # <<>> /\ inbox' = Tail(inbox)
      /\ Head(inbox).kind \in {"alive", "palette", "lines", "failed"}
      /\ UNCHANGED <<term, sent, scan, missed, replies>>
    BY DEF EndPoll, ApplyPalette, ApplyLines, ApplyFailure, Task, server
<1> DEFINE m == Head(inbox)
<1>3. /\ m \in Tasks /\ Coming \in Seq(Tasks) /\ Coming' \in Seq(Tasks)
      /\ Len(Coming) \in Nat \ {0} /\ Coming[1] = m /\ Len(Coming') = Len(Coming) - 1
      /\ \A i \in 1..(Len(Coming) - 1) : Coming'[i] = Coming[i + 1]
    BY <1>1, <1>2, TakeTask
<1>4. \A i \in 1..Len(Coming) : Coming[i] \in Tasks BY <1>3, ElementOfSeq
<1>5. \A r \in Rows :
        \/ lines'[r] = lines[r]
        \/ lines'[r] = MakeAllStale(lines[r])
        \/ /\ m.kind = "lines" /\ r \in m.rows /\ lines[r].fetch = m.stamp
           /\ lines'[r] = Line(m.found[r])
        \/ /\ m.kind = "failed" /\ r \in m.rows /\ lines[r].fetch = m.stamp
           /\ lines'[r] = [lines[r] EXCEPT !.fetch = 0]
    <2>1. CASE EndPoll BY <2>1 DEF EndPoll
    <2>2. CASE ApplyPalette BY <2>2 DEF ApplyPalette
    <2>3. CASE ApplyLines \/ ApplyFailure
        <3>1. m \in Answers \cup Failed /\ \A r \in Rows :
                IF r \in m.rows /\ lines[r].fetch = m.stamp
                THEN lines'[r] = IF m.kind = "lines" THEN Line(m.found[r])
                                 ELSE [lines[r] EXCEPT !.fetch = 0]
                ELSE lines'[r] = lines[r]
            BY <1>1, <2>3, AnswerTaken
        <3>2. m.kind \in {"lines", "failed"} BY <3>1 DEF Answers, Failed
        <3> HIDE DEF m
        <3> QED BY <3>1, <3>2
    <2> QED BY <2>1, <2>2, <2>3
<1>6. m.kind \in {"alive", "palette", "lines", "failed"} BY <1>2
<1> HIDE DEF m, Coming
<1>7. Aged(m, term.version)
    <2>1. 1 \in 1..Len(Coming) BY <1>3
    <2> QED BY <1>1, <1>3, <2>1 DEF Versioned
<1>8. \A r \in Rows : lines'[r].held <= term.version[r]
    <2> SUFFICES ASSUME NEW r \in Rows PROVE lines'[r].held <= term.version[r] OBVIOUS
    <2>1. /\ lines[r] \in Entries /\ lines[r].held <= term.version[r]
          /\ [lines[r] EXCEPT !.fetch = 0].held = lines[r].held
        BY <1>1 DEF Versioned, Entries
    <2>2. CASE /\ m.kind = "lines" /\ r \in m.rows /\ lines'[r] = Line(m.found[r])
        <3>1. m.found[r] \in Nat BY <1>3, <2>2, TaskFields, AnswerFields
        <3> QED BY <1>7, <2>1, <2>2, <3>1, EntryHolds DEF Aged
    <2> QED BY <1>5, <2>1, <2>2, EntryHolds
<1>9. \A i \in 1..Len(Coming), r \in Rows \ missed :
                Old(Coming[i], r, term.version[r], lines'[r]) =>
                    Old(Coming[i], r, term.version[r], lines[r])
    <2> SUFFICES ASSUME NEW i \in 1..Len(Coming), NEW r \in Rows,
                        Old(Coming[i], r, term.version[r], lines'[r])
                 PROVE  Old(Coming[i], r, term.version[r], lines[r])
        OBVIOUS
    <2>1. lines[r] \in Entries BY <1>1
    <2>2. lines'[r] = lines[r] \/ lines'[r].fetch = 0
        <3>1. MakeAllStale(lines[r]) = lines[r] \/ MakeAllStale(lines[r]).fetch = 0
            BY <2>1, EntryFetches DEF MakeAllStale
        <3>2. \A v : Line(v).fetch = 0 BY DEF Line
        <3>3. [lines[r] EXCEPT !.fetch = 0].fetch = 0 BY <2>1 DEF Entries
        <3> QED BY <1>5, <3>1, <3>2, <3>3
    <2> QED BY <1>4, <2>2, OldKept
<1>10. \A r \in Rows \ missed :
                IsLine(lines'[r]) /\ lines'[r].held # term.version[r] =>
                    \/ Old(Coming[1], r, term.version[r], lines[r])
                    \/ /\ IsLine(lines[r]) /\ lines[r].held # term.version[r]
                       /\ ~Tells(Coming[1], r, term.version[r])
    <2> SUFFICES ASSUME NEW r \in Rows,
                        IsLine(lines'[r]), lines'[r].held # term.version[r]
                 PROVE  \/ Old(m, r, term.version[r], lines[r])
                        \/ /\ IsLine(lines[r]) /\ lines[r].held # term.version[r]
                           /\ ~Tells(m, r, term.version[r])
        BY <1>3
    <2>1. lines[r] \in Entries BY <1>1
    <2>2. ~Tells(m, r, term.version[r]) BY <1>6 DEF Tells
    <2>3. CASE /\ m.kind = "lines" /\ r \in m.rows /\ lines'[r] = Line(m.found[r])
        <3>1. m.found[r] \in Nat BY <1>3, <2>3, TaskFields, AnswerFields
        <3> QED BY <2>1, <2>3, <3>1, EntryHolds DEF Old
    <2>4. CASE /\ m.kind = "failed" /\ r \in m.rows /\ lines[r].fetch = m.stamp
               /\ lines'[r] = [lines[r] EXCEPT !.fetch = 0]
        <3>1. lines'[r].held = lines[r].held BY <2>1, <2>4 DEF Entries
        <3> QED BY <2>4, <3>1 DEF Old
    <2> QED BY <1>5, <2>1, <2>2, <2>3, <2>4, EntryHolds
<1>11. ~(Coming[1].kind = "push" /\ Coming[1].hop = 0) BY <1>3, <1>6
<1>12. LinesOwed' /\ ComingOwed'
    BY <1>1, <1>2, <1>3, <1>9, <1>10, <1>11, OwedTaken
<1>13. Versioned' BY <1>1, <1>2, <1>3, <1>8, VersionsTaken
<1> QED BY <1>12, <1>13

LEMMA PushOwed ==
    ASSUME StaleInv, ApplyPush
    PROVE  Versioned' /\ LinesOwed' /\ ComingOwed'
<1> DEFINE push == Head(inbox)
<1>1. /\ Types /\ Versioned /\ LinesOwed /\ ComingOwed
      /\ term.version \in [Rows -> Nat] /\ lines \in [Rows -> Entries]
      /\ replies \in Seq(Written) /\ inbox \in Seq(Tasks)
    BY DEF StaleInv, FetchInv, Types
<1>2. /\ inbox # <<>> /\ push \in Pushes({0, 1}) /\ push.hop = 1 /\ inbox' = Tail(inbox)
      /\ UNCHANGED <<term, sent, scan, missed, replies>>
    BY <1>1, PushApplied
<1>3. PICK now \in Stampset : \A r \in Rows :
        /\ r \in DOMAIN push.bonus => lines'[r] = Line(push.bonus[r])
        /\ r \in Unsent(push) /\ r \notin DOMAIN push.bonus =>
             \/ lines'[r] = Fetching(lines[r], now) /\ IsNow(now)
             \/ lines'[r] = MakeStale(lines[r])
             \/ lines'[r] = Absent
        /\ r \notin Unsent(push) /\ r \notin DOMAIN push.bonus => lines'[r] = lines[r]
    BY <1>1, PushApplied
<1>4. /\ push \in Tasks /\ Coming \in Seq(Tasks) /\ Coming' \in Seq(Tasks)
      /\ Len(Coming) \in Nat \ {0} /\ Coming[1] = push /\ Len(Coming') = Len(Coming) - 1
      /\ \A i \in 1..(Len(Coming) - 1) : Coming'[i] = Coming[i + 1]
    BY <1>1, <1>2, TakeTask
<1> HIDE DEF push
<1>5. \A i \in 1..Len(Coming) : Coming[i] \in Tasks BY <1>4, ElementOfSeq
<1>6. \A i \in 1..Len(Coming) : IsNow(now) /\ Coming[i].kind = "failed" => Coming[i].stamp # now
    BY <1>1, StampFresh
<1> HIDE DEF Coming
<1>7. /\ push.kind = "push" /\ push.bonus \in [DOMAIN push.bonus -> Nat]
      /\ push.dirty \subseteq Unsent(push) \cup DOMAIN push.bonus
    BY <1>2, PushFields DEF Unsent
<1>8. Aged(push, term.version)
    <2>1. 1 \in 1..Len(Coming) BY <1>4
    <2> QED BY <1>1, <1>4, <2>1 DEF Versioned
<1>9. \A r \in Rows : lines'[r].held <= term.version[r]
    <2> SUFFICES ASSUME NEW r \in Rows PROVE lines'[r].held <= term.version[r] OBVIOUS
    <2>1. /\ lines[r] \in Entries /\ lines[r].held <= term.version[r]
          /\ term.version[r] \in Nat
        BY <1>1 DEF Versioned
    <2>2. CASE r \in DOMAIN push.bonus
        <3>1. push.bonus[r] \in Nat /\ lines'[r] = Line(push.bonus[r]) BY <1>3, <1>7, <2>2
        <3>2. push.bonus[r] <= term.version[r] BY <1>7, <1>8, <2>2 DEF Aged
        <3> QED BY <2>1, <3>1, <3>2, EntryHolds
    <2>3. CASE r \notin DOMAIN push.bonus
        <3>1. lines'[r] \in {lines[r], Fetching(lines[r], now), MakeStale(lines[r]), Absent}
            BY <1>3, <2>3
        <3>2. lines'[r].held \in {0, lines[r].held} BY <2>1, <3>1, EntryHolds
        <3> QED BY <2>1, <3>2
    <2> QED BY <2>2, <2>3
<1>10. \A i \in 1..Len(Coming), r \in Rows \ missed :
                Old(Coming[i], r, term.version[r], lines'[r]) =>
                    Old(Coming[i], r, term.version[r], lines[r])
    <2> SUFFICES ASSUME NEW i \in 1..Len(Coming), NEW r \in Rows,
                        Old(Coming[i], r, term.version[r], lines'[r])
                 PROVE  Old(Coming[i], r, term.version[r], lines[r])
        OBVIOUS
    <2>1. lines[r] \in Entries BY <1>1
    <2>2. \/ lines'[r] = lines[r] \/ lines'[r].fetch = 0
          \/ lines'[r].fetch = now /\ IsNow(now)
        <3>1. CASE r \in DOMAIN push.bonus
            <4>1. lines'[r] = Line(push.bonus[r]) BY <1>3, <3>1
            <4> QED BY <4>1 DEF Line
        <3>2. CASE r \notin DOMAIN push.bonus BY <1>3, <2>1, <3>2, EntryFetches
        <3> QED BY <3>1, <3>2
    <2> QED BY <1>5, <1>6, <2>2, OldKept
<1>11. \A r \in Rows \ missed :
                IsLine(lines'[r]) /\ lines'[r].held # term.version[r] =>
                    \/ Old(Coming[1], r, term.version[r], lines[r])
                    \/ /\ IsLine(lines[r]) /\ lines[r].held # term.version[r]
                       /\ ~Tells(Coming[1], r, term.version[r])
    <2> SUFFICES ASSUME NEW r \in Rows,
                        IsLine(lines'[r]), lines'[r].held # term.version[r]
                 PROVE  \/ Old(push, r, term.version[r], lines[r])
                        \/ /\ IsLine(lines[r]) /\ lines[r].held # term.version[r]
                           /\ ~Tells(push, r, term.version[r])
        BY <1>4
    <2>1. lines[r] \in Entries BY <1>1
    <2>2. CASE r \in DOMAIN push.bonus
        <3>1. push.bonus[r] \in Nat /\ lines'[r] = Line(push.bonus[r]) BY <1>3, <1>7, <2>2
        <3>2. push.bonus[r] # term.version[r] BY <2>1, <3>1, EntryHolds
        <3> QED BY <1>7, <2>2, <3>2 DEF Old
    <2>3. CASE r \notin DOMAIN push.bonus
        <3>1. r \notin Unsent(push) /\ lines'[r] = lines[r]
            BY <1>3, <2>1, <2>3, EntryHolds
        <3>2. ~Tells(push, r, term.version[r]) BY <1>7, <2>3, <3>1 DEF Tells
        <3> QED BY <3>1, <3>2
    <2> QED BY <2>2, <2>3
<1>12. ~(Coming[1].kind = "push" /\ Coming[1].hop = 0) BY <1>2, <1>4
<1>13. LinesOwed' /\ ComingOwed'
    BY <1>1, <1>2, <1>4, <1>10, <1>11, <1>12, OwedTaken
<1>14. Versioned' BY <1>1, <1>2, <1>4, <1>9, VersionsTaken
<1> QED BY <1>13, <1>14

\* Steps after which the same tasks are coming.
LEMMA IdleOwed ==
    ASSUME StaleInv, \/ Receive \/ Poll
                     \/ \E first \in 1..LastRow : first <= view.top /\ Paint(first)
    PROVE  Versioned' /\ LinesOwed' /\ ComingOwed'
<1>1. /\ Types /\ Versioned /\ LinesOwed /\ ComingOwed
      /\ term.version \in [Rows -> Nat] /\ lines \in [Rows -> Entries]
      /\ replies \in Seq(Written) /\ replies \in Seq(Tasks) /\ inbox \in Seq(Tasks)
    BY WrittenTasks, SeqDef DEF StaleInv, FetchInv, Types
<1>2. Coming \in Seq(Tasks) BY <1>1, ConcatAt DEF Coming
<1>3. \A i \in 1..Len(Coming) : Coming[i] \in Tasks BY <1>2, ElementOfSeq
<1>4. ASSUME Coming' = Coming, UNCHANGED <<term, sent, scan, missed, lines>>
      PROVE  Versioned' /\ LinesOwed' /\ ComingOwed'
    <2> HIDE DEF Coming
    <2>1. Scanned' = Scanned BY <1>4 DEF Scanned
    <2>2. Versioned' BY <1>1, <1>4 DEF Versioned, Existing
    <2>3. LinesOwed' BY <1>1, <1>4, <2>1 DEF LinesOwed
    <2>4. ComingOwed' BY <1>1, <1>4, <2>1 DEF ComingOwed
    <2> QED BY <2>2, <2>3, <2>4
<1>5. CASE Receive
    <2>1. /\ replies # <<>> /\ inbox' = Append(inbox, Head(replies)) /\ replies' = Tail(replies)
          /\ UNCHANGED <<term, sent, scan, missed, lines>>
        BY <1>5 DEF Receive, server, client
    <2>2. Coming' = Coming BY <1>1, <2>1, HandOver
    <2> QED BY <1>4, <2>1, <2>2
<1>6. CASE Poll
    <2>1. UNCHANGED <<term, sent, scan, missed, lines, inbox, replies>>
        BY <1>6 DEF Poll, server
    <2>2. Coming' = Coming BY <2>1 DEF Coming
    <2> QED BY <1>4, <2>1, <2>2
<1>7. ASSUME NEW first \in 1..LastRow, first <= view.top, Paint(first)
      PROVE  Versioned' /\ LinesOwed' /\ ComingOwed'
    <2>1. first \in Nat /\ Viewport(first) \subseteq Rows BY <1>1, <1>7, PaintedRows
    <2>2. UNCHANGED <<term, sent, scan, missed, replies, inbox>>
        BY <1>1, <1>7, <2>1, PaintApplied
    <2>3. PICK now \in Stampset : \A r \in Rows :
                \/ lines'[r] = lines[r]
                \/ lines'[r] = MakeStale(lines[r])
                \/ lines'[r] = Fetching(lines[r], now) /\ IsNow(now)
        BY <1>1, <1>7, <2>1, PaintApplied
    <2>4. Coming' = Coming /\ Scanned' = Scanned BY <2>2 DEF Coming, Scanned
    <2>5. \A i \in 1..Len(Coming) : IsNow(now) /\ Coming[i].kind = "failed" => Coming[i].stamp # now
        BY <1>1, StampFresh
    <2> HIDE DEF Coming
    <2>6. ASSUME NEW r \in Rows
          PROVE  /\ lines'[r].held = lines[r].held
                 /\ IsLine(lines'[r]) => lines'[r] = lines[r]
                 /\ \A i \in 1..Len(Coming) :
                        Old(Coming[i], r, term.version[r], lines'[r]) =>
                            Old(Coming[i], r, term.version[r], lines[r])
        <3>1. lines[r] \in Entries BY <1>1
        <3>2. /\ lines'[r].held = lines[r].held
              /\ IsLine(lines'[r]) => lines'[r] = lines[r]
            BY <2>3, <3>1, EntryHolds
        <3>3. \/ lines'[r] = lines[r] \/ lines'[r].fetch = 0
              \/ lines'[r].fetch = now /\ IsNow(now)
            BY <2>3, <3>1, EntryFetches
        <3> QED BY <1>3, <2>5, <3>2, <3>3, OldKept
    <2>7. Versioned' BY <1>1, <2>2, <2>4, <2>6 DEF Versioned, Existing
    <2>8. LinesOwed' BY <1>1, <2>2, <2>4, <2>6 DEF LinesOwed
    <2>9. ComingOwed' BY <1>1, <2>2, <2>4, <2>6 DEF ComingOwed
    <2> QED BY <2>7, <2>8, <2>9
<1> QED BY <1>5, <1>6, <1>7

\* A push comes for the first time: it goes behind all that waits in the inbox,
\* and before all that is still to be read.
LEMMA RespawnMoves ==
    ASSUME Types, Respawn
    PROVE  /\ inbox # <<>> /\ UNCHANGED <<term, sent, scan, missed, replies, lines>>
           /\ Coming \in Seq(Tasks) /\ Coming' \in Seq(Tasks) /\ Len(Coming') = Len(Coming)
           /\ \E n \in 1..Len(Coming) :
                /\ Coming[1].kind \in {"push", "palette"} /\ Coming[1].hop = 0
                /\ Coming'[n] = [Coming[1] EXCEPT !.hop = 1]
                /\ \A i \in 1..Len(Coming) : i < n => Coming'[i] = Coming[i + 1]
                /\ \A i \in 1..Len(Coming) : i > n =>
                    /\ Coming'[i] = Coming[i]
                    /\ Coming[i].kind = "push" => Coming[i].hop = 0
<1> DEFINE m == Head(inbox)
           again == [m EXCEPT !.hop = 1]
           n == Len(inbox)
<1>1. /\ inbox # <<>> /\ m.kind \in {"push", "palette"} /\ m.hop = 0
      /\ inbox' = Append(Tail(inbox), again)
      /\ UNCHANGED <<term, sent, scan, missed, replies, lines>>
    BY DEF Respawn, server, client
<1>2. /\ inbox \in Seq(Tasks) /\ replies \in Seq(Tasks) /\ replies \in Seq(Written)
    BY WrittenTasks, SeqDef DEF Types
<1>3. /\ m \in Tasks /\ m = inbox[1] /\ Tail(inbox) \in Seq(Tasks)
      /\ n \in Nat \ {0} /\ Len(Tail(inbox)) = n - 1
      /\ \A i \in 1..(n - 1) : Tail(inbox)[i] = inbox[i + 1]
    BY <1>1, <1>2, TailAt
<1>4. again \in Tasks
    <2>1. m \in Pushes({0, 1}) \cup Palettes({0, 1}) BY <1>1, <1>3, TaskFields
    <2> HIDE DEF m
    <2>2. CASE m \in Pushes({0, 1})
        <3>1. again \in Pushes({0, 1}) BY <2>2 DEF Pushes
        <3> QED BY <3>1 DEF Tasks
    <2>3. CASE m \in Palettes({0, 1})
        <3>1. again \in Palettes({0, 1}) BY <2>3 DEF Palettes
        <3> QED BY <3>1 DEF Tasks
    <2> QED BY <2>1, <2>2, <2>3
<1> DEFINE rest == Tail(inbox)
<1> HIDE DEF again, rest
<1>5. /\ inbox' \in Seq(Tasks) /\ Len(inbox') = n /\ inbox'[n] = again
      /\ \A i \in 1..(n - 1) : inbox'[i] = inbox[i + 1]
    <2>1. inbox' = Append(rest, again) BY <1>1 DEF rest
    <2>2. rest \in Seq(Tasks) /\ Len(rest) = n - 1
          /\ \A i \in 1..(n - 1) : rest[i] = inbox[i + 1]
        BY <1>3 DEF rest
    <2>3. /\ inbox' \in Seq(Tasks) /\ Len(inbox') = Len(rest) + 1
          /\ \A i \in 1..Len(rest) : inbox'[i] = rest[i]
          /\ inbox'[Len(rest) + 1] = again
        BY <1>4, <2>1, <2>2, AppendAt
    <2> QED BY <1>3, <2>2, <2>3
<1>6. /\ Coming \in Seq(Tasks) /\ Len(replies) \in Nat /\ Len(Coming) = n + Len(replies)
      /\ \A i \in 1..n : Coming[i] = inbox[i]
      /\ \A i \in 1..Len(replies) : Coming[n + i] = replies[i]
    BY <1>2, ConcatAt DEF Coming
<1>7. /\ Coming' \in Seq(Tasks) /\ Len(Coming') = n + Len(replies)
      /\ \A i \in 1..n : Coming'[i] = inbox'[i]
      /\ \A i \in 1..Len(replies) : Coming'[n + i] = replies[i]
    <2> DEFINE next == inbox'
    <2>1. Coming' = next \o replies /\ Len(next) = n BY <1>1, <1>5 DEF Coming
    <2>2. next \in Seq(Tasks) BY <1>5
    <2>3. replies \in Seq(Tasks) BY <1>2
    <2> HIDE DEF next, n, m
    <2>4. /\ next \o replies \in Seq(Tasks) /\ Len(next \o replies) = Len(next) + Len(replies)
          /\ \A i \in 1..Len(next) : (next \o replies)[i] = next[i]
          /\ \A i \in 1..Len(replies) : (next \o replies)[Len(next) + i] = replies[i]
        BY <2>2, <2>3, ConcatAt
    <2> QED BY <2>1, <2>4 DEF next
<1>8. n \in 1..Len(Coming) /\ 1 \in 1..n /\ n \in 1..n BY <1>3, <1>6
<1> HIDE DEF Coming
<1>9. Coming[1] = m BY <1>3, <1>6, <1>8
<1>10. Coming'[n] = [Coming[1] EXCEPT !.hop = 1] BY <1>5, <1>7, <1>8, <1>9 DEF again
<1>11. ASSUME NEW i \in 1..Len(Coming), i < n PROVE Coming'[i] = Coming[i + 1]
    <2>1. i \in 1..(n - 1) /\ i \in 1..n /\ i + 1 \in 1..n BY <1>3, <1>6, <1>11
    <2>2. Coming'[i] = inbox'[i] /\ inbox'[i] = inbox[i + 1] BY <1>5, <1>7, <2>1
    <2>3. Coming[i + 1] = inbox[i + 1] BY <1>6, <2>1
    <2> QED BY <2>2, <2>3
<1>12. ASSUME NEW i \in 1..Len(Coming), i > n
       PROVE  Coming'[i] = Coming[i] /\ (Coming[i].kind = "push" => Coming[i].hop = 0)
    <2>1. PICK k \in 1..Len(replies) : i = n + k
        <3>1. i - n \in 1..Len(replies) /\ i = n + (i - n) BY <1>3, <1>6, <1>12
        <3> QED BY <3>1
    <2>2. Coming'[i] = replies[k] /\ Coming[i] = replies[k] BY <1>6, <1>7, <2>1
    <2>3. replies[k] \in Written BY <1>2, ElementOfSeq
    <2> QED BY <2>2, <2>3, WrittenTasks
<1> HIDE DEF n, m
<1> QED BY <1>1, <1>6, <1>7, <1>8, <1>9, <1>10, <1>11, <1>12

LEMMA RespawnOwed ==
    ASSUME StaleInv, Respawn
    PROVE  Versioned' /\ LinesOwed' /\ ComingOwed'
<1>1. Types /\ Versioned /\ LinesOwed /\ ComingOwed BY DEF StaleInv, FetchInv
<1>2. /\ UNCHANGED <<term, sent, scan, missed, lines>>
      /\ Coming \in Seq(Tasks) /\ Coming' \in Seq(Tasks) /\ Len(Coming') = Len(Coming)
    BY <1>1, RespawnMoves
<1>3. PICK n \in 1..Len(Coming) :
        /\ Coming[1].kind \in {"push", "palette"} /\ Coming[1].hop = 0
        /\ Coming'[n] = [Coming[1] EXCEPT !.hop = 1]
        /\ \A i \in 1..Len(Coming) : i < n => Coming'[i] = Coming[i + 1]
        /\ \A i \in 1..Len(Coming) : i > n =>
            /\ Coming'[i] = Coming[i]
            /\ Coming[i].kind = "push" => Coming[i].hop = 0
    BY <1>1, RespawnMoves
<1>4. Len(Coming) \in Nat /\ 1 \in 1..Len(Coming)
    BY <1>2, LenProperties
<1>5. Scanned' = Scanned BY <1>2 DEF Scanned
<1> HIDE DEF Coming
<1> DEFINE m == Coming[1]
           again == [m EXCEPT !.hop = 1]
<1>6. /\ again.kind = m.kind /\ again.hop = 1
      /\ m.kind = "push" => again.dirty = m.dirty /\ again.bonus = m.bonus
    <2>1. m \in Tasks BY <1>2, <1>4, ElementOfSeq
    <2>2. m \in Pushes({0, 1}) \cup Palettes({0, 1}) BY <1>3, <2>1, TaskFields
    <2> HIDE DEF m
    <2> QED BY <2>2 DEF Pushes, Palettes
<1>7. /\ \A r, v, e : Old(again, r, v, e) <=> Old(m, r, v, e)
      /\ \A r, v : Tells(again, r, v) <=> Tells(m, r, v)
      /\ \A version : Aged(again, version) <=> Aged(m, version)
    <2>1. m.kind \in {"push", "palette"} BY <1>3
    <2> HIDE DEF m, again
    <2> QED BY <1>6, <2>1 DEF Old, Tells, Aged
<1>8. Coming'[n] = again BY <1>3
<1> HIDE DEF again, m
\* Where task i was, and where task k is now.
<1> DEFINE was(i) == IF i = n THEN 1 ELSE IF i < n THEN i + 1 ELSE i
           is(k) == IF k = 1 THEN n ELSE IF k <= n THEN k - 1 ELSE k
<1>9. ASSUME NEW i \in 1..Len(Coming)
      PROVE  /\ was(i) \in 1..Len(Coming)
             /\ Coming'[i] = IF i = n THEN again ELSE Coming[was(i)]
    <2>1. was(i) \in 1..Len(Coming) BY <1>4
    <2>2. CASE i = n BY <1>8, <2>1, <2>2
    <2>3. CASE i < n BY <1>3, <2>1, <2>3
    <2>4. CASE i > n BY <1>3, <2>1, <2>4
    <2> QED BY <1>4, <2>2, <2>3, <2>4
<1>10. ASSUME NEW k \in 1..Len(Coming)
       PROVE  is(k) \in 1..Len(Coming) /\ was(is(k)) = k /\ (is(k) = n <=> k = 1)
    BY <1>4
<1>11. ASSUME NEW i \in 1..Len(Coming), NEW r, NEW v, NEW e, Old(Coming'[i], r, v, e)
       PROVE  Old(Coming[was(i)], r, v, e)
    <2>1. CASE i = n
        <3>1. was(i) = 1 /\ Coming'[i] = again BY <1>9, <2>1
        <3> QED BY <1>7, <1>11, <3>1 DEF m
    <2>2. CASE i # n
        <3>1. Coming'[i] = Coming[was(i)] BY <1>9, <2>2
        <3> QED BY <1>11, <3>1
    <2> QED BY <2>1, <2>2
<1>12. ASSUME NEW k \in 1..Len(Coming), NEW r, NEW v, Tells(Coming[k], r, v)
       PROVE  Tells(Coming'[is(k)], r, v)
    <2>1. /\ is(k) \in 1..Len(Coming) /\ was(is(k)) = k /\ (is(k) = n <=> k = 1)
        BY <1>10
    <2>2. Coming'[is(k)] = IF is(k) = n THEN again ELSE Coming[was(is(k))] BY <1>9, <2>1
    <2>3. Coming'[is(k)] = IF k = 1 THEN again ELSE Coming[k] BY <2>1, <2>2
    <2> HIDE DEF is, was
    <2> QED BY <1>7, <1>12, <2>3 DEF m
<1>13. ASSUME NEW i \in 1..Len(Coming), NEW k \in 1..Len(Coming), After(Coming, was(i), k),
              Coming[was(i)].kind # "palette"
       PROVE  After(Coming', i, is(k))
    <2>1. /\ Coming'[i] = (IF i = n THEN again ELSE Coming[was(i)])
          /\ was(i) \in 1..Len(Coming)
        BY <1>9
    <2>2. /\ is(k) \in 1..Len(Coming) /\ was(is(k)) = k /\ (is(k) = n <=> k = 1)
        BY <1>10
    <2>3. Coming'[is(k)] = IF k = 1 THEN again ELSE Coming[k]
        <3>1. Coming'[is(k)] = IF is(k) = n THEN again ELSE Coming[was(is(k))] BY <1>9, <2>2
        <3> QED BY <2>2, <3>1
    <2>4. CASE i = n
        <3>1. was(i) = 1 /\ m.kind = "push" /\ m.hop = 0 BY <1>3, <1>13, <2>4 DEF m
        <3>2. k > 1 /\ Coming[k].hop = 0 BY <1>13, <3>1 DEF After, m
        <3>3. Coming'[i].kind = "push" /\ Coming'[i].hop = 1 BY <1>6, <2>1, <2>4, <3>1
        <3>4. Coming'[is(k)].hop = 0 BY <2>3, <3>2
        <3> HIDE DEF is, was
        <3> QED BY <3>3, <3>4 DEF After
    <2>5. CASE i # n
        <3>1. Coming'[i] = Coming[was(i)] /\ was(i) # 1 BY <1>4, <2>1, <2>5
        <3>2. k > was(i) => is(k) > i /\ k # 1 BY <1>4, <2>5
        <3>3. CASE Coming[was(i)].kind # "push"
            <4>1. k > was(i) BY <1>13, <3>3 DEF After
            <4> HIDE DEF is, was
            <4> QED BY <3>1, <3>2, <3>3, <4>1 DEF After
        <3>4. CASE Coming[was(i)].kind = "push" /\ Coming[was(i)].hop = 0
            <4>1. k > was(i) /\ Coming[k].hop = 0 BY <1>13, <3>4 DEF After
            <4>2. Coming'[is(k)].hop = 0 BY <2>3, <3>2, <4>1
            <4> HIDE DEF is, was
            <4> QED BY <3>1, <3>2, <3>4, <4>1, <4>2 DEF After
        <3>5. CASE Coming[was(i)].kind = "push" /\ Coming[was(i)].hop # 0
            <4>1. k > was(i) \/ Coming[k].hop = 0 BY <1>13, <3>5 DEF After
            <4>2. i < n
                <5>1. i > n => was(i) = i /\ Coming[i].hop = 0 BY <1>3, <3>5
                <5> QED BY <1>4, <2>5, <3>5, <5>1
            <4>3. k = 1 => is(k) > i BY <4>2
            <4>4. k # 1 => Coming'[is(k)] = Coming[k] BY <2>3
            <4> HIDE DEF is, was
            <4> QED BY <3>1, <3>2, <3>5, <4>1, <4>3, <4>4 DEF After
        <3> QED BY <3>3, <3>4, <3>5
    <2> QED BY <2>4, <2>5
<1> HIDE DEF was, is
<1>14. LinesOwed'
    <2> SUFFICES ASSUME NEW r \in Rows \ missed, IsLine(lines[r]), lines[r].held # term.version[r],
                        ~Due(r, term.version[r], sent.seqno, Scanned)
                 PROVE  \E j \in 1..Len(Coming') : Tells(Coming'[j], r, term.version[r])
        BY <1>2, <1>5 DEF LinesOwed
    <2>1. PICK k \in 1..Len(Coming) : Tells(Coming[k], r, term.version[r])
        BY <1>1 DEF LinesOwed
    <2> QED BY <1>2, <1>10, <1>12, <2>1
<1>15. ComingOwed'
    <2> SUFFICES ASSUME NEW i \in 1..Len(Coming), NEW r \in Rows \ missed,
                        Old(Coming'[i], r, term.version[r], lines[r]),
                        ~Due(r, term.version[r], sent.seqno, Scanned)
                 PROVE  \E j \in 1..Len(Coming') :
                            After(Coming', i, j) /\ Tells(Coming'[j], r, term.version[r])
        BY <1>2, <1>5 DEF ComingOwed
    <2>1. Old(Coming[was(i)], r, term.version[r], lines[r]) /\ was(i) \in 1..Len(Coming)
        BY <1>9, <1>11
    <2>2. PICK k \in 1..Len(Coming) :
            After(Coming, was(i), k) /\ Tells(Coming[k], r, term.version[r])
        BY <1>1, <2>1 DEF ComingOwed
    <2>3. Coming[was(i)].kind # "palette" BY <2>1 DEF Old
    <2> QED BY <1>2, <1>10, <1>12, <1>13, <2>2, <2>3
<1>16. Versioned'
    <2>1. \A i \in 1..Len(Coming') : Aged(Coming'[i], term'.version)
        <3> SUFFICES ASSUME NEW i \in 1..Len(Coming) PROVE Aged(Coming'[i], term.version)
            BY <1>2
        <3>1. was(i) \in 1..Len(Coming) /\ Aged(Coming[was(i)], term.version)
            BY <1>1, <1>9 DEF Versioned
        <3>2. Aged(m, term.version) BY <1>1, <1>4 DEF Versioned, m
        <3> QED BY <1>7, <1>9, <3>1, <3>2
    <2> QED BY <1>1, <1>2, <2>1 DEF Versioned, Existing
<1> QED BY <1>14, <1>15, <1>16

\* A new session has told nothing: it will push every row that was ever written.
LEMMA ReconnectOwed ==
    ASSUME StaleInv, Reconnect
    PROVE  Versioned' /\ LinesOwed' /\ ComingOwed'
<1>1. /\ Types /\ Versioned
      /\ term.version \in [Rows -> Nat] /\ term.seqno \in Nat /\ lines \in [Rows -> Entries]
      /\ inbox \in Seq(Tasks) /\ replies \in Seq(Tasks)
    BY WrittenTasks, SeqDef DEF StaleInv, FetchInv, Types
<1>2. /\ replies' = <<>> /\ sent' = NewPerPane /\ scan' = NoScan /\ missed' = {}
      /\ UNCHANGED <<term, lines, view>>
    BY <1>1, ReconnectTypes
<1>3. PICK failures \in Seq(Tasks) :
        /\ inbox' = inbox \o failures
        /\ \A m \in ToSet(failures) : m.kind \in {"failed", "alive"}
    BY <1>1, ReconnectTypes
<1>4. /\ inbox \o failures \in Seq(Tasks) /\ Len(inbox) \in Nat /\ Len(failures) \in Nat
      /\ Len(inbox \o failures) = Len(inbox) + Len(failures)
      /\ \A i \in 1..Len(inbox) : (inbox \o failures)[i] = inbox[i]
      /\ \A i \in 1..Len(failures) : (inbox \o failures)[Len(inbox) + i] = failures[i]
    BY <1>1, <1>3, ConcatAt
<1>5. Coming' = inbox \o failures BY <1>2, <1>3, <1>4, ConcatEmptySeq DEF Coming
<1>6. /\ Len(Coming) = Len(inbox) + Len(replies) /\ Len(replies) \in Nat
      /\ \A i \in 1..Len(inbox) : Coming[i] = inbox[i]
    BY <1>1, ConcatAt DEF Coming
<1> HIDE DEF Coming
<1>7. ASSUME NEW i \in 1..Len(Coming')
      PROVE  /\ Coming'[i] \in Tasks /\ Aged(Coming'[i], term.version)
    <2>1. Coming'[i] \in Tasks BY <1>4, <1>5, ElementOfSeq
    <2>2. CASE i \in 1..Len(inbox)
        <3>1. i \in 1..Len(Coming) BY <1>4, <1>6, <2>2
        <3>2. Coming'[i] = Coming[i] BY <1>4, <1>5, <1>6, <2>2
        <3> QED BY <1>1, <2>1, <3>1, <3>2 DEF Versioned
    <2>3. CASE i \notin 1..Len(inbox)
        <3>1. i - Len(inbox) \in 1..Len(failures) /\ i = Len(inbox) + (i - Len(inbox))
            BY <1>4, <1>5, <2>3
        <3>2. PICK k \in 1..Len(failures) : i = Len(inbox) + k BY <3>1
        <3>3. Coming'[i] = failures[k] BY <1>4, <1>5, <3>2
        <3>4. Coming'[i].kind \in {"failed", "alive"} BY <1>3, <3>3, ToSetType
        <3> QED BY <2>1, <3>4 DEF Aged
    <2> QED BY <2>2, <2>3
<1>8. \A r \in Rows : /\ term.version[r] \in Nat /\ lines[r].held \in Nat
                      /\ lines[r].held <= term.version[r]
    BY <1>1 DEF Versioned, Entries
<1>9. \A r \in Rows : term.version[r] > 0 =>
        Due(r, term'.version[r], sent'.seqno, Scanned')
    BY <1>2 DEF Due, NewPerPane
<1>10. LinesOwed'
    <2> SUFFICES ASSUME NEW r \in Rows, lines[r].held # term.version[r]
                 PROVE  Due(r, term'.version[r], sent'.seqno, Scanned')
        BY <1>2 DEF LinesOwed
    <2>1. term.version[r] > 0 BY <1>8
    <2> QED BY <1>9, <2>1
<1>11. ComingOwed'
    <2> SUFFICES ASSUME NEW i \in 1..Len(Coming'), NEW r \in Rows,
                        Old(Coming'[i], r, term.version[r], lines[r])
                 PROVE  Due(r, term'.version[r], sent'.seqno, Scanned')
        BY <1>2 DEF ComingOwed
    <2> DEFINE m == Coming'[i]
    <2>1. m \in Tasks /\ Aged(m, term.version) /\ Old(m, r, term.version[r], lines[r])
        BY <1>7
    <2> HIDE DEF m
    <2>2. CASE m.kind = "push" /\ r \in DOMAIN m.bonus /\ m.bonus[r] # term.version[r]
        <3>1. m.bonus[r] \in Nat BY <2>1, <2>2, TaskFields, PushFields
        <3>2. m.bonus[r] <= term.version[r] BY <2>1, <2>2 DEF Aged
        <3>3. term.version[r] > 0 BY <1>8, <2>2, <3>1, <3>2
        <3> QED BY <1>9, <3>3
    <2>3. CASE m.kind = "lines" /\ r \in m.rows /\ m.found[r] # term.version[r]
        <3>1. m.found[r] \in Nat BY <2>1, <2>3, TaskFields, AnswerFields
        <3>2. m.found[r] <= term.version[r] BY <2>1, <2>3 DEF Aged
        <3>3. term.version[r] > 0 BY <1>8, <2>3, <3>1, <3>2
        <3> QED BY <1>9, <3>3
    <2>4. CASE lines[r].held # term.version[r]
        <3>1. term.version[r] > 0 BY <1>8, <2>4
        <3> QED BY <1>9, <3>1
    <2> QED BY <2>1, <2>2, <2>3, <2>4 DEF Old
<1>12. sent'.seqno <= term.seqno BY <1>1, <1>2 DEF NewPerPane
<1>13. Versioned' BY <1>1, <1>2, <1>7, <1>12, VersionsKept
<1> QED BY <1>10, <1>11, <1>13

LEMMA StaleInvariant == Spec => []StaleInv
<1>1. Init => Versioned /\ LinesOwed /\ ComingOwed
    <2> SUFFICES ASSUME Init PROVE Versioned /\ LinesOwed /\ ComingOwed OBVIOUS
    <2>1. /\ term.version = [r \in Rows |-> IF r <= View THEN 1 ELSE 0]
          /\ term.seqno = 1 /\ term.top = 1 /\ sent.seqno = 1 /\ scan = NoScan
          /\ lines = [r \in Rows |-> IF r <= View THEN Line(1) ELSE Absent]
          /\ replies = <<>> /\ inbox = <<>>
        BY DEF Init
    <2>2. Len(Coming) = 0
        <3>1. Coming = <<>> BY <2>1 DEF Coming
        <3> QED BY <3>1
    <2>3. \A r \in Rows : lines[r].held = term.version[r] BY <2>1 DEF Line, Absent
    <2>4. LinesOwed /\ ComingOwed BY <2>2, <2>3 DEF LinesOwed, ComingOwed
    <2>5. \A r \in Rows : /\ term.version[r] <= term.seqno
                          /\ term.version[r] > 0 => r \in Existing(term)
        BY <2>1, RowFacts DEF Existing, Rows
    <2>6. \A r \in Rows : lines[r].held <= term.version[r]
        <3>1. \A r \in Rows : term.version[r] \in Nat BY <2>1
        <3> QED BY <2>3, <3>1
    <2> QED BY <2>1, <2>2, <2>4, <2>5, <2>6 DEF Versioned
<1>2. ASSUME FetchInv, StaleInv, [Next]_vars PROVE Versioned' /\ LinesOwed' /\ ComingOwed'
    <2>1. CASE (\E r, c \in Rows : Output(r, c)) \/ Scroll BY <1>2, <2>1, TerminalOwed
    <2>2. CASE PushOutput \/ FinishPush \/ AnswerPoll \/ AnswerLines
        BY <1>2, <2>2, ServerOwed
    <2>3. CASE Receive \/ Poll \/ \E first \in 1..LastRow : first <= view.top /\ Paint(first)
        BY <1>2, <2>3, IdleOwed
    <2>4. CASE Respawn BY <1>2, <2>4, RespawnOwed
    <2>5. CASE ApplyPush BY <1>2, <2>5, PushOwed
    <2>6. CASE EndPoll \/ ApplyPalette \/ ApplyLines \/ ApplyFailure
        BY <1>2, <2>6, TaskOwed
    <2>7. CASE Reconnect BY <1>2, <2>7, ReconnectOwed
    <2>8. CASE UNCHANGED vars
        <3>1. /\ UNCHANGED <<term, sent, scan, lines, missed>> /\ Coming' = Coming
              /\ Scanned' = Scanned
            BY <2>8 DEF vars, Coming, Scanned
        <3>2. Versioned /\ LinesOwed /\ ComingOwed BY <1>2 DEF StaleInv
        <3> QED BY <3>1, <3>2 DEF Versioned, LinesOwed, ComingOwed, Existing
    <2> QED BY <1>2, <2>1, <2>2, <2>3, <2>4, <2>5, <2>6, <2>7, <2>8 DEF Next
<1>3. Spec => [](Versioned /\ LinesOwed /\ ComingOwed)
    <2>1. (FetchInv /\ FetchInv') /\ (Versioned /\ LinesOwed /\ ComingOwed) /\ [Next]_vars
            => (Versioned /\ LinesOwed /\ ComingOwed)'
        BY <1>2 DEF StaleInv
    <2> QED BY <1>1, <2>1, FetchInvariant, PTL DEF Spec
<1>4. FetchInv /\ (Versioned /\ LinesOwed /\ ComingOwed) => StaleInv BY DEF StaleInv
<1> QED BY <1>3, <1>4, FetchInvariant, PTL

\* A line that passes for current and is not is one that a push still to come
\* tells of, whatever order answers and pushes are applied in and whichever
\* connections are lost, for any number of rows, changes and connections.
THEOREM StaleLineCorrect == Spec => []StaleLineIsOwed
<1>1. StaleInv => StaleLineIsOwed
    <2> SUFFICES ASSUME StaleInv, NEW r \in Rows \ missed,
                        IsLine(lines[r]), lines[r].held # term.version[r]
                 PROVE  Owed(r)
        BY DEF StaleLineIsOwed
    <2>1. inbox \in Seq(Tasks) /\ replies \in Seq(Tasks)
        BY WrittenTasks, SeqDef DEF StaleInv, FetchInv, Types
    <2>2. Coming \in Seq(Tasks) /\ ToSet(Coming) = ToSet(inbox) \cup ToSet(replies)
        BY <2>1, ConcatAt DEF Coming
    <2>3. \/ Due(r, term.version[r], sent.seqno, Scanned)
          \/ \E j \in 1..Len(Coming) : Tells(Coming[j], r, term.version[r])
        BY DEF StaleInv, LinesOwed
    <2>4. CASE Due(r, term.version[r], sent.seqno, Scanned)
        BY <2>4 DEF Due, Scanned, Owed
    <2>5. CASE \E j \in 1..Len(Coming) : Tells(Coming[j], r, term.version[r])
        <3>1. PICK j \in 1..Len(Coming) : Tells(Coming[j], r, term.version[r]) BY <2>5
        <3>2. Coming[j] \in InFlight BY <2>2, ToSetType DEF InFlight
        <3> QED BY <3>1, <3>2 DEF Tells, Owed
    <2> QED BY <2>3, <2>4, <2>5
<1> QED BY <1>1, StaleInvariant, PTL

===============================================================================
