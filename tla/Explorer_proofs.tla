---------------------------- MODULE Explorer_proofs ----------------------------
(***************************************************************************)
(* Theorems about Explorer, for any tree of directories and every bound:   *)
(* its types, with at most one Git status on its way, and that a pending   *)
(* directory is being read with the present setting.                       *)
(***************************************************************************)
EXTENDS Explorer, SequenceTheorems, FiniteSetTheorems, TLAPS

-------------------------------------------------------------------------------
(* Requests *)

Types ==
    /\ version \in [Dirs -> Nat] /\ changes \in Nat /\ moves \in Nat
    /\ ui \in Explorers
    /\ directory_tx \in Seq(Reads) /\ git_tx \in Seq(Dirs)
    /\ watch_tx \in Seq(SUBSET Dirs) /\ watching \subseteq Dirs
    /\ response_rx \in Seq(ExplorerResponses)

\* The read of d that the present setting asks for.
ReadOf(d, u) == [dir |-> d, hidden |-> u.show_hidden]

\* What is appended comes after what was there.
LEMMA ConcatRange ==
    ASSUME NEW S, NEW s \in Seq(S), NEW t \in Seq(S)
    PROVE  /\ s \o t \in Seq(S)
           /\ \A x \in Range(s) : x \in Range(s \o t)
           /\ \A x \in Range(t) : x \in Range(s \o t)
<1>1. /\ s \o t \in Seq(S) /\ Len(s \o t) = Len(s) + Len(t)
      /\ \A i \in 1..Len(s) : (s \o t)[i] = s[i]
      /\ \A i \in 1..Len(t) : (s \o t)[Len(s) + i] = t[i]
    BY ConcatProperties
<1>2. /\ Len(s) \in Nat /\ DOMAIN s = 1..Len(s)
      /\ Len(t) \in Nat /\ DOMAIN t = 1..Len(t)
      /\ DOMAIN (s \o t) = 1..Len(s \o t)
    BY <1>1, LenProperties
<1>3. ASSUME NEW x \in Range(s) PROVE x \in Range(s \o t)
    <2>1. PICK i \in 1..Len(s) : x = s[i] BY <1>2, <1>3 DEF Range
    <2>2. i \in DOMAIN (s \o t) /\ (s \o t)[i] = x BY <1>1, <1>2, <2>1
    <2> QED BY <2>2 DEF Range
<1>4. ASSUME NEW x \in Range(t) PROVE x \in Range(s \o t)
    <2>1. PICK i \in 1..Len(t) : x = t[i] BY <1>2, <1>4 DEF Range
    <2>2. Len(s) + i \in DOMAIN (s \o t) /\ (s \o t)[Len(s) + i] = x
        BY <1>1, <1>2, <2>1
    <2> QED BY <2>2 DEF Range
<1> QED BY <1>1, <1>3, <1>4

\* request_directory sends a read, with the present setting, of every directory
\* that becomes pending, and changes nothing else of the tree.
LEMMA RequestSends ==
    ASSUME NEW u \in Explorers, NEW dirs \in SUBSET Dirs, NEW refresh \in BOOLEAN,
           directory_tx \in Seq(Reads), Request(u, dirs, refresh)
    PROVE  /\ ui' \in Explorers /\ directory_tx' \in Seq(Reads)
           /\ ui'.show_hidden = u.show_hidden
           /\ ui'.git_in_flight = u.git_in_flight
           /\ \A x \in Range(directory_tx) : x \in Range(directory_tx')
           /\ \A d \in ui'.pending :
                d \notin u.pending => ReadOf(d, u) \in Range(directory_tx')
<1> DEFINE wanted == Wanted(u, dirs, refresh)
           n == Cardinality(wanted)
<1>1. wanted \subseteq Dirs /\ IsFiniteSet(wanted) /\ n \in Nat
    <2>1. wanted \subseteq Dirs BY DEF Wanted
    <2>2. IsFiniteSet(Dirs) BY TreeAssumption
    <2> QED BY <2>1, <2>2, FS_Subset, FS_CardinalityType
<1>2. ui' = [u EXCEPT !.pending = @ \cup wanted] BY DEF Request
<1>3. PICK order \in Orders(wanted) : directory_tx' = directory_tx \o
            [i \in 1..n |-> [dir |-> order[i], hidden |-> u.show_hidden]]
    BY DEF Request
<1>4. order \in [1..n -> wanted] /\ \A d \in wanted : \E i \in 1..n : order[i] = d
    BY <1>3 DEF Orders, Bijection, Injection, Surjection
<1> DEFINE sent == [i \in 1..n |-> [dir |-> order[i], hidden |-> u.show_hidden]]
<1> HIDE DEF wanted, n
<1>5. sent \in Seq(Reads)
    <2>1. \A i \in 1..n : [dir |-> order[i], hidden |-> u.show_hidden] \in Reads
        BY <1>1, <1>4 DEF Reads, Explorers
    <2> QED BY <1>1, <2>1, IsASeq
<1>6. \A d \in wanted : ReadOf(d, u) \in Range(sent)
    BY <1>4 DEF ReadOf, Range
<1>7. directory_tx' = directory_tx \o sent BY <1>3
<1> HIDE DEF sent
<1>8. /\ directory_tx' \in Seq(Reads)
      /\ \A x \in Range(directory_tx) : x \in Range(directory_tx')
      /\ \A x \in Range(sent) : x \in Range(directory_tx')
    BY <1>5, <1>7, ConcatRange
<1>9. /\ ui' \in Explorers /\ ui'.show_hidden = u.show_hidden
      /\ ui'.git_in_flight = u.git_in_flight /\ ui'.pending = u.pending \cup wanted
    BY <1>1, <1>2 DEF Explorers
<1> QED BY <1>6, <1>8, <1>9

\* sync_expanded_directories requests in the same way, and sets the watches.
LEMMA SyncSends ==
    ASSUME NEW u \in Explorers, NEW refresh \in BOOLEAN,
           directory_tx \in Seq(Reads), watch_tx \in Seq(SUBSET Dirs), Sync(u, refresh)
    PROVE  /\ ui' \in Explorers /\ directory_tx' \in Seq(Reads)
           /\ watch_tx' \in Seq(SUBSET Dirs)
           /\ ui'.show_hidden = u.show_hidden
           /\ ui'.git_in_flight = u.git_in_flight
           /\ \A x \in Range(directory_tx) : x \in Range(directory_tx')
           /\ \A d \in ui'.pending :
                d \notin u.pending => ReadOf(d, u) \in Range(directory_tx')
<1> DEFINE v == [u EXCEPT !.watched = Tree(u)]
<1>1. Tree(u) \in SUBSET Dirs BY DEF Tree
<1>2. /\ v \in Explorers /\ v.show_hidden = u.show_hidden
      /\ v.git_in_flight = u.git_in_flight /\ v.pending = u.pending
    BY <1>1 DEF Explorers
<1>3. Request(v, Tree(u), refresh) BY DEF Sync
<1>4. watch_tx' \in Seq(SUBSET Dirs)
    BY <1>1, AppendProperties DEF Sync
<1>5. \A d \in Dirs : ReadOf(d, v) = ReadOf(d, u) BY <1>2 DEF ReadOf
<1> HIDE DEF v
<1>6. /\ ui' \in Explorers /\ directory_tx' \in Seq(Reads)
      /\ ui'.show_hidden = v.show_hidden
      /\ ui'.git_in_flight = v.git_in_flight
      /\ \A x \in Range(directory_tx) : x \in Range(directory_tx')
      /\ \A d \in ui'.pending :
            d \notin v.pending => ReadOf(d, v) \in Range(directory_tx')
    BY <1>1, <1>2, <1>3, RequestSends
<1>7. ui'.pending \subseteq Dirs BY <1>6 DEF Explorers
<1>8. \A d \in ui'.pending :
            d \notin u.pending => ReadOf(d, u) \in Range(directory_tx')
    BY <1>2, <1>5, <1>6, <1>7
<1> QED BY <1>2, <1>4, <1>6, <1>8

-------------------------------------------------------------------------------
(* Git statuses *)

\* The answers that are statuses.
Statused == {i \in DOMAIN response_rx : response_rx[i].op = "Git"}

\* None is on its way, or one is: requested, or answered.
GitFits ==
    IF ui.git_in_flight
    THEN \/ Len(git_tx) = 1 /\ Statused = {}
         \/ git_tx = <<>> /\ \E i \in Statused : Statused = {i}
    ELSE git_tx = <<>> /\ Statused = {}

\* An answer that is no status is sent: the statuses keep their places.
LEMMA OtherSent ==
    ASSUME NEW r \in ExplorerResponses, response_rx \in Seq(ExplorerResponses),
           r.op # "Git", Answer(r)
    PROVE  response_rx' \in Seq(ExplorerResponses) /\ Statused' = Statused
<1>1. /\ response_rx' \in Seq(ExplorerResponses)
      /\ Len(response_rx') = Len(response_rx) + 1
      /\ \A i \in 1..Len(response_rx) : response_rx'[i] = response_rx[i]
      /\ response_rx'[Len(response_rx) + 1] = r
    BY AppendProperties DEF Answer
<1>2. /\ Len(response_rx) \in Nat /\ DOMAIN response_rx = 1..Len(response_rx)
      /\ DOMAIN response_rx' = 1..Len(response_rx')
    BY <1>1, LenProperties
<1>3. \A i : i \in Statused' <=> i \in Statused
    BY <1>1, <1>2 DEF Statused
<1> QED BY <1>1, <1>3

\* A status is sent: it is the only one if none was there.
LEMMA StatusSent ==
    ASSUME NEW r \in ExplorerResponses, response_rx \in Seq(ExplorerResponses),
           r.op = "Git", Answer(r), Statused = {}
    PROVE  /\ response_rx' \in Seq(ExplorerResponses)
           /\ \E i \in Statused' : Statused' = {i}
<1>1. /\ response_rx' \in Seq(ExplorerResponses)
      /\ Len(response_rx') = Len(response_rx) + 1
      /\ \A i \in 1..Len(response_rx) : response_rx'[i] = response_rx[i]
      /\ response_rx'[Len(response_rx) + 1] = r
    BY AppendProperties DEF Answer
<1>2. /\ Len(response_rx) \in Nat /\ DOMAIN response_rx = 1..Len(response_rx)
      /\ DOMAIN response_rx' = 1..Len(response_rx')
    BY <1>1, LenProperties
<1>3. \A i : i \in Statused' <=> i = Len(response_rx) + 1
    BY <1>1, <1>2 DEF Statused
<1> QED BY <1>1, <1>3

\* The first answer is taken, and the statuses are those after it.
LEMMA AnswerTaken ==
    ASSUME NEW op, response_rx \in Seq(ExplorerResponses), Take(op)
    PROVE  /\ response_rx' \in Seq(ExplorerResponses)
           /\ Head(response_rx) \in ExplorerResponses /\ Head(response_rx).op = op
           /\ \A i : i \in Statused' <=> i \in Nat \ {0} /\ i + 1 \in Statused
           /\ op = "Git" => 1 \in Statused
           /\ \A i \in Statused : i \in Nat \ {0} /\ (i = 1 => op = "Git")
           /\ \A r \in Range(response_rx) : r = Head(response_rx) \/ r \in Range(response_rx')
<1>1. /\ response_rx # <<>> /\ Head(response_rx).op = op
      /\ response_rx' = Tail(response_rx)
    BY DEF Take
<1>2. /\ Head(response_rx) \in ExplorerResponses
      /\ response_rx' \in Seq(ExplorerResponses)
      /\ Len(response_rx') = Len(response_rx) - 1
      /\ Head(response_rx) = response_rx[1]
      /\ \A i \in 1..Len(response_rx') : response_rx'[i] = response_rx[i + 1]
    BY <1>1, HeadTailProperties
<1>3. /\ Len(response_rx) \in Nat \ {0} /\ DOMAIN response_rx = 1..Len(response_rx)
      /\ DOMAIN response_rx' = 1..Len(response_rx')
    BY <1>1, <1>2, LenProperties, EmptySeq
<1>4. \A i : i \in Statused' <=> i \in Nat \ {0} /\ i + 1 \in Statused
    BY <1>2, <1>3 DEF Statused
<1>5. /\ op = "Git" => 1 \in Statused
      /\ \A i \in Statused : i \in Nat \ {0} /\ (i = 1 => op = "Git")
    BY <1>1, <1>2, <1>3 DEF Statused
<1>6. ASSUME NEW r \in Range(response_rx), r # Head(response_rx)
      PROVE  r \in Range(response_rx')
    <2>1. PICK i \in 1..Len(response_rx) : r = response_rx[i] BY <1>3, <1>6 DEF Range
    <2>2. i - 1 \in 1..Len(response_rx') /\ response_rx'[i - 1] = r
        BY <1>2, <1>3, <1>6, <2>1
    <2> QED BY <1>3, <2>2 DEF Range
<1> QED BY <1>1, <1>2, <1>4, <1>5, <1>6

\* The statuses stay while the answers, the requests and the flag do.
LEMMA GitKept ==
    ASSUME GitFits, Statused' = Statused, git_tx' = git_tx,
           ui'.git_in_flight = ui.git_in_flight
    PROVE  GitFits'
BY DEF GitFits

\* request_git_status asks for one status, unless one is on its way.
LEMMA GitAsked ==
    ASSUME GitFits, NEW u \in Explorers, git_tx \in Seq(Dirs), Statused' = Statused,
           u.git_in_flight = ui.git_in_flight, SendGit(u), ui.git_in_flight \in BOOLEAN,
           ui'.git_in_flight = (u.git_in_flight \/ u.display_root # NoRoot)
    PROVE  git_tx' \in Seq(Dirs) /\ GitFits'
<1>1. CASE u.git_in_flight \/ u.display_root = NoRoot
    BY <1>1, GitKept DEF SendGit
<1>2. CASE ~u.git_in_flight /\ u.display_root # NoRoot
    <2>1. git_tx = <<>> /\ Statused = {} /\ u.display_root \in Dirs
        BY <1>2 DEF GitFits, Explorers
    <2>2. git_tx' = Append(git_tx, u.display_root) BY <1>2 DEF SendGit
    <2>3. git_tx' \in Seq(Dirs) /\ Len(git_tx') = 1
        BY <2>1, <2>2, AppendProperties, EmptySeq
    <2> QED BY <1>2, <2>1, <2>3 DEF GitFits
<1> QED BY <1>1, <1>2

\* No answer is added or taken.
LEMMA SameStatuses ==
    ASSUME UNCHANGED response_rx PROVE Statused' = Statused
BY DEF Statused

-------------------------------------------------------------------------------
(* Pending directories *)

\* What is pending stays read: it is requested, or it was pending and its answer
\* has not been taken.
LEMMA PendingKept ==
    ASSUME PendingIsRead, ui \in Explorers, ui' \in Explorers,
           ui'.show_hidden = ui.show_hidden,
           \A x \in Range(directory_tx) : x \in Range(directory_tx'),
           \A d \in ui'.pending :
                \/ ReadOf(d, ui) \in Range(directory_tx')
                \/ /\ d \in ui.pending
                   /\ \A r \in Range(response_rx) :
                        r \in Range(response_rx') \/ r.op # "Listed" \/ r.dir # d
    PROVE  PendingIsRead'
<1> SUFFICES ASSUME NEW d \in ui'.pending
             PROVE  \/ ReadOf(d, ui) \in Range(directory_tx')
                    \/ \E r \in Range(response_rx') :
                        /\ r.op = "Listed" /\ r.dir = d
                        /\ r.listing.hidden = ui.show_hidden
    BY DEF PendingIsRead, ReadOf
<1>1. CASE d \in ui.pending /\ ReadOf(d, ui) \notin Range(directory_tx')
    <2>1. ReadOf(d, ui) \notin Range(directory_tx) BY <1>1
    <2>2. PICK r \in Range(response_rx) :
            /\ r.op = "Listed" /\ r.dir = d /\ r.listing.hidden = ui.show_hidden
        BY <1>1, <2>1 DEF PendingIsRead, ReadOf
    <2>3. r \in Range(response_rx') BY <1>1, <2>2
    <2> QED BY <2>2, <2>3
<1> QED BY <1>1

\* The same when the answers grow at most.
LEMMA PendingRequested ==
    ASSUME PendingIsRead, ui \in Explorers, ui' \in Explorers,
           ui'.show_hidden = ui.show_hidden,
           \A x \in Range(directory_tx) : x \in Range(directory_tx'),
           \A r \in Range(response_rx) : r \in Range(response_rx'),
           \A d \in ui'.pending :
                d \in ui.pending \/ ReadOf(d, ui) \in Range(directory_tx')
    PROVE  PendingIsRead'
<1>1. \A d \in ui'.pending :
        \/ ReadOf(d, ui) \in Range(directory_tx')
        \/ /\ d \in ui.pending
           /\ \A r \in Range(response_rx) :
                r \in Range(response_rx') \/ r.op # "Listed" \/ r.dir # d
    OBVIOUS
<1> QED BY <1>1, PendingKept

-------------------------------------------------------------------------------
(* Steps *)

ExplorerInv == Types /\ GitFits /\ PendingIsRead

\* A step of the user or the clock that asks for directories and perhaps for a
\* status, from an explorer u that keeps the pending directories and the setting.
LEMMA SyncKeeps ==
    ASSUME ExplorerInv, NEW u \in Explorers, NEW refresh \in BOOLEAN,
           Sync(u, refresh), UNCHANGED response_rx,
           u.show_hidden = ui.show_hidden, u.pending \subseteq ui.pending
    PROVE  /\ ui' \in Explorers /\ directory_tx' \in Seq(Reads)
           /\ watch_tx' \in Seq(SUBSET Dirs)
           /\ ui'.git_in_flight = u.git_in_flight
           /\ PendingIsRead'
<1>1. /\ directory_tx \in Seq(Reads) /\ watch_tx \in Seq(SUBSET Dirs)
      /\ ui \in Explorers /\ PendingIsRead
    BY DEF ExplorerInv, Types
<1>2. /\ ui' \in Explorers /\ directory_tx' \in Seq(Reads)
      /\ watch_tx' \in Seq(SUBSET Dirs)
      /\ ui'.show_hidden = u.show_hidden
      /\ ui'.git_in_flight = u.git_in_flight
      /\ \A x \in Range(directory_tx) : x \in Range(directory_tx')
      /\ \A d \in ui'.pending :
            d \notin u.pending => ReadOf(d, u) \in Range(directory_tx')
    BY <1>1, SyncSends
<1>3. /\ ui'.show_hidden = ui.show_hidden
      /\ \A d \in ui'.pending :
            d \in ui.pending \/ ReadOf(d, ui) \in Range(directory_tx')
      /\ \A r \in Range(response_rx) : r \in Range(response_rx')
    BY <1>2 DEF ReadOf
<1>4. PendingIsRead' BY <1>1, <1>2, <1>3, PendingRequested
<1> QED BY <1>2, <1>4

\* Steps of the user and of the clock.
LEMMA UserKeeps ==
    ASSUME ExplorerInv, User \/ RefreshTree \/ RefreshGit
    PROVE  ExplorerInv'
<1>1. Types /\ GitFits /\ PendingIsRead /\ ui \in Explorers BY DEF ExplorerInv, Types
<1>2. ASSUME UNCHANGED response_rx, UNCHANGED version, UNCHANGED changes,
             UNCHANGED watching, moves' \in Nat,
             ui' \in Explorers, directory_tx' \in Seq(Reads),
             watch_tx' \in Seq(SUBSET Dirs), git_tx' \in Seq(Dirs)
      PROVE  Types'
    BY <1>1, <1>2 DEF Types
<1>3. ui.git_in_flight \in BOOLEAN /\ git_tx \in Seq(Dirs) /\ moves \in Nat
      /\ watch_tx \in Seq(SUBSET Dirs) /\ directory_tx \in Seq(Reads)
    BY <1>1 DEF Types, Explorers
<1>4. ASSUME NEW cwd \in Dirs, FollowCwd(cwd) PROVE ExplorerInv'
    <2> DEFINE moved == [ui EXCEPT !.display_root = cwd, !.git = NoListing,
                                   !.expanded = @ \cup {cwd}]
               asked == AskGit(moved)
    <2>1. /\ moved \in Explorers /\ moved.git_in_flight = ui.git_in_flight
          /\ moved.show_hidden = ui.show_hidden /\ moved.pending = ui.pending
          /\ moved.display_root = cwd
        BY <1>1 DEF Explorers
    <2>2. Move /\ Sync(asked, FALSE) /\ SendGit(moved) BY <1>4 DEF FollowCwd
    <2> HIDE DEF moved
    <2>3. /\ asked \in Explorers /\ asked.show_hidden = moved.show_hidden
          /\ asked.pending = moved.pending
          /\ asked.git_in_flight = (moved.git_in_flight \/ moved.display_root # NoRoot)
        BY <2>1 DEF AskGit, Explorers
    <2> HIDE DEF asked
    <2>4. UNCHANGED <<response_rx, version, changes, watching>> /\ moves' \in Nat
        BY <1>3, <2>2 DEF Move
    <2>5. /\ ui' \in Explorers /\ directory_tx' \in Seq(Reads)
          /\ watch_tx' \in Seq(SUBSET Dirs) /\ PendingIsRead'
          /\ ui'.git_in_flight = asked.git_in_flight
        BY <2>1, <2>2, <2>3, <2>4, SyncKeeps
    <2>6. Statused' = Statused BY <2>4, SameStatuses
    <2>7. git_tx' \in Seq(Dirs) /\ GitFits'
        BY <1>1, <1>3, <2>1, <2>2, <2>3, <2>5, <2>6, GitAsked
    <2> QED BY <1>2, <2>4, <2>5, <2>7 DEF ExplorerInv
<1>5. ASSUME NEW u \in Explorers, NEW refresh \in BOOLEAN, Sync(u, refresh),
             u.show_hidden = ui.show_hidden, u.pending \subseteq ui.pending,
             u.git_in_flight = ui.git_in_flight, moves' \in Nat,
             UNCHANGED <<version, changes, git_tx, watching, response_rx>>
      PROVE  ExplorerInv'
    <2>1. /\ ui' \in Explorers /\ directory_tx' \in Seq(Reads)
          /\ watch_tx' \in Seq(SUBSET Dirs) /\ PendingIsRead'
          /\ ui'.git_in_flight = u.git_in_flight
        BY <1>5, SyncKeeps
    <2>2. Statused' = Statused BY <1>5, SameStatuses
    <2>3. GitFits' BY <1>1, <1>5, <2>1, <2>2, GitKept
    <2> QED BY <1>2, <1>3, <1>5, <2>1, <2>3 DEF ExplorerInv
<1>6. ASSUME NEW removed \in Dirs, NEW first \in Dirs \cup {NoRoot},
             RemoveRoot(removed, first)
      PROVE  ExplorerInv'
    <2> DEFINE u == [ui EXCEPT !.display_root = IF @ = removed THEN first ELSE @,
                       !.expanded = {d \in @ : ~InScope([display_root |-> removed], d)},
                       !.listings = [d \in Dirs |-> NoListing]]
    <2>1. /\ u \in Explorers /\ u.git_in_flight = ui.git_in_flight
          /\ u.show_hidden = ui.show_hidden /\ u.pending = ui.pending
        BY <1>1 DEF Explorers, MaybeListing
    <2>2. Move /\ Sync(u, FALSE) /\ UNCHANGED git_tx BY <1>6 DEF RemoveRoot
    <2>3. /\ UNCHANGED <<version, changes, git_tx, watching, response_rx>>
          /\ moves' \in Nat
        BY <1>3, <2>2 DEF Move
    <2> HIDE DEF u
    <2> QED BY <1>5, <2>1, <2>2, <2>3
<1>7. ASSUME NEW d \in Dirs, ToggleRow(d) PROVE ExplorerInv'
    <2>1. /\ UNCHANGED <<version, changes, git_tx, watch_tx, watching, response_rx>>
          /\ moves' \in Nat
        BY <1>3, <1>7 DEF ToggleRow, Move
    <2>2. Statused' = Statused BY <2>1, SameStatuses
    <2>3. \A r \in Range(response_rx) : r \in Range(response_rx') BY <2>1
    <2>4. CASE /\ ui' = [ui EXCEPT !.expanded = @ \ {d}] /\ UNCHANGED directory_tx
        <3>1. /\ ui' \in Explorers /\ ui'.show_hidden = ui.show_hidden
              /\ ui'.git_in_flight = ui.git_in_flight /\ ui'.pending = ui.pending
            BY <1>1, <2>4 DEF Explorers
        <3>2. \A x \in Range(directory_tx) : x \in Range(directory_tx') BY <2>4
        <3>3. PendingIsRead' BY <1>1, <2>3, <3>1, <3>2, PendingRequested
        <3>4. GitFits' BY <1>1, <2>1, <2>2, <3>1, GitKept
        <3> QED BY <1>2, <1>3, <2>1, <2>4, <3>1, <3>3, <3>4 DEF ExplorerInv
    <2>5. CASE Request([ui EXCEPT !.expanded = @ \cup {d}], {d}, TRUE)
        <3> DEFINE u == [ui EXCEPT !.expanded = @ \cup {d}]
        <3>1. /\ u \in Explorers /\ u.show_hidden = ui.show_hidden
              /\ u.git_in_flight = ui.git_in_flight /\ u.pending = ui.pending
            BY <1>1 DEF Explorers
        <3>2. Request(u, {d}, TRUE) /\ {d} \in SUBSET Dirs BY <2>5
        <3> HIDE DEF u
        <3>3. /\ ui' \in Explorers /\ directory_tx' \in Seq(Reads)
              /\ ui'.show_hidden = u.show_hidden
              /\ ui'.git_in_flight = u.git_in_flight
              /\ \A x \in Range(directory_tx) : x \in Range(directory_tx')
              /\ \A e \in ui'.pending :
                    e \notin u.pending => ReadOf(e, u) \in Range(directory_tx')
            BY <1>3, <3>1, <3>2, RequestSends
        <3>4. /\ ui'.show_hidden = ui.show_hidden
              /\ \A e \in ui'.pending :
                    e \in ui.pending \/ ReadOf(e, ui) \in Range(directory_tx')
            BY <3>1, <3>3 DEF ReadOf
        <3>5. PendingIsRead' BY <1>1, <2>3, <3>3, <3>4, PendingRequested
        <3>6. GitFits' BY <1>1, <2>1, <2>2, <3>1, <3>3, GitKept
        <3> QED BY <1>2, <1>3, <2>1, <3>3, <3>5, <3>6 DEF ExplorerInv
    <2> QED BY <1>7, <2>4, <2>5 DEF ToggleRow
<1>8. ASSUME ToggleHidden PROVE ExplorerInv'
    <2> DEFINE u == [ui EXCEPT !.show_hidden = ~@, !.pending = {},
                               !.listings = [d \in Dirs |-> NoListing]]
    <2>1. /\ u \in Explorers /\ u.git_in_flight = ui.git_in_flight /\ u.pending = {}
        BY <1>1 DEF Explorers, MaybeListing
    <2>2. Move /\ Sync(u, FALSE) /\ UNCHANGED git_tx BY <1>8 DEF ToggleHidden
    <2>3. /\ UNCHANGED <<version, changes, git_tx, watching, response_rx>>
          /\ moves' \in Nat
        BY <1>3, <2>2 DEF Move
    <2> HIDE DEF u
    <2>4. /\ ui' \in Explorers /\ directory_tx' \in Seq(Reads)
          /\ watch_tx' \in Seq(SUBSET Dirs)
          /\ ui'.show_hidden = u.show_hidden
          /\ ui'.git_in_flight = u.git_in_flight
          /\ \A d \in ui'.pending :
                d \notin u.pending => ReadOf(d, u) \in Range(directory_tx')
        BY <1>3, <2>1, <2>2, SyncSends
    <2>5. PendingIsRead' BY <2>1, <2>4 DEF PendingIsRead, ReadOf
    <2>6. GitFits' BY <1>1, <2>1, <2>3, <2>4, SameStatuses, GitKept
    <2> QED BY <1>2, <1>3, <2>3, <2>4, <2>5, <2>6 DEF ExplorerInv
<1>9. ASSUME RefreshTree PROVE ExplorerInv'
    <2>1. Sync(ui, TRUE) /\ UNCHANGED <<version, changes, git_tx, watching, response_rx, moves>>
        BY <1>9 DEF RefreshTree
    <2> QED BY <1>1, <1>3, <1>5, <2>1
<1>10. ASSUME RefreshGit PROVE ExplorerInv'
    <2>1. /\ UNCHANGED <<version, changes, directory_tx, watch_tx, watching,
                         response_rx, moves>>
          /\ SendGit(ui) /\ ui' = AskGit(ui)
        BY <1>10 DEF RefreshGit
    <2>2. /\ ui' \in Explorers /\ ui'.show_hidden = ui.show_hidden
          /\ ui'.pending = ui.pending
          /\ ui'.git_in_flight = (ui.git_in_flight \/ ui.display_root # NoRoot)
        BY <1>1, <2>1 DEF AskGit, Explorers
    <2>3. Statused' = Statused BY <2>1, SameStatuses
    <2>4. git_tx' \in Seq(Dirs) /\ GitFits'
        BY <1>1, <1>3, <2>1, <2>2, <2>3, GitAsked
    <2>5. PendingIsRead' BY <1>1, <2>1, <2>2 DEF PendingIsRead
    <2> QED BY <1>2, <1>3, <2>1, <2>2, <2>4, <2>5 DEF ExplorerInv
<1> QED BY <1>4, <1>6, <1>7, <1>8, <1>9, <1>10 DEF User

\* Steps of the threads, and of the directories.
LEMMA ThreadKeeps ==
    ASSUME ExplorerInv,
           (\E d \in Dirs : Change(d)) \/ ReadDirectory \/ ReadGit \/ SetWatches
    PROVE  ExplorerInv'
<1>1. /\ Types /\ GitFits /\ PendingIsRead /\ ui \in Explorers
      /\ response_rx \in Seq(ExplorerResponses) /\ git_tx \in Seq(Dirs)
      /\ directory_tx \in Seq(Reads) /\ watch_tx \in Seq(SUBSET Dirs)
      /\ version \in [Dirs -> Nat] /\ changes \in Nat
    BY DEF ExplorerInv, Types
<1>2. ASSUME NEW r \in ExplorerResponses, Answer(r)
      PROVE  /\ \A x \in Range(response_rx) : x \in Range(response_rx')
             /\ r \in Range(response_rx')
    <2>1. /\ Len(response_rx') = Len(response_rx) + 1
          /\ \A i \in 1..Len(response_rx) : response_rx'[i] = response_rx[i]
          /\ response_rx'[Len(response_rx) + 1] = r
          /\ response_rx' \in Seq(ExplorerResponses)
        BY <1>1, <1>2, AppendProperties DEF Answer
    <2>2. /\ Len(response_rx) \in Nat /\ DOMAIN response_rx = 1..Len(response_rx)
          /\ DOMAIN response_rx' = 1..Len(response_rx')
        BY <1>1, <2>1, LenProperties
    <2> QED BY <2>1, <2>2 DEF Range
<1>3. ASSUME NEW d \in Dirs, Change(d) PROVE ExplorerInv'
    <2>1. /\ UNCHANGED <<ui, directory_tx, git_tx, watch_tx, watching, moves>>
          /\ version' \in [Dirs -> Nat] /\ changes' \in Nat
        BY <1>1, <1>3 DEF Change, threads
    <2>2. /\ response_rx' \in Seq(ExplorerResponses) /\ Statused' = Statused
          /\ \A x \in Range(response_rx) : x \in Range(response_rx')
        <3> DEFINE r == [op |-> "Changed", dir |-> d]
        <3>1. r \in ExplorerResponses /\ r.op # "Git" BY DEF ExplorerResponses
        <3>2. Answer(r) \/ UNCHANGED response_rx BY <1>3 DEF Change, Answer
        <3> HIDE DEF r
        <3> QED BY <1>1, <1>2, <3>1, <3>2, OtherSent, SameStatuses
    <2>3. GitFits' BY <1>1, <2>1, <2>2, GitKept
    <2>4. PendingIsRead' BY <1>1, <2>1, <2>2 DEF PendingIsRead
    <2>5. Types' BY <1>1, <2>1, <2>2 DEF Types
    <2> QED BY <2>3, <2>4, <2>5 DEF ExplorerInv
<1>4. ASSUME ReadDirectory PROVE ExplorerInv'
    <2> DEFINE read == Head(directory_tx)
               answer == [op |-> "Listed", dir |-> read.dir,
                          listing |-> [version |-> version[read.dir],
                                       hidden |-> read.hidden]]
    <2>1. /\ directory_tx # <<>> /\ directory_tx' = Tail(directory_tx) /\ Answer(answer)
          /\ UNCHANGED <<version, changes, ui, git_tx, watch_tx, watching, moves>>
        BY <1>4 DEF ReadDirectory
    <2>2. /\ read \in Reads /\ directory_tx' \in Seq(Reads)
          /\ Len(directory_tx') = Len(directory_tx) - 1
          /\ read = directory_tx[1]
          /\ \A i \in 1..Len(directory_tx') : directory_tx'[i] = directory_tx[i + 1]
        BY <1>1, <2>1, HeadTailProperties
    <2>3. \A x \in Range(directory_tx) : x = read \/ x \in Range(directory_tx')
        <3> SUFFICES ASSUME NEW x \in Range(directory_tx), x # read
                     PROVE  x \in Range(directory_tx')
            OBVIOUS
        <3>1. /\ Len(directory_tx) \in Nat /\ DOMAIN directory_tx = 1..Len(directory_tx)
              /\ DOMAIN directory_tx' = 1..Len(directory_tx')
            BY <1>1, <2>2, LenProperties
        <3>2. PICK i \in 1..Len(directory_tx) : x = directory_tx[i] BY <3>1 DEF Range
        <3>3. i # 1 BY <2>2, <3>2
        <3>4. i - 1 \in 1..Len(directory_tx') /\ directory_tx'[i - 1] = x
            BY <2>2, <3>1, <3>2, <3>3
        <3> QED BY <3>1, <3>4 DEF Range
    <2> HIDE DEF read
    <2>4. answer \in ExplorerResponses /\ answer.op = "Listed"
          /\ answer.dir = read.dir /\ answer.listing.hidden = read.hidden
        BY <1>1, <2>2 DEF ExplorerResponses, Listings, Reads
    <2> HIDE DEF answer
    <2>5. /\ \A x \in Range(response_rx) : x \in Range(response_rx')
          /\ answer \in Range(response_rx')
        BY <1>2, <2>1, <2>4
    <2>6. response_rx' \in Seq(ExplorerResponses) /\ Statused' = Statused
        BY <1>1, <2>1, <2>4, OtherSent
    <2>7. GitFits' BY <1>1, <2>1, <2>6, GitKept
    <2>8. PendingIsRead'
        <3> SUFFICES ASSUME NEW d \in ui.pending
                     PROVE  \/ [dir |-> d, hidden |-> ui.show_hidden] \in Range(directory_tx')
                            \/ \E r \in Range(response_rx') :
                                /\ r.op = "Listed" /\ r.dir = d
                                /\ r.listing.hidden = ui.show_hidden
            BY <2>1 DEF PendingIsRead
        <3>1. CASE [dir |-> d, hidden |-> ui.show_hidden] = read
            BY <2>4, <2>5, <3>1
        <3>2. CASE [dir |-> d, hidden |-> ui.show_hidden] # read
            BY <1>1, <2>3, <2>5, <3>2 DEF PendingIsRead
        <3> QED BY <3>1, <3>2
    <2>9. Types' BY <1>1, <2>1, <2>2, <2>6 DEF Types
    <2> QED BY <2>7, <2>8, <2>9 DEF ExplorerInv
<1>5. ASSUME ReadGit PROVE ExplorerInv'
    <2> DEFINE answer == [op |-> "Git",
                          status |-> [root |-> Head(git_tx), changes |-> changes]]
    <2>1. /\ git_tx # <<>> /\ git_tx' = Tail(git_tx) /\ Answer(answer)
          /\ UNCHANGED <<version, changes, ui, directory_tx, watch_tx, watching, moves>>
        BY <1>5 DEF ReadGit
    <2>2. /\ Head(git_tx) \in Dirs /\ git_tx' \in Seq(Dirs)
          /\ Len(git_tx') = Len(git_tx) - 1
        BY <1>1, <2>1, HeadTailProperties
    <2>3. answer \in ExplorerResponses /\ answer.op = "Git"
        BY <1>1, <2>2 DEF ExplorerResponses, Statuses
    <2> HIDE DEF answer
    <2>4. ui.git_in_flight /\ Len(git_tx) = 1 /\ Statused = {}
        BY <1>1, <2>1 DEF GitFits
    <2>5. /\ response_rx' \in Seq(ExplorerResponses)
          /\ \E i \in Statused' : Statused' = {i}
        BY <1>1, <2>1, <2>3, <2>4, StatusSent
    <2>6. git_tx' = <<>> BY <2>2, <2>4, EmptySeq
    <2>7. GitFits' BY <2>1, <2>4, <2>5, <2>6 DEF GitFits
    <2>8. PendingIsRead' BY <1>1, <1>2, <2>1, <2>3 DEF PendingIsRead
    <2>9. Types' BY <1>1, <2>1, <2>2, <2>5 DEF Types
    <2> QED BY <2>7, <2>8, <2>9 DEF ExplorerInv
<1>6. ASSUME SetWatches PROVE ExplorerInv'
    <2>1. /\ watch_tx # <<>> /\ watch_tx' = Tail(watch_tx) /\ watching' = Head(watch_tx)
          /\ UNCHANGED <<version, changes, ui, directory_tx, git_tx, response_rx, moves>>
        BY <1>6 DEF SetWatches
    <2>2. Head(watch_tx) \in SUBSET Dirs /\ watch_tx' \in Seq(SUBSET Dirs)
        BY <1>1, <2>1, HeadTailProperties
    <2>3. GitFits' BY <1>1, <2>1, SameStatuses, GitKept
    <2>4. PendingIsRead' BY <1>1, <2>1 DEF PendingIsRead
    <2>5. Types' BY <1>1, <2>1, <2>2 DEF Types
    <2> QED BY <2>3, <2>4, <2>5 DEF ExplorerInv
<1> QED BY <1>3, <1>4, <1>5, <1>6

\* Steps of explorer_tick.
LEMMA TickKeeps == ASSUME ExplorerInv, Tick PROVE ExplorerInv'
<1>1. /\ Types /\ GitFits /\ PendingIsRead /\ ui \in Explorers
      /\ response_rx \in Seq(ExplorerResponses) /\ git_tx \in Seq(Dirs)
      /\ directory_tx \in Seq(Reads) /\ watch_tx \in Seq(SUBSET Dirs)
      /\ ui.git_in_flight \in BOOLEAN
    BY DEF ExplorerInv, Types, Explorers
<1>2. ASSUME NEW op, Take(op), ui' \in Explorers, directory_tx' \in Seq(Reads),
             watch_tx' \in Seq(SUBSET Dirs), git_tx' \in Seq(Dirs)
      PROVE  Types'
    BY <1>1, <1>2, AnswerTaken DEF Types, Take
<1>3. ASSUME NEW op, Take(op), op # "Git"
      PROVE  /\ Statused = {} => Statused' = {}
             /\ (\E i \in Statused : Statused = {i})
                    => \E i \in Statused' : Statused' = {i}
    <2>1. /\ \A i : i \in Statused' <=> i \in Nat \ {0} /\ i + 1 \in Statused
          /\ \A i \in Statused : i \in Nat \ {0} /\ i # 1
        BY <1>1, <1>3, AnswerTaken
    <2>2. ASSUME NEW i \in Statused, Statused = {i} PROVE Statused' = {i - 1}
        BY <2>1, <2>2
    <2>3. Statused = {} => Statused' = {} BY <2>1
    <2> QED BY <2>2, <2>3
<1>4. ASSUME ApplyListing PROVE ExplorerInv'
    <2> DEFINE response == Head(response_rx)
               u == [ui EXCEPT !.pending = @ \ {response.dir},
                               !.listings[response.dir] = response.listing]
    <2>1. Take("Listed") /\ Sync(u, FALSE) /\ UNCHANGED git_tx
        BY <1>4 DEF ApplyListing
    <2>2. /\ response \in ExplorerResponses /\ response.op = "Listed"
          /\ response_rx' \in Seq(ExplorerResponses)
          /\ \A r \in Range(response_rx) : r = response \/ r \in Range(response_rx')
        BY <1>1, <2>1, AnswerTaken
    <2> HIDE DEF response
    <2>3. response.dir \in Dirs /\ response.listing \in Listings
        BY <2>2 DEF ExplorerResponses
    <2>4. /\ u \in Explorers /\ u.git_in_flight = ui.git_in_flight
          /\ u.show_hidden = ui.show_hidden /\ u.pending = ui.pending \ {response.dir}
        <3>1. [ui.listings EXCEPT ![response.dir] = response.listing] \in [Dirs -> MaybeListing]
            BY <1>1, <2>3 DEF Explorers, MaybeListing
        <3> QED BY <1>1, <3>1 DEF Explorers
    <2> HIDE DEF u
    <2>5. /\ ui' \in Explorers /\ directory_tx' \in Seq(Reads)
          /\ watch_tx' \in Seq(SUBSET Dirs)
          /\ ui'.show_hidden = u.show_hidden
          /\ ui'.git_in_flight = u.git_in_flight
          /\ \A x \in Range(directory_tx) : x \in Range(directory_tx')
          /\ \A d \in ui'.pending :
                d \notin u.pending => ReadOf(d, u) \in Range(directory_tx')
        BY <1>1, <2>1, <2>4, SyncSends
    <2>6. /\ ui'.show_hidden = ui.show_hidden
          /\ \A d \in ui'.pending :
                \/ ReadOf(d, ui) \in Range(directory_tx')
                \/ /\ d \in ui.pending
                   /\ \A r \in Range(response_rx) :
                        r \in Range(response_rx') \/ r.op # "Listed" \/ r.dir # d
        BY <2>2, <2>4, <2>5 DEF ReadOf
    <2>7. PendingIsRead' BY <1>1, <2>5, <2>6, PendingKept
    <2>8. GitFits' BY <1>1, <1>3, <2>1, <2>4, <2>5 DEF GitFits
    <2>9. Types' BY <1>1, <1>2, <2>1, <2>5
    <2> QED BY <2>7, <2>8, <2>9 DEF ExplorerInv
<1>5. ASSUME ApplyChange PROVE ExplorerInv'
    <2> DEFINE d == Head(response_rx).dir
               dirs == IF d \in ui.expanded /\ (ui.display_root = NoRoot \/ InScope(ui, d))
                       THEN {d} ELSE {}
               u == AskGit(ui)
    <2>1. Take("Changed") /\ Request(u, dirs, TRUE) /\ SendGit(ui) /\ UNCHANGED watch_tx
        BY <1>5 DEF ApplyChange
    <2>2. /\ Head(response_rx) \in ExplorerResponses /\ Head(response_rx).op = "Changed"
          /\ response_rx' \in Seq(ExplorerResponses)
          /\ \A r \in Range(response_rx) : r = Head(response_rx) \/ r \in Range(response_rx')
        BY <1>1, <2>1, AnswerTaken
    <2>3. d \in Dirs /\ dirs \in SUBSET Dirs BY <2>2 DEF ExplorerResponses
    <2>4. /\ u \in Explorers /\ u.show_hidden = ui.show_hidden /\ u.pending = ui.pending
          /\ u.git_in_flight = (ui.git_in_flight \/ ui.display_root # NoRoot)
        BY <1>1 DEF AskGit, Explorers
    <2> HIDE DEF u, dirs
    <2>5. /\ ui' \in Explorers /\ directory_tx' \in Seq(Reads)
          /\ ui'.show_hidden = u.show_hidden
          /\ ui'.git_in_flight = u.git_in_flight
          /\ \A x \in Range(directory_tx) : x \in Range(directory_tx')
          /\ \A e \in ui'.pending :
                e \notin u.pending => ReadOf(e, u) \in Range(directory_tx')
        BY <1>1, <2>1, <2>3, <2>4, RequestSends
    <2>6. /\ ui'.show_hidden = ui.show_hidden
          /\ \A e \in ui'.pending :
                \/ ReadOf(e, ui) \in Range(directory_tx')
                \/ /\ e \in ui.pending
                   /\ \A r \in Range(response_rx) :
                        r \in Range(response_rx') \/ r.op # "Listed" \/ r.dir # e
        BY <2>2, <2>4, <2>5 DEF ReadOf
    <2>7. PendingIsRead' BY <1>1, <2>5, <2>6, PendingKept
    <2>8. git_tx' \in Seq(Dirs) /\ GitFits'
        <3>1. CASE ui.git_in_flight \/ ui.display_root = NoRoot
            <4>1. UNCHANGED git_tx BY <2>1, <3>1 DEF SendGit
            <4>2. ui'.git_in_flight = ui.git_in_flight BY <1>1, <2>4, <2>5, <3>1
            <4> QED BY <1>1, <1>3, <2>1, <4>1, <4>2 DEF GitFits
        <3>2. CASE ~ui.git_in_flight /\ ui.display_root # NoRoot
            <4>1. git_tx = <<>> /\ Statused = {} /\ ui.display_root \in Dirs
                BY <1>1, <3>2 DEF GitFits, Explorers
            <4>2. git_tx' = Append(git_tx, ui.display_root) BY <2>1, <3>2 DEF SendGit
            <4>3. git_tx' \in Seq(Dirs) /\ Len(git_tx') = 1
                BY <4>1, <4>2, AppendProperties, EmptySeq
            <4>4. Statused' = {} BY <1>3, <2>1, <4>1
            <4> QED BY <2>4, <2>5, <3>2, <4>3, <4>4 DEF GitFits
        <3> QED BY <3>1, <3>2
    <2>9. Types' BY <1>1, <1>2, <2>1, <2>5, <2>8
    <2> QED BY <2>7, <2>8, <2>9 DEF ExplorerInv
<1>6. ASSUME ApplyGit PROVE ExplorerInv'
    <2> DEFINE status == Head(response_rx).status
    <2>1. /\ Take("Git") /\ UNCHANGED <<directory_tx, git_tx, watch_tx>>
          /\ ui' = [ui EXCEPT !.git_in_flight = FALSE,
                        !.git = IF status.root = ui.display_root THEN status ELSE @]
        BY <1>6 DEF ApplyGit
    <2>2. /\ Head(response_rx) \in ExplorerResponses /\ Head(response_rx).op = "Git"
          /\ \A i : i \in Statused' <=> i \in Nat \ {0} /\ i + 1 \in Statused
          /\ 1 \in Statused
          /\ \A r \in Range(response_rx) : r = Head(response_rx) \/ r \in Range(response_rx')
        BY <1>1, <2>1, AnswerTaken
    <2>3. status \in Statuses BY <2>2 DEF ExplorerResponses
    <2> HIDE DEF status
    <2>4. /\ ui' \in Explorers /\ ~ui'.git_in_flight
          /\ ui'.show_hidden = ui.show_hidden /\ ui'.pending = ui.pending
        BY <1>1, <2>1, <2>3 DEF Explorers
    <2>5. git_tx = <<>> /\ Statused = {1} BY <1>1, <2>2 DEF GitFits
    <2>6. Statused' = {} BY <2>2, <2>5
    <2>7. GitFits' BY <2>1, <2>4, <2>5, <2>6 DEF GitFits
    <2>8. \A d \in ui'.pending : d \in ui.pending
            /\ \A r \in Range(response_rx) :
                    r \in Range(response_rx') \/ r.op # "Listed" \/ r.dir # d
        BY <2>2, <2>4
    <2>9. \A x \in Range(directory_tx) : x \in Range(directory_tx') BY <2>1
    <2>10. PendingIsRead' BY <1>1, <2>4, <2>8, <2>9, PendingKept
    <2>11. Types' BY <1>1, <1>2, <2>1, <2>4
    <2> QED BY <2>7, <2>10, <2>11 DEF ExplorerInv
<1> QED BY <1>4, <1>5, <1>6 DEF Tick

-------------------------------------------------------------------------------
(* Theorems *)

LEMMA ExplorerInvariant == Spec => []ExplorerInv
<1>1. Init => ExplorerInv
    <2> SUFFICES ASSUME Init PROVE ExplorerInv OBVIOUS
    <2>1. /\ ui \in Explorers /\ ui.pending = {} /\ ~ui.git_in_flight
        BY DEF Init, Explorers, MaybeListing
    <2>2. git_tx = <<>> /\ Statused = {} BY DEF Init, Statused
    <2>3. GitFits BY <2>1, <2>2 DEF GitFits
    <2>4. PendingIsRead BY <2>1 DEF PendingIsRead
    <2>5. Types BY <2>1, EmptySeq DEF Init, Types
    <2> QED BY <2>3, <2>4, <2>5 DEF ExplorerInv
<1>2. ASSUME ExplorerInv, [Next]_vars PROVE ExplorerInv'
    <2>1. CASE User \/ RefreshTree \/ RefreshGit BY <1>2, <2>1, UserKeeps
    <2>2. CASE Tick BY <1>2, <2>2, TickKeeps
    <2>3. CASE (\E d \in Dirs : Change(d)) \/ ReadDirectory \/ ReadGit \/ SetWatches
        BY <1>2, <2>3, ThreadKeeps
    <2>4. CASE UNCHANGED vars
        BY <1>2, <2>4
        DEF vars, threads, ExplorerInv, Types, GitFits, Statused, PendingIsRead
    <2> QED BY <1>2, <2>1, <2>2, <2>3, <2>4 DEF Next
<1> QED BY <1>1, <1>2, PTL DEF Spec

\* Every variable keeps its type, and at most one Git status is on its way, and
\* only while the flag says so, for any directories and any number of changes.
THEOREM ExplorerTypeCorrect == Spec => []ExplorerTypeOK
<1>1. ExplorerInv => ExplorerTypeOK
    BY DEF ExplorerInv, Types, GitFits, Statused, ExplorerTypeOK
<1> QED BY <1>1, ExplorerInvariant, PTL

\* A pending directory is always being read with the present setting of hidden
\* files, in any tree and whatever the user, the watches and the clock ask for.
THEOREM PendingReadCorrect == Spec => []PendingIsRead
<1>1. ExplorerInv => PendingIsRead BY DEF ExplorerInv
<1> QED BY <1>1, ExplorerInvariant, PTL

================================================================================
