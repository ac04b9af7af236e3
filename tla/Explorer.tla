-------------------------------- MODULE Explorer --------------------------------
(***************************************************************************)
(* The tree of ExplorerUi: directory listings read by the                  *)
(* "cosmos-directory-reader" thread, Git decorations read by               *)
(* "cosmos-git-status", and the filesystem watches that ask for both again.*)
(* The three threads answer on one channel that explorer_tick drains.      *)
(* Directories change, the root follows the working directory of a pane,   *)
(* and the user expands folders and toggles hidden files meanwhile.        *)
(***************************************************************************)
EXTENDS Naturals, Sequences, FiniteSets, SequencesExt

CONSTANTS
    Dirs,          \* directories
    Ancestors,     \* Ancestors[d]: the directories above d
    HiddenDirs,    \* directories whose name starts with a dot
    NoRoot, NoListing,
    MaxChanges,    \* bound: changes of directories
    MaxMoves       \* bound: changes of root, expansion and setting

ASSUME TreeAssumption ==
    /\ IsFiniteSet(Dirs) /\ HiddenDirs \subseteq Dirs
    /\ Ancestors \in [Dirs -> SUBSET Dirs]
    /\ \A d \in Dirs : d \notin Ancestors[d]
    /\ NoRoot \notin Dirs
ASSUME ExplorerBoundAssumption == MaxChanges \in Nat /\ MaxMoves \in Nat

VARIABLES
    version,       \* what each directory holds: the number of its last change
    changes,       \* number of changes
    ui,            \* ExplorerUi, with the parts of ExplorerState it reads
    directory_tx,  \* requests to cosmos-directory-reader
    git_tx,        \* requests to cosmos-git-status
    watch_tx,      \* sets of directories to watch
    watching,      \* directories the operating system watches
    response_rx,   \* responses of the threads
    moves

threads == <<directory_tx, git_tx, watch_tx, watching>>
vars == <<version, changes, ui, threads, response_rx, moves>>

Listings == [version : Nat, hidden : BOOLEAN]
MaybeListing == Listings \cup {NoListing}

\* A repository status is that of a root after a number of changes.
Statuses == [root : Dirs, changes : Nat]

Explorers ==
    [display_root : Dirs \cup {NoRoot}, expanded : SUBSET Dirs,
     show_hidden : BOOLEAN, listings : [Dirs -> MaybeListing],
     pending : SUBSET Dirs, watched : SUBSET Dirs,
     git : Statuses \cup {NoListing}, git_in_flight : BOOLEAN]

Reads == [dir : Dirs, hidden : BOOLEAN]

ExplorerResponses ==
    [op : {"Listed"}, dir : Dirs, listing : Listings]
        \cup [op : {"Changed"}, dir : Dirs] \cup [op : {"Git"}, status : Statuses]

Init ==
    /\ version = [d \in Dirs |-> 0] /\ changes = 0
    /\ \E expanded \in SUBSET Dirs, show_hidden \in BOOLEAN :
        ui = [display_root |-> NoRoot, expanded |-> expanded,
              show_hidden |-> show_hidden,
              listings |-> [d \in Dirs |-> NoListing], pending |-> {},
              watched |-> {}, git |-> NoListing, git_in_flight |-> FALSE]
    /\ directory_tx = <<>> /\ git_tx = <<>> /\ watch_tx = <<>>
    /\ watching = {}
    /\ response_rx = <<>>
    /\ moves = 0

-------------------------------------------------------------------------------
\* The tree on the screen.

InScope(u, d) == d = u.display_root \/ u.display_root \in Ancestors[d]

Parent(d) == CHOOSE a \in Ancestors[d] : Ancestors[a] \cup {a} = Ancestors[d]

\* The listing of its parent is loaded, shown, and names d.
Named(u, d) ==
    /\ Parent(d) \in u.expanded /\ u.listings[Parent(d)] # NoListing
    /\ d \in HiddenDirs => u.listings[Parent(d)].hidden

\* d has a row: every directory from the root down to it is named.
Listed(u, d) ==
    /\ InScope(u, d)
    /\ \A e \in {d} \cup Ancestors[d] :
            InScope(u, e) /\ e # u.display_root => Named(u, e)

\* The root and the expanded rows of rows_for_root.
Tree(u) == {d \in Dirs : d = u.display_root \/ (d \in u.expanded /\ Listed(u, d))}

\* By depth; which of two names of one depth comes first is left open.
Orders(dirs) ==
    {order \in Bijection(1..Cardinality(dirs), dirs) : \A i, j \in DOMAIN order :
        i < j => Cardinality(Ancestors[order[i]]) <= Cardinality(Ancestors[order[j]])}

-------------------------------------------------------------------------------
\* Updates of the ExplorerUi and the requests they send.

\* Mutant of Wanted: periodic and watcher refreshes skip what is loaded.
WantedOnce(u, dirs, refresh) ==
    {d \in dirs \ u.pending : u.listings[d] = NoListing}

\* The directories for which request_directory sends a request.
Wanted(u, dirs, refresh) ==
    {d \in dirs \ u.pending : refresh \/ u.listings[d] = NoListing}

\* request_directory, for some directories.
Request(u, dirs, refresh) ==
    LET wanted == Wanted(u, dirs, refresh) IN
    /\ ui' = [u EXCEPT !.pending = @ \cup wanted]
    /\ \E order \in Orders(wanted) :
        directory_tx' = directory_tx \o
            [i \in 1..Cardinality(wanted) |->
                [dir |-> order[i], hidden |-> u.show_hidden]]

\* sync_expanded_directories
Sync(u, refresh) ==
    /\ Request([u EXCEPT !.watched = Tree(u)], Tree(u), refresh)
    /\ watch_tx' = IF Tree(u) = u.watched THEN watch_tx ELSE Append(watch_tx, Tree(u))

\* request_git_status
AskGit(u) == [u EXCEPT !.git_in_flight = @ \/ u.display_root # NoRoot]
SendGit(u) ==
    git_tx' = IF u.git_in_flight \/ u.display_root = NoRoot THEN git_tx
              ELSE Append(git_tx, u.display_root)

-------------------------------------------------------------------------------
\* The user, the panes and the clock.

Move == moves < MaxMoves /\ moves' = moves + 1 /\ UNCHANGED <<version, changes, watching, response_rx>>

\* apply_context and set_display_root.
FollowCwd(cwd) ==
    LET moved == [ui EXCEPT !.display_root = cwd, !.git = NoListing,
                            !.expanded = @ \cup {cwd}]
    IN /\ Move /\ cwd # ui.display_root
       /\ Sync(AskGit(moved), FALSE) /\ SendGit(moved)

\* remove_selected_workspace_root; first is the first root left.  The cache is
\* cleared, and the pending requests are not.
RemoveRoot(removed, first) ==
    /\ Move /\ first # removed
    /\ Sync([ui EXCEPT !.display_root = IF @ = removed THEN first ELSE @,
                       !.expanded = {d \in @ : ~InScope([display_root |-> removed], d)},
                       !.listings = [d \in Dirs |-> NoListing]], FALSE)
    /\ UNCHANGED git_tx

\* toggle_row, of a row painted last: d may have lost its row since.
ToggleRow(d) ==
    /\ Move /\ ui.display_root # NoRoot
    /\ \/ /\ d \in ui.expanded /\ ui' = [ui EXCEPT !.expanded = @ \ {d}]
          /\ UNCHANGED directory_tx
       \/ /\ d \notin ui.expanded
          /\ Request([ui EXCEPT !.expanded = @ \cup {d}], {d}, TRUE)
    /\ UNCHANGED <<git_tx, watch_tx>>

\* Mutant of ToggleHidden: what was pending stays pending.
ToggleHiddenKeepsPending ==
    /\ Move
    /\ Sync([ui EXCEPT !.show_hidden = ~@,
                       !.listings = [d \in Dirs |-> NoListing]], FALSE)
    /\ UNCHANGED git_tx

\* toggle_explorer_hidden_files
ToggleHidden ==
    /\ Move
    /\ Sync([ui EXCEPT !.show_hidden = ~@, !.pending = {},
                       !.listings = [d \in Dirs |-> NoListing]], FALSE)
    /\ UNCHANGED git_tx

\* refresh_expanded_directories, every DIRECTORY_REFRESH_INTERVAL.
RefreshTree ==
    /\ Sync(ui, TRUE)
    /\ UNCHANGED <<version, changes, git_tx, watching, response_rx, moves>>

\* request_git_status, every GIT_STATUS_REFRESH_INTERVAL.
RefreshGit ==
    /\ ui' = AskGit(ui) /\ SendGit(ui)
    /\ UNCHANGED <<version, changes, directory_tx, watch_tx, watching,
                   response_rx, moves>>

-------------------------------------------------------------------------------
\* The file system and the threads.

\* A watched change is reported, unless the platform misses it.
Change(d) ==
    /\ changes < MaxChanges /\ changes' = changes + 1
    /\ version' = [version EXCEPT ![d] = changes + 1]
    /\ \/ d \in watching
          /\ response_rx' = Append(response_rx, [op |-> "Changed", dir |-> d])
       \/ UNCHANGED response_rx
    /\ UNCHANGED <<ui, threads, moves>>

Answer(response) == response_rx' = Append(response_rx, response)

\* DirectoryListing::read
ReadDirectory ==
    /\ directory_tx # <<>> /\ directory_tx' = Tail(directory_tx)
    /\ LET read == Head(directory_tx) IN
        Answer([op |-> "Listed", dir |-> read.dir,
                listing |-> [version |-> version[read.dir], hidden |-> read.hidden]])
    /\ UNCHANGED <<version, changes, ui, git_tx, watch_tx, watching, moves>>

\* GitStatusSnapshot::read
ReadGit ==
    /\ git_tx # <<>> /\ git_tx' = Tail(git_tx)
    /\ Answer([op |-> "Git",
               status |-> [root |-> Head(git_tx), changes |-> changes]])
    /\ UNCHANGED <<version, changes, ui, directory_tx, watch_tx, watching, moves>>

SetWatches ==
    /\ watch_tx # <<>> /\ watch_tx' = Tail(watch_tx)
    /\ watching' = Head(watch_tx)
    /\ UNCHANGED <<version, changes, ui, directory_tx, git_tx, response_rx, moves>>

-------------------------------------------------------------------------------
\* explorer_tick

Take(op) ==
    /\ response_rx # <<>> /\ Head(response_rx).op = op
    /\ response_rx' = Tail(response_rx)
    /\ UNCHANGED <<version, changes, watching, moves>>

ApplyListing ==
    /\ Take("Listed")
    /\ LET response == Head(response_rx) IN
        Sync([ui EXCEPT !.pending = @ \ {response.dir},
                        !.listings[response.dir] = response.listing], FALSE)
    /\ UNCHANGED git_tx

\* refresh_changed_paths, then request_git_status.
ApplyChange ==
    /\ Take("Changed")
    /\ LET d == Head(response_rx).dir IN
        Request(AskGit(ui),
                IF d \in ui.expanded /\ (ui.display_root = NoRoot \/ InScope(ui, d))
                THEN {d} ELSE {}, TRUE)
    /\ SendGit(ui) /\ UNCHANGED watch_tx

\* Mutant of ApplyGit: a status of another root leaves its request in flight.
ApplyGitOfRoot ==
    /\ Take("Git")
    /\ LET status == Head(response_rx).status IN
        ui' = IF status.root = ui.display_root
              THEN [ui EXCEPT !.git_in_flight = FALSE, !.git = status] ELSE ui
    /\ UNCHANGED <<directory_tx, git_tx, watch_tx>>

ApplyGit ==
    /\ Take("Git")
    /\ LET status == Head(response_rx).status IN
        ui' = [ui EXCEPT !.git_in_flight = FALSE,
                         !.git = IF status.root = ui.display_root THEN status ELSE @]
    /\ UNCHANGED <<directory_tx, git_tx, watch_tx>>

-------------------------------------------------------------------------------
Tick == ApplyListing \/ ApplyChange \/ ApplyGit

User ==
    \/ \E d \in Dirs : FollowCwd(d) \/ ToggleRow(d)
    \/ \E removed \in Dirs, first \in Dirs \cup {NoRoot} : RemoveRoot(removed, first)
    \/ ToggleHidden

Next ==
    \/ User \/ RefreshTree \/ RefreshGit \/ Tick
    \/ \E d \in Dirs : Change(d)
    \/ ReadDirectory \/ ReadGit \/ SetWatches

\* The threads serve their queues, and the tick reschedules itself for ever.
Fairness ==
    /\ WF_vars(ReadDirectory) /\ WF_vars(ReadGit) /\ WF_vars(SetWatches)
    /\ WF_vars(Tick) /\ WF_vars(RefreshTree) /\ WF_vars(RefreshGit)

Spec == Init /\ [][Next]_vars /\ Fairness

-------------------------------------------------------------------------------
(* Properties *)

\* Every variable keeps its type; a request for a status is in flight exactly
\* when one is queued, served or answered, and there is never a second one.
ExplorerTypeOK ==
    /\ version \in [Dirs -> Nat] /\ changes \in Nat /\ moves \in Nat
    /\ ui \in Explorers
    /\ directory_tx \in Seq(Reads) /\ git_tx \in Seq(Dirs)
    /\ watch_tx \in Seq(SUBSET Dirs) /\ watching \subseteq Dirs
    /\ response_rx \in Seq(ExplorerResponses)
    /\ LET answers == {i \in DOMAIN response_rx : response_rx[i].op = "Git"} IN
        IF ui.git_in_flight
        THEN \/ Len(git_tx) = 1 /\ answers = {}
             \/ git_tx = <<>> /\ \E i \in answers : answers = {i}
        ELSE git_tx = <<>> /\ answers = {}

\* A pending directory is being read with the present setting of hidden files,
\* whatever was requested, cleared or answered before: nothing else would ever
\* end its pending state, and it would never be refreshed again.
PendingIsRead ==
    \A d \in ui.pending :
        \/ [dir |-> d, hidden |-> ui.show_hidden] \in Range(directory_tx)
        \/ \E response \in Range(response_rx) :
            /\ response.op = "Listed" /\ response.dir = d
            /\ response.listing.hidden = ui.show_hidden

\* The tree catches up with the directories and the setting of hidden files,
\* although events are missed or dropped while a listing is pending, and
\* listings of an earlier setting arrive late.
TreeCatchesUp ==
    <>[](\A d \in Tree(ui) :
            ui.listings[d] = [version |-> version[d], hidden |-> ui.show_hidden])

\* The decorations catch up with the repository of the root, although requests
\* are dropped while the status of another root is in flight.
GitCatchesUp ==
    <>[](ui.display_root # NoRoot =>
            ui.git = [root |-> ui.display_root, changes |-> changes])
===============================================================================
