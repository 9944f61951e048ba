------------------------------ MODULE FileWatch ------------------------------
(***************************************************************************)
(* FileMonitor on Linux: inotify watches on the directories below one path  *)
(* of fim.paths that ends in "/", beside processes that create, rename and  *)
(* move directories meanwhile.  A watch belongs to a directory, whatever it *)
(* is called now; the monitor knows it by the path it had when the watch    *)
(* was added, and walks by path.                                            *)
(*                                                                          *)
(* Directories hang under Top, which stays where it is.  A directory that   *)
(* is Outside is not below Top: not made yet, or moved away with its watch, *)
(* or deleted.  Files in the directories are left out.  Top itself, or a     *)
(* single file in it, may be one more path of fim.paths, listed before.      *)
(***************************************************************************)
EXTENDS Naturals, Sequences, FiniteSets, SequencesExt

CONSTANTS
    Top, Outside,
    Dirs,           \* directories
    Names,          \* names directories have
    RootName,       \* the configured path is Top's RootName
    RootAtStart,    \* the directory there when the monitor starts, or Outside
    Configs,        \* the rest of fim.paths and fim.exclude_paths, one of these
    QueueLen,       \* events inotify holds
    MaxMoves        \* bound: creations and renames

ASSUME FileAssumption ==
    /\ IsFiniteSet(Dirs) /\ Top \notin Dirs /\ Outside \notin Dirs \cup {Top}
    /\ RootName \in Names /\ RootAtStart \in Dirs \cup {Outside}
    /\ Configs \subseteq [top : BOOLEAN,    \* is Top watched, for itself or a file in it?
                           targets : SUBSET (Seq(STRING) \X STRING), \* single files: where, name
                           exclude : SUBSET Seq(STRING)]
    /\ QueueLen \in Nat /\ MaxMoves \in Nat

VARIABLES
    fwConf,     \* the configuration
    fwAt,       \* fwAt[d]: the directory d is in, and its name there
    fwWatched,  \* directories inotify watches
    fwQueue,    \* events: <<directory, name>> that a directory was put at
    fwOver,     \* an event did not fit in the queue
    fwPath,     \* watches: the path of each watched directory
    fwWalk,     \* what watchTree has still to do: <<"watch" or "list", path>>
    fwMoves,    \* creations and renames so far
    fwKept      \* history: the path still is the directory found at the start

fileVars == <<fwConf, fwAt, fwWatched, fwQueue, fwOver, fwPath, fwWalk, fwMoves, fwKept>>

Nowhere == <<Outside, RootName>>

\* The path of Top is <<>>; a path is the names below it.
NoPath == <<"none">>

FileInit ==
    /\ fwConf \in Configs
    /\ fwAt = [d \in Dirs |-> IF d = RootAtStart THEN <<Top, RootName>> ELSE Nowhere]
    /\ fwWatched = IF fwConf.top THEN {Top} ELSE {}
    /\ fwPath = [d \in Dirs \cup {Top} |-> IF d \in fwWatched THEN <<>> ELSE NoPath]
    /\ fwQueue = <<>> /\ fwOver = FALSE /\ fwMoves = 0 /\ fwKept = (RootAtStart # Outside)
    /\ fwWalk = IF RootAtStart = Outside THEN <<>> ELSE << <<"watch", <<RootName>> >> >>

-----------------------------------------------------------------------------
(* The file system *)

\* The directories on the way along a path, from Top name by name.
Leads(way, path) ==
    /\ way[0] = Top
    /\ \A n \in 1..Len(path) : way[n] \in Dirs /\ fwAt[way[n]] = <<way[n - 1], path[n]>>

\* Directories at a path: one or none.
AtPath(path) ==
    {way[Len(path)] : way \in {w \in [0..Len(path) -> Dirs \cup {Top}] : Leads(w, path)}}

Entries(parents) == {fwAt[d][2] : d \in {d \in Dirs : fwAt[d][1] \in parents}}

\* Is d the directory e, or one somewhere below it?
Below(d, e) ==
    LET up[n \in 0..Cardinality(Dirs)] ==
            IF n = 0 THEN d ELSE IF up[n - 1] \in Dirs THEN fwAt[up[n - 1]][1] ELSE up[n - 1]
    IN  \E n \in 0..Cardinality(Dirs) : up[n] = e

\* d is created at, or moved to, a free name; from wherever it was, with all
\* that is below it.  inotify tells of it if the new parent is watched.
FileMove(d, parent, name) ==
    /\ fwMoves < MaxMoves /\ fwMoves' = fwMoves + 1
    /\ fwAt[d] # <<parent, name>> /\ ~Below(parent, d)
    /\ \A e \in Dirs : fwAt[e] # <<parent, name>>
    /\ fwAt' = [fwAt EXCEPT ![d] = <<parent, name>>]
    /\ fwKept' = (fwKept /\ d # RootAtStart)
    /\ IF parent \notin fwWatched THEN UNCHANGED <<fwQueue, fwOver>>
       ELSE IF Len(fwQueue) < QueueLen
            THEN fwQueue' = Append(fwQueue, <<parent, name>>) /\ UNCHANGED fwOver
            ELSE fwOver' = TRUE /\ UNCHANGED fwQueue
    /\ UNCHANGED <<fwConf, fwWatched, fwPath, fwWalk>>

\* d leaves the tree, by a rename or by being deleted.
FileLeave(d) ==
    /\ fwMoves < MaxMoves /\ fwMoves' = fwMoves + 1
    /\ fwAt[d] # Nowhere
    /\ fwAt' = [fwAt EXCEPT ![d] = Nowhere]
    /\ fwKept' = (fwKept /\ d # RootAtStart)
    /\ UNCHANGED <<fwConf, fwWatched, fwQueue, fwOver, fwPath, fwWalk>>

-----------------------------------------------------------------------------
(* The monitor *)

\* consume goes on for a name in the directory of that path: it passes the filter,
\* if single files are watched there, and is not excluded.
Heeded(dir, name) ==
    /\ (\E target \in fwConf.targets : target[1] = dir) => <<dir, name>> \in fwConf.targets
    /\ Append(dir, name) \notin fwConf.exclude

\* consume, for an event about a directory: the path by what is known of its
\* parent, and a walk of it if it is there.
FileConsume ==
    LET event == Head(fwQueue)
        path == Append(fwPath[event[1]], event[2]) IN
    /\ fwWalk = <<>> /\ fwQueue # <<>>
    /\ fwQueue' = Tail(fwQueue)
    /\ IF Heeded(fwPath[event[1]], event[2]) /\ AtPath(path) # {}
       THEN fwWalk' = << <<"watch", path>> >>
       ELSE UNCHANGED fwWalk
    /\ UNCHANGED <<fwConf, fwAt, fwWatched, fwOver, fwPath, fwMoves, fwKept>>

\* Fault: a directory is listed before it is watched.
FileWalkListFirst ==
    LET step == Head(fwWalk)[1]  path == Head(fwWalk)[2]
        visits == [n \in DOMAIN SetToSeq(Entries(AtPath(path))) |->
                      <<"watch", Append(path, SetToSeq(Entries(AtPath(path)))[n])>>] IN
    /\ fwWalk # <<>>
    /\ IF step = "watch"
       THEN /\ fwWalk' = << <<"list", path>> >> \o visits \o Tail(fwWalk)
            /\ UNCHANGED <<fwWatched, fwPath>>
       ELSE /\ fwWatched' = fwWatched \cup AtPath(path)
            /\ fwPath' = [d \in Dirs \cup {Top} |-> IF d \in AtPath(path) THEN path ELSE fwPath[d]]
            /\ fwWalk' = Tail(fwWalk)
    /\ UNCHANGED <<fwConf, fwAt, fwQueue, fwOver, fwMoves, fwKept>>

\* watchTree: each directory is watched (watchDir, by its path), and then its
\* entries are read (by its path again).
FileWalk ==
    LET step == Head(fwWalk)[1]  path == Head(fwWalk)[2]
        visits == [n \in DOMAIN SetToSeq(Entries(AtPath(path))) |->
                      <<"watch", Append(path, SetToSeq(Entries(AtPath(path)))[n])>>] IN
    /\ fwWalk # <<>>
    /\ IF step = "watch"
       THEN /\ fwWatched' = fwWatched \cup AtPath(path)
            /\ fwPath' = [d \in Dirs \cup {Top} |-> IF d \in AtPath(path) THEN path ELSE fwPath[d]]
            /\ fwWalk' = << <<"list", path>> >> \o Tail(fwWalk)
       ELSE fwWalk' = visits \o Tail(fwWalk) /\ UNCHANGED <<fwWatched, fwPath>>
    /\ UNCHANGED <<fwConf, fwAt, fwQueue, fwOver, fwMoves, fwKept>>

\* unix.Read blocks.
FileIdle == fwWalk = <<>> /\ fwQueue = <<>> /\ UNCHANGED fileVars

-----------------------------------------------------------------------------

FileNext ==
    \/ \E d \in Dirs :
        \/ \E parent \in Dirs \cup {Top}, name \in Names : FileMove(d, parent, name)
        \/ FileLeave(d)
    \/ FileConsume \/ FileWalk \/ FileIdle

FileSpec == FileInit /\ [][FileNext]_fileVars

-----------------------------------------------------------------------------
(* Properties *)

\* Paths below the configured one: none is longer than there are directories.
TreePaths ==
    {path \in UNION {[1..n -> Names] : n \in 1..Cardinality(Dirs)} : path[1] = RootName}

\* The names of this path are walked into or heard of: the first as the directory
\* found at the start, or in Top; each further one in the directory before it.
Followed(path) ==
    /\ fwKept \/ (fwConf.top /\ Heeded(<<>>, path[1]))
    /\ \A n \in 2..Len(path) : Heeded(SubSeq(path, 1, n - 1), path[n])

\* Once all events are consumed and none was lost, every directory at and below the
\* configured path is watched, and under the path it has ("watched recursively (new
\* subdirs gain watches)", file_linux.go:25, :211): whatever was made, renamed or
\* moved in while the tree was being walked by path.  Three are left out, as in the
\* code: what is excluded; what appears in a directory with a filter for single
\* files; and, once the directory found at the start was moved or deleted, what
\* is at its path now, unless the directory above is watched too.
FileTreeWatched ==
    (fwQueue = <<>> /\ fwWalk = <<>> /\ ~fwOver) =>
        \A path \in TreePaths : Followed(path) =>
            \A d \in AtPath(path) : d \in fwWatched /\ fwPath[d] = path
=============================================================================
