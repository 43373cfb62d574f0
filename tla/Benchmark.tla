------------------------------ MODULE Benchmark ------------------------------
(***************************************************************************)
(* run_benchmark, scan_directory and scan_recursive of                     *)
(* src/utils/benchmark.cpp: find the text files below a directory, try     *)
(* both algorithms on each, report the sizes.                              *)
(*                                                                         *)
(* The file system is a graph: a directory's entries lead to nodes, and an *)
(* entry may be a symbolic link.  A path is the sequence of the names      *)
(* below the benchmarked directory; names are numbers, which gives them an *)
(* order.  A node's location is the sequence of names that leads to it     *)
(* from "/" without a link.  Other programs may remove nodes at any time.  *)
(***************************************************************************)
EXTENDS Integers, SequencesExt

CONSTANTS
  Node,           \* files and directories
  Root,           \* the directory on the command line
  Trees,          \* the file systems the benchmark may meet
  MaxLinks,       \* links the kernel follows in one path: 40 on Linux
  MaxRemoved      \* bound: other programs remove nodes while fewer are gone

\* An unreadable directory can be passed through but not listed; a text file
\* has one of the five extensions, a locked one cannot be opened.
Directories == {"directory", "unreadable"}
TextFiles == {"text", "locked"}
Kinds == Directories \cup TextFiles \cup {"other"}

Entry == [name : Nat, node : Node, link : BOOLEAN]

\* A file system: only directories have entries, finitely many, and a name is in
\* one of them; whatever is not a link is where its name says.  Hard links are
\* nodes of their own.
IsFileSystem(fs) ==
  /\ fs.kind \in [Node -> Kinds]
  /\ fs.entries \in [Node -> SUBSET Entry]
  /\ fs.location \in [Node -> Seq(Nat)]
  /\ \A node \in Node :
       /\ IsFiniteSet(fs.entries[node])
       /\ fs.entries[node] # {} => fs.kind[node] \in Directories
       /\ \A d, e \in fs.entries[node] : d.name = e.name => d = e
       /\ \A entry \in fs.entries[node] :
            ~entry.link => fs.location[entry.node] = Append(fs.location[node], entry.name)

ASSUME BenchmarkAssumption ==
  /\ IsFiniteSet(Node) /\ Root \in Node
  /\ \A fs \in Trees : IsFileSystem(fs)
  /\ MaxLinks \in Nat /\ MaxRemoved \in Nat

VARIABLES
  tree,       \* kind, entries, location and compressed sizes of every node
  present,    \* the nodes that are still there
  json, quiet,
  phase,
  stack,      \* the iterators of scan_recursive: a path and the names to come
  files,      \* the paths found, later those still to be measured
  winner,     \* of the trials of the file that is being measured
  results,    \* with the path of each, which the code does not keep
  report,     \* what is printed
  unmeasured  \* history variable: paths for which a trial failed

options == <<tree, json, quiet>>

vars == <<options, present, phase, stack, files, winner, results, report, unmeasured>>

Init ==
  /\ tree \in Trees
  /\ present = Node
  /\ json \in BOOLEAN /\ quiet \in BOOLEAN
  /\ phase = "starting"
  /\ stack = <<>>
  /\ files = <<>>
  /\ winner = "none"
  /\ results = <<>>
  /\ report = "none"
  /\ unmeasured = {}

-----------------------------------------------------------------------------
\* One more name of a path is looked up among the nodes that are there.  A place
\* is a node and the number of links followed so far; a set holds the one place
\* there is, or none.
Follow(there, places, name) ==
  LET Reached(place) ==
        {[node |-> entry.node, links |-> place.links + (IF entry.link THEN 1 ELSE 0)]
         : entry \in {e \in tree.entries[place.node] : e.name = name}}
  IN  {place \in UNION {Reached(from) : from \in places} :
         place.node \in there /\ place.links <= MaxLinks}

StartPlaces(there) == {[node |-> node, links |-> 0] : node \in {Root} \cap there}

\* The places that a path's first names lead to.
Way(there, path) ==
  LET way[n \in 0 .. Len(path)] ==
        IF n = 0 THEN StartPlaces(there) ELSE Follow(there, way[n - 1], path[n])
  IN  way

PlacesAt(path) == Way(present, path)[Len(path)]

\* Where a path leads now, and what is there.
NodesAt(path) == {place.node : place \in PlacesAt(path)}

KindsAt(path) == {tree.kind[node] : node \in NodesAt(path)}

IsDirectory(path) == KindsAt(path) \cap Directories # {}

\* directory_iterator(dir, ec): a directory that cannot be opened has no entries.
\* A link is an entry also when its target is gone.
Listing(path) ==
  {entry \in UNION {tree.entries[node] : node \in {n \in NodesAt(path) : tree.kind[n] = "directory"}} :
     entry.link \/ entry.node \in present}

Open(path) == [path |-> path, left |-> Listing(path)]

CheckDirectory ==
  /\ phase = "starting"
  /\ phase' = IF IsDirectory(<<>>) THEN "opening" ELSE "failed"
  /\ UNCHANGED <<options, present, stack, files, winner, results, report, unmeasured>>

\* scan_directory looks once more whether there is a directory.
OpenDirectory ==
  /\ phase = "opening"
  /\ stack' = IF IsDirectory(<<>>) THEN <<Open(<<>>)>> ELSE <<>>
  /\ phase' = "scanning"
  /\ UNCHANGED <<options, present, files, winner, results, report, unmeasured>>

Top == Last(stack)

\* What an entry is taken for: what its path leads to now or, unless it is a
\* link, what the directory itself says of it.
TakenFor(entry) ==
  LET now == KindsAt(Append(Top.path, entry.name))
  IN  (IF now = {} THEN {"nothing"} ELSE now) \cup (IF entry.link THEN {} ELSE {tree.kind[entry.node]})

\* Mutant: links to directories are not followed.
DescendUnlessLink(entry, kind) == kind \in Directories /\ ~entry.link

Descend(entry, kind) == kind \in Directories

VisitEntry ==
  /\ phase = "scanning" /\ stack # <<>>
  /\ \E entry \in Top.left : \E kind \in TakenFor(entry) :
       LET path == Append(Top.path, entry.name)
           rest == [stack EXCEPT ![Len(stack)].left = @ \ {entry}]
       IN  /\ files' = IF kind \in TextFiles THEN Append(files, path) ELSE files
           /\ stack' = IF Descend(entry, kind) THEN Append(rest, Open(path)) ELSE rest
  /\ UNCHANGED <<options, present, phase, winner, results, report, unmeasured>>

LeaveDirectory ==
  /\ phase = "scanning" /\ stack # <<>> /\ Top.left = {}
  /\ stack' = Front(stack)
  /\ UNCHANGED <<options, present, phase, files, winner, results, report, unmeasured>>

-----------------------------------------------------------------------------
\* operator< of std::filesystem::path: name by name.
Precedes(p, q) ==
  \/ IsStrictPrefix(p, q)
  \/ \E k \in DOMAIN p \cap DOMAIN q :
       SubSeq(p, 1, k - 1) = SubSeq(q, 1, k - 1) /\ p[k] < q[k]

\* How many of the paths std::sort puts in front of one of them.
SortedBefore(k) ==
  Cardinality({m \in DOMAIN files : Precedes(files[m], files[k]) \/ (files[m] = files[k] /\ m < k)})

\* An empty list gets a report of its own.
ReportNothingFound ==
  /\ phase = "scanning" /\ stack = <<>> /\ files = <<>>
  /\ report' = IF json THEN "json" ELSE IF quiet THEN "nothing" ELSE "message"
  /\ phase' = "succeeded"
  /\ UNCHANGED <<options, present, stack, files, winner, results, unmeasured>>

\* Mutant: the paths stay in the order the directories gave them.
LeaveUnsorted ==
  /\ phase = "scanning" /\ stack = <<>> /\ files # <<>>
  /\ phase' = "measuring"
  /\ UNCHANGED <<options, present, stack, files, winner, results, report, unmeasured>>

SortFiles ==
  /\ phase = "scanning" /\ stack = <<>> /\ files # <<>>
  /\ files' = [i \in DOMAIN files |-> files[CHOOSE k \in DOMAIN files : SortedBefore(k) = i - 1]]
  /\ phase' = "measuring"
  /\ UNCHANGED <<options, present, stack, winner, results, report, unmeasured>>

Measuring == phase = "measuring" /\ files # <<>>

Winner(node) == IF tree.huffman[node] < tree.rle[node] THEN "Huffman" ELSE "RLE"

\* The file is read and both trials succeed.
Measure ==
  /\ Measuring
  /\ \E node \in NodesAt(Head(files)) :
       /\ tree.kind[node] = "text"
       /\ winner' = Winner(node)
  /\ phase' = "naming"
  /\ UNCHANGED <<options, present, stack, files, results, report, unmeasured>>

\* filesystem::weakly_canonical: as many names as still lead somewhere are
\* replaced by where that is, links resolved; the rest stays as it is.
Reach(path) == Max({0} \cup {k \in 1 .. Len(path) : Way(present, path)[k] # {}})

RealPath(path) ==
  LET k == Reach(path)
      from == IF k = 0 THEN Root ELSE (CHOOSE place \in Way(present, path)[k] : TRUE).node
  IN  tree.location[from] \o SubSeq(path, k + 1, Len(path))

\* filesystem::path::lexically_relative: how many times ".." leads from one place
\* up to the directory shared with the other, and the names from there down.
Relative(to, base) ==
  LET shared == Max({k \in 0 .. Min({Len(to), Len(base)}) : SubSeq(to, 1, k) = SubSeq(base, 1, k)})
  IN  [up |-> Len(base) - shared, down |-> SubSeq(to, shared + 1, Len(to))]

\* The name in the report: filesystem::relative(path, dir_path).
AddResult ==
  /\ phase = "naming"
  /\ \E real \in {RealPath(Head(files))} :
       results' = Append(results,
         [path |-> Head(files), name |-> Relative(real, tree.location[Root]), winner |-> winner])
  /\ files' = Tail(files)
  /\ winner' = "none"
  /\ phase' = "measuring"
  /\ UNCHANGED <<options, present, stack, report, unmeasured>>

\* Mutant: a file that cannot be opened is tried again.
RetryMissing ==
  /\ Measuring
  /\ "text" \notin KindsAt(Head(files))
  /\ UNCHANGED vars

\* The file cannot be opened.
SkipMissing ==
  /\ Measuring
  /\ "text" \notin KindsAt(Head(files))
  /\ files' = Tail(files)
  /\ UNCHANGED <<options, present, phase, stack, winner, results, report, unmeasured>>

\* run_trial fails for one of the algorithms.
SkipUnmeasured ==
  /\ Measuring
  /\ "text" \in KindsAt(Head(files))
  /\ unmeasured' = unmeasured \cup {Head(files)}
  /\ files' = Tail(files)
  /\ UNCHANGED <<options, present, phase, stack, winner, results, report>>

Report ==
  /\ phase = "measuring" /\ files = <<>>
  /\ report' = IF json THEN "json" ELSE IF quiet THEN "nothing" ELSE "table"
  /\ phase' = "succeeded"
  /\ UNCHANGED <<options, present, stack, files, winner, results, unmeasured>>

\* An exception nobody catches: the iterator's increment, relative, and the read
\* through istreambuf_iterator may throw.
Abort ==
  /\ (phase = "scanning" /\ stack # <<>>) \/ Measuring \/ phase = "naming"
  /\ phase' = "aborted"
  /\ UNCHANGED <<options, present, stack, files, winner, results, report, unmeasured>>

\* Another program removes a file or a link's target, or takes away a directory
\* with all that is in it.
RemoveNode ==
  /\ Cardinality(Node \ present) < MaxRemoved
  /\ \E node \in present :
       present' = present \ {n \in Node : IsPrefix(tree.location[node], tree.location[n])}
  /\ UNCHANGED <<options, phase, stack, files, winner, results, report, unmeasured>>

Run ==
  \/ CheckDirectory \/ OpenDirectory \/ VisitEntry \/ LeaveDirectory \/ ReportNothingFound
  \/ SortFiles \/ Measure \/ AddResult \/ SkipMissing \/ SkipUnmeasured \/ Report

Next == Run \/ Abort \/ RemoveNode

Spec == Init /\ [][Next]_vars

\* Listing a directory and reading a file take finite time.
FairSpec == Spec /\ WF_vars(Run)

-----------------------------------------------------------------------------
\* Every path that leads to a text file now, level by level; a longer path
\* than MaxDepth follows too many links.
MaxDepth == Cardinality(Node) * (MaxLinks + 1)

ListedPaths[k \in 0 .. MaxDepth] ==
  IF k = 0 THEN {<<>>}
  ELSE UNION {{Append(path, entry.name) : entry \in Listing(path)} : path \in ListedPaths[k - 1]}

TextPaths == UNION {{path \in ListedPaths[k] : "text" \in KindsAt(path)} : k \in 0 .. MaxDepth}

\* Every text file that is in its place from the beginning to the end has, for
\* each path that leads to it, a result under its real name, whichever order
\* directories are read in, whatever links lead to it, and whatever else is
\* removed or cannot be opened meanwhile; unless a trial failed
\* (benchmark.cpp:20-40, 124-149).
FilesInPlaceAreMeasured ==
  phase = "succeeded" =>
    \A path \in TextPaths \ unmeasured : \E result \in Range(results), node \in NodesAt(path) :
      /\ result.path = path
      /\ result.name = Relative(tree.location[node], tree.location[Root])

\* No entry on the path is a link, whether what it leads to is still there or not.
Unlinked(path) == \E place \in Way(Node, path)[Len(path)] : place.links = 0

\* Of the names in the report, those of files found without a link are in order
\* and different from each other, whichever order the directories were read in,
\* also when the file is gone before its name is looked up; a file found through
\* a link is listed under its real name, at the place of the path that led there
\* (benchmark.cpp:92, 124-176).
ResultsInOrder ==
  \A i, j \in DOMAIN results :
    i < j /\ Unlinked(results[i].path) /\ Unlinked(results[j].path) =>
      /\ results[i].name.up = 0 /\ results[j].name.up = 0
      /\ Precedes(results[i].name.down, results[j].name.down)

\* Success means that the directory could be accessed (benchmark.hpp:51).
SuccessMeansAccess == phase = "succeeded" => "unreadable" \notin KindsAt(<<>>)

\* Every call comes to an end, also where a link leads back to a directory above
\* or files disappear (benchmark.cpp:36-37, 132-135).
ScanEnds == <>(phase \in {"succeeded", "failed", "aborted"})
=============================================================================
