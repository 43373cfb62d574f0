---------------------------- MODULE MCBenchmark ----------------------------
(***************************************************************************)
(* Small directories for Benchmark: with links up, down and across,        *)
(* unreadable, empty, and none at all.                                     *)
(***************************************************************************)
EXTENDS Benchmark

MCNode == {"root", "sub", "a", "b", "c"}

Plain(name, node) == [name |-> name, node |-> node, link |-> FALSE]
Link(name, node) == [name |-> name, node |-> node, link |-> TRUE]

\* A tree with the given kinds and entries of its two directories; c stands
\* beside the first.
Tree(rootKind, subKind, aKind, bKind, rootEntries, subEntries) ==
  LET Each(root, sub, a, b, c) ==
        [node \in MCNode |-> CASE node = "root" -> root [] node = "sub" -> sub [] node = "a" -> a
                              [] node = "b" -> b [] node = "c" -> c]
  IN  [kind |-> Each(rootKind, subKind, aKind, bKind, "text"),
       entries |-> Each(rootEntries, subEntries, {}, {}, {}),
       location |-> Each(<<1>>, <<1, 2>>, <<1, 1>>, <<1, 2, 1>>, <<2>>),
       rle |-> Each(0, 0, 30, 40, 40), huffman |-> Each(0, 0, 30, 35, 45)]

Files == {Plain(1, "a"), Plain(2, "sub")}

MCTrees ==
  \* a link from sub to root
  {Tree("directory", "directory", "text", "text", Files, {Plain(1, "b"), Link(2, "root")}),
  \* links from root to sub and to a file elsewhere
   Tree("directory", "directory", "text", "text", Files \cup {Link(3, "sub"), Link(4, "c")}, {Plain(1, "b")}),
  \* no files, and a directory that cannot be listed
   Tree("directory", "directory", "other", "text", {Plain(2, "sub")}, {}),
   Tree("unreadable", "directory", "text", "text", Files, {Plain(1, "b")}),
   Tree("text", "directory", "text", "text", {}, {})}
  \cup
  {Tree("directory", subKind, "text", bKind, Files,
        IF subKind = "other" THEN {} ELSE {Plain(1, "b"), Link(2, "a")})
     : subKind \in {"directory", "unreadable", "other"}, bKind \in {"locked", "other", "text"}}
=============================================================================
