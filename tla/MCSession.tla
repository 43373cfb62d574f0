------------------------------ MODULE MCSession ------------------------------
(***************************************************************************)
(* A small instance of Session.                                            *)
(***************************************************************************)
EXTENDS Session, MCCodecs

MCTextReport == <<1>>

MCJsonReport == <<2, 2>>

\* An empty file, one both codes need the same size for, one without and one
\* with long runs; the last two are as long as a file buffer.
MCSources == {<<>>, <<1, 1, 2>>, <<1, 2, 1, 2, 1>>, <<2, 2, 2, 2, 2>>}

Notes == <<"notes">>

Lac(path) == Append(path, "lac")

Options(command, target, destination, algorithm, json) ==
  [command |-> command, target |-> target, output |-> destination, algorithm |-> algorithm,
   json |-> json, quiet |-> FALSE]

\* compress notes; the same with an algorithm; from and to the standard streams
\* and with --json; a missing target; an unknown algorithm; onto itself, quietly.
CompressJobs ==
  {Options("compress", Notes, NoValue, algorithm, FALSE) :
     algorithm \in {NoValue, "rle", "huffman", "unknown"}}
    \cup {Options("compress", Dash, NoValue, "auto", json) : json \in BOOLEAN}
    \cup {Options("compress", <<>>, NoValue, NoValue, FALSE)}
    \cup {[Options("compress", Notes, Notes, NoValue, FALSE) EXCEPT !.quiet = TRUE]}

\* decompress notes.lac, onto notes, onto itself and to standard output; from
\* the standard streams; a file without the suffix; ".lac" and "-.lac".
DecompressJobs ==
  {Options("decompress", Lac(Notes), destination, NoValue, FALSE) :
     destination \in {NoValue, Lac(Notes), Dash}}
    \cup {Options("decompress", Dash, destination, NoValue, FALSE) : destination \in {NoValue, Notes}}
    \cup {Options("decompress", target, NoValue, NoValue, FALSE) :
            target \in {Notes, Lac(<<>>), Lac(Dash)}}

MCJobs ==
  CompressJobs \cup DecompressJobs
    \cup {Options("info", Lac(Notes), NoValue, NoValue, json) : json \in BOOLEAN}

\* notes holds a source; notes.lac is missing, the archive of something else,
\* or has another version or another algorithm in its header; or there are only
\* files whose name without ".lac" is empty or "-".
MCInitialFiles ==
  {Notes :> data : data \in Sources}
    \cup {(Notes :> <<1, 1, 2>>) @@ (Lac(Notes) :> bytes) :
            bytes \in {Archive(Huffman, <<1, 2, 1, 2, 1>>),
                       [Archive(Rle, <<>>) EXCEPT ![Len(Magic) + 1] = 2],
                       [Archive(Rle, <<>>) EXCEPT ![Len(Magic) + 2] = 3]}}
    \cup {(Lac(<<>>) :> Archive(Rle, <<1, 1, 2>>)) @@ (Lac(Dash) :> Archive(Rle, <<1, 1, 2>>))}
=============================================================================
