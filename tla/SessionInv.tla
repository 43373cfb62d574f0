------------------------------ MODULE SessionInv ------------------------------
(***************************************************************************)
(* The inductive invariant behind the properties of Session: where a       *)
(* command is, which files it can have changed by then, and what its       *)
(* output holds.                                                           *)
(***************************************************************************)
EXTENDS Session

\* The command is at one of these steps, or has just succeeded.
Past(command, steps) ==
  job.command = command /\ (step \in steps \/ (step = "idle" /\ status = "succeeded"))

\* Only the destination can differ from what was there when the command began,
\* and it does not before the output is created.
PlaceInv ==
  /\ step # "idle" => job \in Jobs
  /\ \A path \in DOMAIN before : path # <<>> /\ path # Dash
  /\ step \in {"opening", "trying", "creating", "reading header"} => files = before
  /\ files # before =>
       \A path \in (DOMAIN files \cup DOMAIN before) \ {Destination} :
         path \in DOMAIN files \cap DOMAIN before /\ files[path] = before[path]
  /\ step \in {"writing", "closing", "decoding", "removing"} => Destination # Dash
  /\ step \in {"writing", "closing", "decoding", "removing", "reporting"} =>
       Destination = Dash \/ Destination \in DOMAIN files

\* decompress changes nothing before it has seen a valid header, and takes back
\* what it changed if it fails.
HeaderInv ==
  /\ job.command = "decompress"
     /\ (files # before \/ step \in {"creating", "decoding", "removing", "reporting", "closing"}) =>
       HeaderIsValid(taken)
  /\ Ended("decompress", "failed") /\ ~lost => files = before \/ Destination \notin DOMAIN files

\* The chosen archive, or the decoded payload of an accepted one.
OutputInv ==
  /\ Past("compress", {"creating", "writing", "closing", "reporting"}) =>
       \E algo \in trials :
         /\ output = Archive(algo, taken)
         /\ \A other \in trials : Len(output) <= Len(Archive(other, taken))
  /\ Past("decompress", {"reporting", "closing"}) =>
       HeaderIsValid(taken) /\ IsAccepted /\ output = Decoded

\* What has been written, and what the buffer still holds, is the output.
ContentInv ==
  /\ step \in {"opening", "trying", "creating", "reading header", "writing", "decoding"} => pending = <<>>
  /\ step \in {"opening", "trying", "creating", "reading header"} => stdout = <<>>
  /\ step \in {"writing", "decoding"} => files[Destination] = <<>>
  /\ step = "closing" \/ (Decompressing("reporting") /\ Destination # Dash) =>
       files[Destination] \o pending = output
  /\ Past("compress", {"reporting"}) \/ Past("decompress", {}) =>
       lost \/ Destination = Dash \/ files[Destination] = output
  /\ Past("compress", {"reporting"}) \/ Past("decompress", {"reporting"}) =>
       lost \/ Destination # Dash \/ (step = "idle" /\ job.json) \/ stdout = output

IInv == TypeOK /\ PlaceInv /\ HeaderInv /\ OutputInv /\ ContentInv
=============================================================================
