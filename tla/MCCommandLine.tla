---------------------------- MODULE MCCommandLine ----------------------------
(***************************************************************************)
(* A small instance of CommandLine: short command lines of any arguments,  *)
(* and longer ones of the arguments whose places matter.                   *)
(***************************************************************************)
EXTENDS CommandLine

AnyArguments ==
  {"compress", "d", "info", "bench", "notes", "rle", "", "-", "-h", "version", "-q", "-v", "--json",
   "-o", "--algo"}

PlacedArguments == {"notes", "rle", "", "-o", "-a", "--json", "--help"}

Lists(arguments, most) == UNION {[1 .. n -> arguments] : n \in 0 .. most}

MCArgumentLists ==
  Lists(AnyArguments, 3)
    \cup {<<name>> \o rest : name \in {"compress", "b"}, rest \in Lists(PlacedArguments, 4)}
=============================================================================
