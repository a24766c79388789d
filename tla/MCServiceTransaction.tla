------------------------ MODULE MCServiceTransaction ------------------------
EXTENDS ServiceTransaction, TLC

World(jobs, files, edits, faults, crashes, overlap) ==
  [jobs |-> jobs, files |-> files, edits |-> edits, faults |-> faults, crashes |-> crashes, overlap |-> overlap]

Mutations == {"apply", "remove"}
Files == {Nothing, Original}

\* Two processes die in turn; an editor, and a failing call, each with a crash;
\* and commands that overlap, of which one dies.
SafetySetups ==
  {World(Mutations, Files, {}, 0, 2, FALSE),
   World(Mutations, Files, {"edit 1"}, 0, 1, FALSE),
   World(Mutations, Files, {}, 1, 1, FALSE),
   World({"remove", "recover"}, Files, {}, 0, 1, TRUE)}

\* The same with updates that overlap, and with all disturbances at once.
WideSetups ==
  {World({"apply"}, Files, {}, 0, 1, TRUE),
   World(Mutations, Files, {"edit 1"}, 1, 1, FALSE),
   World(Mutations, Files, {"edit 1", "edit 2"}, 0, 0, FALSE),
   World(Mutations, Files, {}, 2, 1, FALSE)}

\* Three race for the lock of a fourth that died.
LockSetups == {World({"remove", "recover"}, {Original}, {}, 0, 1, TRUE)}

Symmetry == Permutations(Process)
=============================================================================
