------------------------- MODULE MCCommandExecutor -------------------------
(***************************************************************************)
(* Instances of CommandExecutor for TLC.                                   *)
(***************************************************************************)
EXTENDS CommandExecutor, TLC

CONSTANTS c1, c2, c3, op, repo, name

NoScope == [i \in ScopeField |-> Absent]

Mk(key, scope, timed) ==
  [lockKey |-> key, operationId |-> op, scope |-> scope, timed |-> timed,
   valid |-> TRUE]

\* c1 and c2 share a repository; c3 names it after a blank repoPath and so has
\* no lock.
SharedRepo ==
  [c \in Commands |->
     IF c = c3 THEN Mk(Blank, [NoScope EXCEPT ![1] = Blank, ![2] = repo], FALSE)
     ELSE Mk(Absent, [NoScope EXCEPT ![1] = repo], c = c1)]

LinesUsed ==
  {Line("chunk", FALSE, FALSE), Line("done", FALSE, FALSE)}

=============================================================================
