--------------------------- MODULE CommandEnvelope ---------------------------
(***************************************************************************)
(* The commands the relay delivers to the desktop (DesktopCommandEvent)    *)
(* and the lock key the executor derives from one.  The strings of an      *)
(* envelope are members of small sets; a string is told apart from another *)
(* one, from a missing field (Absent) and from a string that trims to ""   *)
(* (Blank), which is all that deriveLockKey looks at.                      *)
(***************************************************************************)
EXTENDS Integers

CONSTANTS
  Commands,     \* command identifiers
  Operations,   \* operation identifiers
  Names,        \* non-blank strings used as an explicit lockKey
  Paths,        \* non-blank strings used as a path in a command body
  Absent,       \* a field that is missing or not a string
  Blank,        \* a string of white space only
  NoLock,       \* the null lock key
  Envelope      \* the envelope of each command

(***************************************************************************)
(* Positions in a body's scope, in the order deriveLockKey looks at them:  *)
(* 1 repoPath, 2 worktreePath, 3 workDir, 4 runDir, 5 path.                *)
(***************************************************************************)
ScopeField == 1..5

EnvelopeType ==
  [ lockKey     : Names \cup {Absent, Blank},
    operationId : Operations,
    scope       : [ScopeField -> Paths \cup {Absent, Blank}],
    timed       : BOOLEAN,      \* timeoutMs is a number greater than 0
    valid       : BOOLEAN ]     \* passes validateCommand

\* An explicit lock key and a derived one live in the same name space.
LockKeys == Names \cup (Operations \X Paths)

ASSUME EnvelopeAssumption ==
  /\ Envelope \in [Commands -> EnvelopeType]
  /\ NoLock \notin LockKeys
  /\ Absent \notin Names \cup Paths
  /\ Blank \notin Names \cup Paths
  /\ Absent # Blank

\* The fields of the body that hold a string, blank or not.
GivenFields(c) == {i \in ScopeField : Envelope[c].scope[i] # Absent}

(***************************************************************************)
(* asNonEmptyString returns "" (not null) for a blank string, so the chain *)
(* of ?? stops at the first string field, blank or not, and a blank one    *)
(* yields no lock at all.                                                  *)
(***************************************************************************)
ScopedPath(c) ==
  IF GivenFields(c) = {} THEN Blank
  ELSE Envelope[c].scope[CHOOSE i \in GivenFields(c) :
                           \A j \in GivenFields(c) : i <= j]

DeriveLockKey(c) ==
  IF Envelope[c].lockKey \notin {Absent, Blank} THEN Envelope[c].lockKey
  ELSE IF ScopedPath(c) = Blank THEN NoLock
  ELSE <<Envelope[c].operationId, ScopedPath(c)>>

=============================================================================
