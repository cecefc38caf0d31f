------------------------------ MODULE Approvals ------------------------------
(***************************************************************************)
(* The approval of gateway requests: ApprovalStore (pending approvals, the *)
(* requests that wait for a decision, persistence), evaluateApproval and   *)
(* the decisions the user takes in the window.                             *)
(*                                                                         *)
(* A request is a method, a path and a body, and their fingerprint         *)
(* identifies the approval it asks for.  Operation, method, path and scope *)
(* path (RuleKey) are what an always-allow rule matches; requests that     *)
(* differ in the rest of the body share them.  Set-up is complete and      *)
(* dangerousAutoApprove is off: otherwise no request reaches the store.    *)
(***************************************************************************)
EXTENDS Integers, FiniteSets, Sequences

CONSTANTS
  Requests,
  Fingerprints,
  Keys,               \* what rules match
  Fingerprint,        \* of a request
  RuleKey,            \* of a fingerprint
  ForceInteractive,   \* keys of FORCE_INTERACTIVE_OPERATIONS
  AutoApproved,       \* keys within the configured tier
  Forced,             \* requests with the x-desktop-force-approval header
  MaxResolved,        \* MAX_RESOLVED
  MaxApprovals        \* bound: approvals created

ASSUME ApprovalAssumption ==
  /\ Fingerprint \in [Requests -> Fingerprints]
  /\ RuleKey \in [Fingerprints -> Keys]
  /\ ForceInteractive \subseteq Keys
  /\ AutoApproved \subseteq Keys
  /\ Forced \subseteq Requests
  /\ MaxResolved \in Nat
  /\ MaxApprovals \in Nat

VARIABLES
  pending,       \* pendingById
  index,         \* pendingByFingerprint, 0 for no entry
  stored,        \* pending approvals in desktop-approvals
  created,       \* ids given so far
  waiters,       \* waitersByApprovalId: the approval each request waits for
  timers,        \* requests whose timeout is armed
  resolved,      \* decided approvals, the latest first
  rules,         \* keys of the always-allow rules that have not expired
  outcome,       \* of each request
  asked          \* the approval each request was decided with (history)

vars == <<pending, index, stored, created, waiters, timers, resolved, rules,
          outcome, asked>>

Ids == 1..MaxApprovals

Approval == [id : Ids, fingerprint : Fingerprints]

Decisions == {"approved", "denied", "always_allow", "expired"}
Resolved  == [id : Ids, decision : Decisions]

Outcomes == {"new", "waiting", "allowed", "denied", "timedOut", "gone"}

KeyOf(r) == RuleKey[Fingerprint[r]]

Interactive(r) == KeyOf(r) \in ForceInteractive

\* What evaluateApproval answers after a decision.
Answer(decision) ==
  CASE decision \in {"approved", "always_allow"} -> "allowed"
    [] decision = "expired" -> "timedOut"
    [] decision = "denied" -> "denied"

Init ==
  /\ pending = {}
  /\ index = [f \in Fingerprints |-> 0]
  /\ stored = {}
  /\ created = 0
  /\ waiters = [r \in Requests |-> 0]
  /\ timers = {}
  /\ resolved = <<>>
  /\ rules = {}
  /\ outcome = [r \in Requests |-> "new"]
  /\ asked = [r \in Requests |-> 0]

-----------------------------------------------------------------------------
(* Requests.                                                               *)

\* shouldAutoApprove: the header overrules the tier.
ShouldAutoApprove(r) == r \notin Forced /\ KeyOf(r) \in AutoApproved

\* Looks at the rules before it asks whether they are to be honored.
MutantNeedsDecision(r) ==
  KeyOf(r) \notin rules /\ (Interactive(r) \/ ~ShouldAutoApprove(r))

\* Neither a rule (which the header does not overrule) nor the tier lets the
\* request pass without a decision.
NeedsDecision(r) ==
  Interactive(r) \/ (KeyOf(r) \notin rules /\ ~ShouldAutoApprove(r))

Pass(r) ==
  /\ outcome[r] = "new"
  /\ ~NeedsDecision(r)
  /\ outcome' = [outcome EXCEPT ![r] = "allowed"]
  /\ UNCHANGED <<pending, index, stored, created, waiters, timers, resolved,
                 rules, asked>>

\* enqueue: an equal request that still waits shares its approval.
Enqueue(r, id) ==
  IF index[Fingerprint[r]] # 0
  THEN /\ id = index[Fingerprint[r]]
       /\ UNCHANGED <<pending, index, stored, created>>
  ELSE /\ id = created + 1
       /\ id <= MaxApprovals
       /\ created' = id
       /\ pending' = pending \cup {[id |-> id, fingerprint |-> Fingerprint[r]]}
       /\ index' = [index EXCEPT ![Fingerprint[r]] = id]
       /\ stored' = pending'

\* evaluateApproval up to its await of waitForDecision.
Ask(r) ==
  /\ outcome[r] = "new"
  /\ NeedsDecision(r)
  /\ \E id \in Ids :
       /\ Enqueue(r, id)
       /\ waiters' = [waiters EXCEPT ![r] = id]
       /\ asked' = [asked EXCEPT ![r] = id]
  /\ timers' = timers \cup {r}
  /\ outcome' = [outcome EXCEPT ![r] = "waiting"]
  /\ UNCHANGED <<resolved, rules>>

-----------------------------------------------------------------------------
(* Decisions.                                                              *)

WaitersOf(id) == {r \in Requests : waiters[r] = id}

MutantRecord(decided) == resolved' = decided \o resolved

\* The list of decided approvals, cut to its limit.
Record(decided) ==
  LET all == decided \o resolved
  IN  resolved' = SubSeq(all, 1, IF Len(all) < MaxResolved THEN Len(all) ELSE MaxResolved)

MutantRelease(requests, decision) ==
  LET released == IF requests = {} THEN {} ELSE {CHOOSE r \in requests : TRUE}
  IN  /\ waiters' = [r \in Requests |-> IF r \in released THEN 0 ELSE waiters[r]]
      /\ timers' = timers \ released
      /\ outcome' = [r \in Requests |->
                       IF r \in released THEN Answer(decision) ELSE outcome[r]]

\* Every request that waits gets the decision and loses its timer.
Release(requests, decision) ==
  /\ waiters' = [r \in Requests |-> IF r \in requests THEN 0 ELSE waiters[r]]
  /\ timers' = timers \ requests
  /\ outcome' = [r \in Requests |->
                   IF r \in requests THEN Answer(decision) ELSE outcome[r]]

MutantResolveAndRemove(a, decision) ==
  /\ pending' = pending \ {a}
  /\ stored' = pending'
  /\ Record(<<[id |-> a.id, decision |-> decision]>>)
  /\ Release(WaitersOf(a.id), decision)
  /\ UNCHANGED index

\* resolveAndRemove of a pending approval.
ResolveAndRemove(a, decision) ==
  /\ pending' = pending \ {a}
  /\ index' = [index EXCEPT ![a.fingerprint] = 0]
  /\ stored' = pending'
  /\ Record(<<[id |-> a.id, decision |-> decision]>>)
  /\ Release(WaitersOf(a.id), decision)

\* The user decides; a decision about a resolved approval has no effect.
Decide(a, decision) ==
  /\ a \in pending
  /\ decision # "expired"
  /\ ResolveAndRemove(a, decision)
  /\ rules' = IF decision = "always_allow" THEN rules \cup {RuleKey[a.fingerprint]}
                                           ELSE rules
  /\ UNCHANGED <<created, asked>>

\* The timer of one request expires the approval for all that wait for it.
Expire(r) ==
  /\ r \in timers
  /\ \E a \in pending : a.id = waiters[r] /\ ResolveAndRemove(a, "expired")
  /\ UNCHANGED <<created, rules, asked>>

\* The orders in which a set can be gone through.
Orders(S) ==
  {f \in [1..Cardinality(S) -> S] : \A i, j \in DOMAIN f : f[i] = f[j] => i = j}

\* clear() denies one pending approval after the other.
Clear ==
  /\ pending # {}
  /\ pending' = {}
  /\ index' = [f \in Fingerprints |-> 0]
  /\ stored' = {}
  /\ \E order \in Orders(pending) :
       Record([i \in DOMAIN order |-> [id |-> order[i].id, decision |-> "denied"]])
  /\ Release({r \in Requests : waiters[r] # 0}, "denied")
  /\ UNCHANGED <<created, rules, asked>>

ClearResolved ==
  /\ resolved # <<>>
  /\ resolved' = <<>>
  /\ UNCHANGED <<pending, index, stored, created, waiters, timers, rules,
                 outcome, asked>>

\* A rule outlives its time to live, or the user removes it.
RuleEnds(key) ==
  /\ key \in rules
  /\ rules' = rules \ {key}
  /\ UNCHANGED <<pending, index, stored, created, waiters, timers, resolved,
                 outcome, asked>>

(***************************************************************************)
(* The application ends, in order or not, and starts again: the requests   *)
(* that waited are gone, their approvals are loaded.                       *)
(***************************************************************************)
Restart ==
  /\ pending' = stored
  /\ index' = [f \in Fingerprints |->
                 IF \E a \in stored : a.fingerprint = f
                 THEN (CHOOSE a \in stored : a.fingerprint = f).id ELSE 0]
  /\ waiters' = [r \in Requests |-> 0]
  /\ timers' = {}
  /\ resolved' = <<>>
  /\ outcome' = [r \in Requests |-> IF waiters[r] # 0 THEN "gone" ELSE outcome[r]]
  /\ UNCHANGED <<stored, created, rules, asked>>

Next ==
  \/ \E r \in Requests : Pass(r) \/ Ask(r) \/ Expire(r)
  \/ \E a \in pending, decision \in Decisions : Decide(a, decision)
  \/ Clear
  \/ ClearResolved
  \/ \E key \in Keys : RuleEnds(key)
  \/ Restart

Spec == Init /\ [][Next]_vars

-----------------------------------------------------------------------------
(* Properties.                                                             *)

\* Every variable has its type.
TypeOK ==
  /\ pending \subseteq Approval
  /\ index \in [Fingerprints -> 0..MaxApprovals]
  /\ stored \subseteq Approval
  /\ created \in 0..MaxApprovals
  /\ waiters \in [Requests -> 0..MaxApprovals]
  /\ timers \subseteq Requests
  /\ resolved \in Seq(Resolved) /\ Len(resolved) <= MaxResolved
  /\ rules \subseteq Keys
  /\ outcome \in [Requests -> Outcomes]
  /\ asked \in [Requests -> 0..MaxApprovals]

(***************************************************************************)
(* A request that waits can still be decided: its approval is in the list  *)
(* the user sees, under its fingerprint, and its timer runs                *)
(* (waitForDecision, resolveAndRemove).                                    *)
(***************************************************************************)
WaitersCanBeDecided ==
  \A r \in Requests :
    outcome[r] = "waiting" =>
      /\ [id |-> waiters[r], fingerprint |-> Fingerprint[r]] \in pending
      /\ r \in timers

(***************************************************************************)
(* The fingerprint index and the pending approvals agree, also after a     *)
(* restart, so equal requests never show up twice in the list (enqueue,    *)
(* resolveAndRemove, the constructor).                                     *)
(***************************************************************************)
IndexMatchesPending ==
  \A f \in Fingerprints, id \in Ids :
    index[f] = id <=> [id |-> id, fingerprint |-> f] \in pending

(***************************************************************************)
(* Requests that shared an approval never get different answers: nobody is *)
(* allowed by a decision that denied or timed out another (resolveAndRe-   *)
(* move calls every waiter).                                               *)
(***************************************************************************)
SharedDecision ==
  \A r, s \in Requests :
    /\ asked[r] # 0 /\ asked[r] = asked[s]
    /\ outcome[r] # "gone" /\ outcome[s] # "gone"
    => outcome[r] = outcome[s]

(***************************************************************************)
(* A request of a force-interactive operation is allowed only by a user    *)
(* who allows it while it waits, by an approval of its own fingerprint:    *)
(* not by a rule that another such approval left behind (the window saves  *)
(* one for these operations too), by the tier, a timer, clear() or the     *)
(* decision of another request.                                            *)
(***************************************************************************)
InteractiveIsDecided ==
  [][\A r \in Requests :
       Interactive(r) /\ outcome[r] # "allowed" /\ outcome'[r] = "allowed" =>
         \E a \in pending, decision \in {"approved", "always_allow"} :
           /\ a.id = waiters[r]
           /\ a.fingerprint = Fingerprint[r]
           /\ Decide(a, decision)]_vars

=============================================================================
