-------------------------- MODULE ApprovalsProofs --------------------------
(***************************************************************************)
(* Proofs about Approvals, for any requests, fingerprints and rules: the   *)
(* index and the list of pending approvals agree, every request that waits *)
(* can still be decided, requests that share an approval get one answer,   *)
(* and a force-interactive request is allowed by the user alone.           *)
(***************************************************************************)
EXTENDS Approvals, FiniteSetTheorems, SequenceTheorems, TLAPS

(***************************************************************************)
(* The file mirrors the list, which is finite.                             *)
(***************************************************************************)
StoredAgrees == stored = pending /\ IsFiniteSet(pending)

\* Ids are given once: none that is in use is beyond the count of those given.
IdsAreGiven ==
  /\ \A a \in pending : a.id <= created
  /\ \A r \in Requests : asked[r] <= created
  /\ \A a, b \in pending : a.id = b.id => a = b

(***************************************************************************)
(* A request waits for the approval it asked for, and for no other.        *)
(***************************************************************************)
WaitersAsked ==
  \A r \in Requests :
    /\ outcome[r] = "waiting" <=> waiters[r] # 0
    /\ waiters[r] # 0 => waiters[r] = asked[r]
    /\ outcome[r] = "new" => asked[r] = 0

(***************************************************************************)
(* SharedDecision is not inductive: a request could join an approval that  *)
(* another was decided with.  It cannot, as a pending approval has decided *)
(* nobody.                                                                 *)
(***************************************************************************)
PendingIsUndecided ==
  \A a \in pending, r \in Requests :
    asked[r] = a.id => outcome[r] \in {"waiting", "gone"}

ApprovalInv ==
  /\ TypeOK
  /\ StoredAgrees
  /\ IdsAreGiven
  /\ WaitersAsked
  /\ PendingIsUndecided
  /\ IndexMatchesPending
  /\ WaitersCanBeDecided
  /\ SharedDecision

USE ApprovalAssumption

-----------------------------------------------------------------------------
(* The helpers.                                                            *)

\* A decision answers, and never leaves a request new, waiting or gone.
LEMMA AnswerType ==
  ASSUME NEW decision \in Decisions
  PROVE  Answer(decision) \in {"allowed", "denied", "timedOut"}
BY DEF Answer, Decisions

\* The list of decided approvals keeps its type and its limit.
LEMMA RecordType ==
  ASSUME resolved \in Seq(Resolved), NEW decided \in Seq(Resolved), Record(decided)
  PROVE  resolved' \in Seq(Resolved) /\ Len(resolved') <= MaxResolved
<1> DEFINE all == decided \o resolved
           n == IF Len(all) < MaxResolved THEN Len(all) ELSE MaxResolved
<1>1. all \in Seq(Resolved)
  BY ConcatProperties
<1>2. Len(all) \in Nat /\ n \in Nat /\ n <= Len(all) /\ n <= MaxResolved
  BY <1>1
<1>3. \A i \in 1..n : all[i] \in Resolved
  BY <1>1, <1>2
<1> HIDE DEF all, n
<1>4. SubSeq(all, 1, n) \in Seq(Resolved) /\ Len(SubSeq(all, 1, n)) <= MaxResolved
  BY <1>2, <1>3, SubSeqProperties
<1> QED  BY <1>4 DEF Record, all, n

\* Approvals of one fingerprint, or of one id, are one.
LEMMA PendingIsUnique ==
  ASSUME ApprovalInv, NEW a \in pending, NEW b \in pending,
         a.fingerprint = b.fingerprint \/ a.id = b.id
  PROVE  a = b
<1>1. a \in Approval /\ b \in Approval
  BY DEF ApprovalInv, TypeOK
<1>2. /\ a = [id |-> a.id, fingerprint |-> a.fingerprint]
      /\ b = [id |-> b.id, fingerprint |-> b.fingerprint]
      /\ a.id \in Ids /\ b.id \in Ids
      /\ a.fingerprint \in Fingerprints /\ b.fingerprint \in Fingerprints
  BY <1>1 DEF Approval
<1>3. CASE a.fingerprint = b.fingerprint
  <2>1. index[a.fingerprint] = a.id /\ index[a.fingerprint] = b.id
    BY <1>2, <1>3 DEF ApprovalInv, IndexMatchesPending
  <2> QED  BY <1>2, <1>3, <2>1
<1>4. CASE a.id = b.id
  BY <1>4 DEF ApprovalInv, IdsAreGiven
<1> QED  BY <1>3, <1>4

-----------------------------------------------------------------------------
(* Requests.                                                               *)

LEMMA PassKeeps ==
  ASSUME ApprovalInv, NEW r \in Requests, Pass(r)
  PROVE  ApprovalInv'
<1>1. /\ outcome[r] = "new" /\ ~NeedsDecision(r)
      /\ outcome' = [outcome EXCEPT ![r] = "allowed"]
      /\ UNCHANGED <<pending, index, stored, created, waiters, timers, resolved,
                     rules, asked>>
  BY DEF Pass
<1>2. /\ outcome' \in [Requests -> Outcomes]
      /\ \A s \in Requests :
           outcome'[s] = IF s = r THEN "allowed" ELSE outcome[s]
  BY <1>1 DEF ApprovalInv, TypeOK, Outcomes
<1>3. asked[r] = 0 /\ waiters[r] = 0
  BY <1>1 DEF ApprovalInv, WaitersAsked
<1>4. TypeOK'
  BY <1>1, <1>2 DEF ApprovalInv, TypeOK
<1>5. (StoredAgrees /\ IdsAreGiven /\ IndexMatchesPending)'
  BY <1>1 DEF ApprovalInv, StoredAgrees, IdsAreGiven, IndexMatchesPending
<1>6. WaitersAsked'
  BY <1>1, <1>2, <1>3 DEF ApprovalInv, WaitersAsked
<1>7. PendingIsUndecided'
  BY <1>1, <1>2, <1>3 DEF ApprovalInv, PendingIsUndecided, TypeOK, Approval, Ids
<1>8. WaitersCanBeDecided'
  BY <1>1, <1>2 DEF ApprovalInv, WaitersCanBeDecided
<1>9. SharedDecision'
  BY <1>1, <1>2, <1>3 DEF ApprovalInv, SharedDecision
<1> QED  BY <1>4, <1>5, <1>6, <1>7, <1>8, <1>9 DEF ApprovalInv

(***************************************************************************)
(* A request joins the pending approval of its fingerprint or creates one  *)
(* with a new id: in both cases everyone who asked with that id waits or   *)
(* is gone.                                                                *)
(***************************************************************************)
LEMMA EnqueueKeeps ==
  ASSUME ApprovalInv, NEW r \in Requests, NEW id \in Ids, Enqueue(r, id)
  PROVE  /\ pending' \subseteq Approval /\ IsFiniteSet(pending') /\ stored' = pending'
         /\ pending \subseteq pending'
         /\ index' \in [Fingerprints -> 0..MaxApprovals]
         /\ created' \in 0..MaxApprovals /\ created <= created' /\ id <= created'
         /\ [id |-> id, fingerprint |-> Fingerprint[r]] \in pending'
         /\ \A a \in pending' : a.id <= created'
         /\ \A a, b \in pending' : a.id = b.id => a = b
         /\ \A f \in Fingerprints, i \in Ids :
              index'[f] = i <=> [id |-> i, fingerprint |-> f] \in pending'
         /\ \A a \in pending' : a \in pending \/ a.id = id
         /\ \A s \in Requests : asked[s] = id => outcome[s] \in {"waiting", "gone"}
<1> DEFINE f0 == Fingerprint[r]
           new == [id |-> id, fingerprint |-> f0]
<1>0. f0 \in Fingerprints /\ new \in Approval /\ new.id = id /\ new.fingerprint = f0
  BY DEF Approval
<1>t. /\ pending \subseteq Approval /\ index \in [Fingerprints -> 0..MaxApprovals]
      /\ created \in 0..MaxApprovals /\ stored = pending /\ IsFiniteSet(pending)
      /\ asked \in [Requests -> 0..MaxApprovals]
  BY DEF ApprovalInv, TypeOK, StoredAgrees
<1>1. CASE index[f0] # 0
  <2>1. id = index[f0] /\ UNCHANGED <<pending, index, stored, created>>
    BY <1>1 DEF Enqueue
  <2>2. new \in pending
    BY <1>0, <2>1 DEF ApprovalInv, IndexMatchesPending
  <2>3. \A s \in Requests : asked[s] = id => outcome[s] \in {"waiting", "gone"}
    BY <1>0, <2>2 DEF ApprovalInv, PendingIsUndecided
  <2>4. id <= created
    BY <1>0, <2>2 DEF ApprovalInv, IdsAreGiven
  <2> QED  BY <1>t, <2>1, <2>2, <2>3, <2>4 DEF ApprovalInv, IdsAreGiven, IndexMatchesPending
<1>2. CASE index[f0] = 0
  <2>1. /\ id = created + 1 /\ created' = id /\ pending' = pending \cup {new}
        /\ index' = [index EXCEPT ![f0] = id] /\ stored' = pending'
    BY <1>2 DEF Enqueue
  <2>2. IsFiniteSet(pending')
    BY <1>t, <2>1, FS_AddElement
  <2>3. \A a \in pending : a.id <= created /\ a.id \in Ids /\ a.id # id
    BY <1>t, <2>1 DEF ApprovalInv, IdsAreGiven, Approval, Ids
  <2>4. \A a, b \in pending' : a.id = b.id => a = b
    BY <1>0, <2>1, <2>3 DEF ApprovalInv, IdsAreGiven
  <2>5. \A i \in Ids : [id |-> i, fingerprint |-> f0] \notin pending
    BY <1>0, <1>2 DEF ApprovalInv, IndexMatchesPending, Ids
  <2>6. ASSUME NEW f \in Fingerprints, NEW i \in Ids
        PROVE  index'[f] = i <=> [id |-> i, fingerprint |-> f] \in pending'
    <3>1. CASE f = f0
      <4>1. index'[f] = id
        BY <1>t, <2>1, <3>1
      <4>2. [id |-> i, fingerprint |-> f] = new <=> i = id
        BY <3>1
      <4> QED  BY <2>1, <2>5, <3>1, <4>1, <4>2
    <3>2. CASE f # f0
      <4>1. index'[f] = index[f]
        BY <1>t, <2>1, <3>2
      <4>2. [id |-> i, fingerprint |-> f] # new
        BY <3>2
      <4> QED  BY <2>1, <4>1, <4>2 DEF ApprovalInv, IndexMatchesPending
    <3> QED  BY <3>1, <3>2
  <2>7. \A s \in Requests : asked[s] # id
    BY <1>t, <2>1 DEF ApprovalInv, IdsAreGiven
  <2>8. /\ created' \in 0..MaxApprovals /\ created <= created' /\ id <= created'
        /\ index' \in [Fingerprints -> 0..MaxApprovals]
        /\ pending' \subseteq Approval
    BY <1>0, <1>t, <2>1 DEF Ids
  <2>9. \A a \in pending' : a.id <= created' /\ (a \in pending \/ a.id = id)
    BY <1>0, <1>t, <2>1, <2>3 DEF Ids
  <2> QED  BY <2>1, <2>2, <2>4, <2>6, <2>7, <2>8, <2>9
<1> QED  BY <1>1, <1>2

\* A request that asks joins a pending approval or makes one with a new id.
LEMMA AskKeeps ==
  ASSUME ApprovalInv, NEW r \in Requests, Ask(r)
  PROVE  ApprovalInv'
<1>1. PICK id \in Ids :
        /\ Enqueue(r, id)
        /\ waiters' = [waiters EXCEPT ![r] = id]
        /\ asked' = [asked EXCEPT ![r] = id]
  BY DEF Ask
<1>2. /\ outcome[r] = "new" /\ timers' = timers \cup {r}
      /\ outcome' = [outcome EXCEPT ![r] = "waiting"]
      /\ UNCHANGED <<resolved, rules>>
  BY DEF Ask
<1>t. TypeOK
  BY DEF ApprovalInv
<1>3. /\ pending' \subseteq Approval /\ IsFiniteSet(pending') /\ stored' = pending'
      /\ pending \subseteq pending'
      /\ index' \in [Fingerprints -> 0..MaxApprovals]
      /\ created' \in 0..MaxApprovals /\ created <= created' /\ id <= created'
      /\ [id |-> id, fingerprint |-> Fingerprint[r]] \in pending'
      /\ \A a \in pending' : a.id <= created'
      /\ \A a, b \in pending' : a.id = b.id => a = b
      /\ \A f \in Fingerprints, i \in Ids :
           index'[f] = i <=> [id |-> i, fingerprint |-> f] \in pending'
      /\ \A a \in pending' : a \in pending \/ a.id = id
      /\ \A s \in Requests : asked[s] = id => outcome[s] \in {"waiting", "gone"}
  BY <1>1, EnqueueKeeps
<1>4. /\ \A s \in Requests :
           /\ outcome'[s] = IF s = r THEN "waiting" ELSE outcome[s]
           /\ waiters'[s] = IF s = r THEN id ELSE waiters[s]
           /\ asked'[s] = IF s = r THEN id ELSE asked[s]
      /\ outcome' \in [Requests -> Outcomes]
      /\ waiters' \in [Requests -> 0..MaxApprovals]
      /\ asked' \in [Requests -> 0..MaxApprovals]
  BY <1>1, <1>2, <1>t DEF TypeOK, Outcomes, Ids
<1>5. TypeOK'
  BY <1>2, <1>3, <1>4, <1>t DEF TypeOK
<1>6. StoredAgrees'
  BY <1>3 DEF StoredAgrees
<1>7. IdsAreGiven'
  <2>1. ASSUME NEW s \in Requests
        PROVE  asked'[s] <= created'
    <3>1. asked[s] \in 0..MaxApprovals /\ asked[s] <= created
          /\ created \in 0..MaxApprovals /\ created' \in 0..MaxApprovals
          /\ created <= created' /\ id <= created'
      BY <1>3, <1>t DEF ApprovalInv, IdsAreGiven, TypeOK
    <3>2. asked'[s] = id \/ asked'[s] = asked[s]
      BY <1>4
    <3> QED  BY <3>1, <3>2 DEF Ids
  <2> QED  BY <1>3, <2>1 DEF IdsAreGiven
<1>8. WaitersAsked'
  BY <1>4 DEF ApprovalInv, WaitersAsked, Ids
<1>9. PendingIsUndecided'
  <2> SUFFICES ASSUME NEW a \in pending', NEW s \in Requests, asked'[s] = a.id
               PROVE  outcome'[s] \in {"waiting", "gone"}
    BY DEF PendingIsUndecided
  <2>1. CASE s = r
    BY <1>4, <2>1
  <2>2. CASE s # r /\ a.id = id
    BY <1>3, <1>4, <2>2
  <2>3. CASE s # r /\ a \in pending
    BY <1>4, <2>3 DEF ApprovalInv, PendingIsUndecided
  <2> QED  BY <1>3, <2>1, <2>2, <2>3
<1>10. IndexMatchesPending'
  BY <1>3 DEF IndexMatchesPending
<1>11. WaitersCanBeDecided'
  BY <1>2, <1>3, <1>4 DEF ApprovalInv, WaitersCanBeDecided
<1>12. SharedDecision'
  <2> SUFFICES ASSUME NEW p \in Requests, NEW q \in Requests,
                      asked'[p] # 0, asked'[p] = asked'[q],
                      outcome'[p] # "gone", outcome'[q] # "gone"
               PROVE  outcome'[p] = outcome'[q]
    BY DEF SharedDecision
  <2>1. CASE p # r /\ q # r
    BY <1>4, <2>1 DEF ApprovalInv, SharedDecision
  <2>2. CASE p = r /\ q # r
    BY <1>3, <1>4, <2>2
  <2>3. CASE p # r /\ q = r
    BY <1>3, <1>4, <2>3
  <2> QED  BY <2>1, <2>2, <2>3
<1> QED  BY <1>5, <1>6, <1>7, <1>8, <1>9, <1>10, <1>11, <1>12 DEF ApprovalInv

-----------------------------------------------------------------------------
(* Decisions.                                                              *)

(***************************************************************************)
(* Whoever waited for one of the approvals that are decided is answered,   *)
(* nobody else, and the rest of the invariant about requests survives.     *)
(***************************************************************************)
LEMMA ReleaseKeeps ==
  ASSUME ApprovalInv,
         NEW gone \in SUBSET pending, NEW decision \in Decisions,
         Release({r \in Requests : \E a \in gone : waiters[r] = a.id}, decision),
         pending' = pending \ gone,
         UNCHANGED <<created, asked>>
  PROVE  /\ waiters' \in [Requests -> 0..MaxApprovals] /\ timers' \subseteq Requests
         /\ outcome' \in [Requests -> Outcomes]
         /\ WaitersAsked' /\ PendingIsUndecided' /\ WaitersCanBeDecided'
         /\ SharedDecision'
<1> DEFINE Released(r) == \E a \in gone : waiters[r] = a.id
<1>t. TypeOK
  BY DEF ApprovalInv
<1>1. \A a \in gone : a \in pending /\ a.id \in Ids /\ a.id # 0
  BY <1>t DEF TypeOK, Approval, Ids
<1>2. Answer(decision) \in {"allowed", "denied", "timedOut"}
  BY AnswerType
<1>3. /\ \A r \in Requests :
           /\ waiters'[r] = IF Released(r) THEN 0 ELSE waiters[r]
           /\ outcome'[r] = IF Released(r) THEN Answer(decision) ELSE outcome[r]
           /\ r \in timers' <=> r \in timers /\ ~Released(r)
      /\ waiters' \in [Requests -> 0..MaxApprovals] /\ timers' \subseteq Requests
      /\ outcome' \in [Requests -> Outcomes]
  BY <1>2, <1>t DEF Release, TypeOK, Outcomes
<1>4. \A r \in Requests : Released(r) => /\ waiters[r] # 0 /\ outcome[r] = "waiting"
                                         /\ asked[r] = waiters[r]
  BY <1>1 DEF ApprovalInv, WaitersAsked
<1> HIDE DEF Released
<1>5. WaitersAsked'
  BY <1>2, <1>3, <1>4 DEF ApprovalInv, WaitersAsked
<1>6. PendingIsUndecided'
  <2> SUFFICES ASSUME NEW a \in pending \ gone, NEW r \in Requests, asked[r] = a.id
               PROVE  outcome'[r] \in {"waiting", "gone"}
    BY DEF PendingIsUndecided
  <2>1. ~Released(r)
    <3> SUFFICES ASSUME NEW b \in gone, waiters[r] = b.id PROVE FALSE
      BY DEF Released
    <3>1. Released(r)
      BY DEF Released
    <3>2. a.id = b.id
      BY <1>4, <3>1
    <3> QED  BY <1>1, <3>2, PendingIsUnique
  <2> QED  BY <1>3, <2>1 DEF ApprovalInv, PendingIsUndecided
<1>7. WaitersCanBeDecided'
  <2> SUFFICES ASSUME NEW r \in Requests, outcome'[r] = "waiting"
               PROVE  /\ [id |-> waiters'[r], fingerprint |-> Fingerprint[r]]
                           \in pending \ gone
                      /\ r \in timers'
    BY DEF WaitersCanBeDecided
  <2>1. ~Released(r)
    BY <1>2, <1>3
  <2>2. /\ waiters'[r] = waiters[r] /\ outcome[r] = "waiting"
        /\ [id |-> waiters[r], fingerprint |-> Fingerprint[r]] \in pending
        /\ r \in timers
    BY <1>3, <2>1 DEF ApprovalInv, WaitersCanBeDecided
  <2>3. [id |-> waiters[r], fingerprint |-> Fingerprint[r]] \notin gone
    BY <2>1 DEF Released
  <2> QED  BY <1>3, <2>1, <2>2, <2>3
<1>8. SharedDecision'
  <2> SUFFICES ASSUME NEW p \in Requests, NEW q \in Requests,
                      asked[p] # 0, asked[p] = asked[q],
                      outcome'[p] # "gone", outcome'[q] # "gone"
               PROVE  outcome'[p] = outcome'[q]
    BY DEF SharedDecision
  <2>1. outcome[p] = outcome[q]
    BY <1>3, <1>4 DEF ApprovalInv, SharedDecision
  <2>2. Released(p) <=> Released(q)
    <3>1. CASE Released(p)
      <4>1. waiters[q] = waiters[p]
        BY <1>4, <2>1, <3>1 DEF ApprovalInv, WaitersAsked
      <4> QED  BY <3>1, <4>1 DEF Released
    <3>2. CASE Released(q)
      <4>1. waiters[q] = waiters[p]
        BY <1>4, <2>1, <3>2 DEF ApprovalInv, WaitersAsked
      <4> QED  BY <3>2, <4>1 DEF Released
    <3> QED  BY <3>1, <3>2
  <2> QED  BY <1>3, <2>1, <2>2
<1> QED  BY <1>3, <1>5, <1>6, <1>7, <1>8

\* The decision of one approval, whoever takes it.
LEMMA ResolveKeeps ==
  ASSUME ApprovalInv, NEW a \in pending, NEW decision \in Decisions,
         ResolveAndRemove(a, decision), UNCHANGED <<created, asked>>,
         rules' \subseteq Keys
  PROVE  ApprovalInv'
<1>t. TypeOK
  BY DEF ApprovalInv
<1>1. /\ pending' = pending \ {a} /\ stored' = pending'
      /\ index' = [index EXCEPT ![a.fingerprint] = 0]
      /\ Record(<<[id |-> a.id, decision |-> decision]>>)
      /\ Release(WaitersOf(a.id), decision)
  BY DEF ResolveAndRemove
<1>2. /\ a.id \in Ids /\ a.fingerprint \in Fingerprints
      /\ a = [id |-> a.id, fingerprint |-> a.fingerprint]
  BY <1>t DEF TypeOK, Approval
<1>3. <<[id |-> a.id, decision |-> decision]>> \in Seq(Resolved)
  BY <1>2 DEF Resolved
<1>4. resolved' \in Seq(Resolved) /\ Len(resolved') <= MaxResolved
  BY <1>1, <1>3, <1>t, RecordType DEF TypeOK
<1>5. WaitersOf(a.id) = {r \in Requests : \E b \in {a} : waiters[r] = b.id}
  BY DEF WaitersOf
<1>6. /\ waiters' \in [Requests -> 0..MaxApprovals] /\ timers' \subseteq Requests
      /\ outcome' \in [Requests -> Outcomes]
      /\ WaitersAsked' /\ PendingIsUndecided' /\ WaitersCanBeDecided'
      /\ SharedDecision'
  <2>1. {a} \in SUBSET pending
    OBVIOUS
  <2>2. Release({r \in Requests : \E b \in {a} : waiters[r] = b.id}, decision)
    BY <1>1, <1>5
  <2> QED  BY <1>1, <2>1, <2>2, ReleaseKeeps
<1>7. TypeOK'
  BY <1>1, <1>2, <1>4, <1>6, <1>t DEF TypeOK
<1>8. StoredAgrees'
  BY <1>1, FS_RemoveElement DEF ApprovalInv, StoredAgrees
<1>9. IdsAreGiven'
  BY <1>1 DEF ApprovalInv, IdsAreGiven
<1>10. IndexMatchesPending'
  <2> SUFFICES ASSUME NEW f \in Fingerprints, NEW i \in Ids
               PROVE  index'[f] = i <=> [id |-> i, fingerprint |-> f] \in pending'
    BY DEF IndexMatchesPending
  <2>1. CASE f = a.fingerprint
    <3>1. index'[f] = 0 /\ i # 0
      BY <1>1, <1>2, <1>t, <2>1 DEF TypeOK, Ids
    <3>2. [id |-> i, fingerprint |-> f] \in pending => [id |-> i, fingerprint |-> f] = a
      BY <2>1, PendingIsUnique
    <3> QED  BY <1>1, <3>1, <3>2
  <2>2. CASE f # a.fingerprint
    <3>1. index'[f] = index[f]
      BY <1>1, <1>2, <1>t, <2>2 DEF TypeOK
    <3>2. [id |-> i, fingerprint |-> f] # a
      BY <2>2
    <3> QED  BY <1>1, <3>1, <3>2 DEF ApprovalInv, IndexMatchesPending
  <2> QED  BY <2>1, <2>2
<1> QED  BY <1>6, <1>7, <1>8, <1>9, <1>10 DEF ApprovalInv

\* A decision answers all who wait for the approval and takes it from the
\* index.
LEMMA DecideKeeps ==
  ASSUME ApprovalInv, NEW a \in pending, NEW decision \in Decisions, Decide(a, decision)
  PROVE  ApprovalInv'
<1>1. RuleKey[a.fingerprint] \in Keys
  BY DEF ApprovalInv, TypeOK, Approval
<1>2. rules' \subseteq Keys /\ UNCHANGED <<created, asked>>
      /\ ResolveAndRemove(a, decision)
  BY <1>1 DEF Decide, ApprovalInv, TypeOK
<1> QED  BY <1>2, ResolveKeeps

\* The timer of one request expires the approval for all who joined it.
LEMMA ExpireKeeps ==
  ASSUME ApprovalInv, NEW r \in Requests, Expire(r)
  PROVE  ApprovalInv'
<1>1. PICK a \in pending : ResolveAndRemove(a, "expired")
  BY DEF Expire
<1>2. rules' \subseteq Keys /\ UNCHANGED <<created, asked>> /\ "expired" \in Decisions
  BY DEF Expire, ApprovalInv, TypeOK, Decisions
<1> QED  BY <1>1, <1>2, ResolveKeeps

LEMMA ClearKeeps ==
  ASSUME ApprovalInv, Clear
  PROVE  ApprovalInv'
<1>t. TypeOK
  BY DEF ApprovalInv
<1>1. /\ pending' = {} /\ index' = [f \in Fingerprints |-> 0] /\ stored' = {}
      /\ Release({r \in Requests : waiters[r] # 0}, "denied")
      /\ UNCHANGED <<created, rules, asked>>
  BY DEF Clear
<1>2. resolved' \in Seq(Resolved) /\ Len(resolved') <= MaxResolved
  <2>1. PICK order \in Orders(pending) :
          Record([i \in DOMAIN order |-> [id |-> order[i].id, decision |-> "denied"]])
    BY DEF Clear
  <2>2. Cardinality(pending) \in Nat
    BY FS_CardinalityType DEF ApprovalInv, StoredAgrees
  <2>3. order \in [1..Cardinality(pending) -> pending]
    BY DEF Orders
  <2>4. \A i \in 1..Cardinality(pending) :
          [id |-> order[i].id, decision |-> "denied"] \in Resolved
    <3> SUFFICES ASSUME NEW i \in 1..Cardinality(pending)
                 PROVE  [id |-> order[i].id, decision |-> "denied"] \in Resolved
      OBVIOUS
    <3>1. order[i] \in pending
      BY <2>3
    <3>2. order[i].id \in Ids
      BY <1>t, <3>1 DEF TypeOK, Approval
    <3> QED  BY <3>2 DEF Resolved, Decisions
  <2>5. [i \in DOMAIN order |-> [id |-> order[i].id, decision |-> "denied"]]
          \in [1..Cardinality(pending) -> Resolved]
    BY <2>3, <2>4
  <2>6. [i \in DOMAIN order |-> [id |-> order[i].id, decision |-> "denied"]]
          \in Seq(Resolved)
    BY <2>2, <2>5
  <2> QED  BY <1>t, <2>1, <2>6, RecordType DEF TypeOK
<1>3. {r \in Requests : waiters[r] # 0}
        = {r \in Requests : \E a \in pending : waiters[r] = a.id}
  <2>1. ASSUME NEW r \in Requests, waiters[r] # 0
        PROVE  \E a \in pending : waiters[r] = a.id
    <3>1. [id |-> waiters[r], fingerprint |-> Fingerprint[r]] \in pending
      BY <2>1 DEF ApprovalInv, WaitersAsked, WaitersCanBeDecided
    <3> QED  BY <3>1
  <2>2. \A a \in pending : a.id # 0
    BY <1>t DEF TypeOK, Approval, Ids
  <2> QED  BY <2>1, <2>2
<1>4. /\ waiters' \in [Requests -> 0..MaxApprovals] /\ timers' \subseteq Requests
      /\ outcome' \in [Requests -> Outcomes]
      /\ WaitersAsked' /\ PendingIsUndecided' /\ WaitersCanBeDecided'
      /\ SharedDecision'
  <2>1. pending \in SUBSET pending /\ pending' = pending \ pending
        /\ "denied" \in Decisions
    BY <1>1 DEF Decisions
  <2>2. Release({r \in Requests : \E a \in pending : waiters[r] = a.id}, "denied")
    BY <1>1, <1>3
  <2> QED  BY <1>1, <2>1, <2>2, ReleaseKeeps
<1>5. TypeOK'
  BY <1>1, <1>2, <1>4, <1>t DEF TypeOK
<1>6. StoredAgrees' /\ IdsAreGiven' /\ IndexMatchesPending'
  BY <1>1, <1>t, FS_EmptySet
  DEF ApprovalInv, StoredAgrees, IdsAreGiven, IndexMatchesPending, TypeOK, Ids
<1> QED  BY <1>4, <1>5, <1>6 DEF ApprovalInv

-----------------------------------------------------------------------------
(* The list of decisions, the rules and the restart.                       *)

LEMMA ClearResolvedKeeps ==
  ASSUME ApprovalInv, ClearResolved
  PROVE  ApprovalInv'
<1> USE DEF ClearResolved, ApprovalInv
<1>1. TypeOK'
  BY DEF TypeOK
<1>2. (StoredAgrees /\ IdsAreGiven /\ IndexMatchesPending)'
  BY DEF StoredAgrees, IdsAreGiven, IndexMatchesPending
<1>3. (WaitersAsked /\ PendingIsUndecided /\ WaitersCanBeDecided)'
  BY DEF WaitersAsked, PendingIsUndecided, WaitersCanBeDecided
<1>4. SharedDecision'
  BY DEF SharedDecision
<1> QED  BY <1>1, <1>2, <1>3, <1>4

LEMMA RuleEndsKeeps ==
  ASSUME ApprovalInv, NEW key \in Keys, RuleEnds(key)
  PROVE  ApprovalInv'
<1> USE DEF RuleEnds, ApprovalInv
<1>1. TypeOK'
  BY DEF TypeOK
<1>2. (StoredAgrees /\ IdsAreGiven /\ IndexMatchesPending)'
  BY DEF StoredAgrees, IdsAreGiven, IndexMatchesPending
<1>3. (WaitersAsked /\ PendingIsUndecided /\ WaitersCanBeDecided)'
  BY DEF WaitersAsked, PendingIsUndecided, WaitersCanBeDecided
<1>4. SharedDecision'
  BY DEF SharedDecision
<1> QED  BY <1>1, <1>2, <1>3, <1>4

(***************************************************************************)
(* A restart rebuilds the index from the file, which has one approval of a *)
(* fingerprint at most.                                                    *)
(***************************************************************************)
LEMMA RestartKeeps ==
  ASSUME ApprovalInv, Restart
  PROVE  ApprovalInv'
<1>t. TypeOK /\ stored = pending
  BY DEF ApprovalInv, StoredAgrees
<1>1. /\ pending' = pending
      /\ index' = [f \in Fingerprints |->
                     IF \E a \in pending : a.fingerprint = f
                     THEN (CHOOSE a \in pending : a.fingerprint = f).id ELSE 0]
      /\ waiters' = [r \in Requests |-> 0] /\ timers' = {} /\ resolved' = <<>>
      /\ outcome' = [r \in Requests |-> IF waiters[r] # 0 THEN "gone" ELSE outcome[r]]
      /\ UNCHANGED <<stored, created, rules, asked>>
  BY <1>t DEF Restart
<1>2. \A f \in Fingerprints :
        \/ \E a \in pending : a.fingerprint = f /\ index'[f] = a.id /\ a.id \in Ids
        \/ index'[f] = 0 /\ ~\E a \in pending : a.fingerprint = f
  <2> TAKE f \in Fingerprints
  <2>1. CASE \E a \in pending : a.fingerprint = f
    <3> DEFINE c == CHOOSE a \in pending : a.fingerprint = f
    <3>1. c \in pending /\ c.fingerprint = f
      BY <2>1
    <3>2. index'[f] = c.id
      BY <1>1, <2>1
    <3> HIDE DEF c
    <3> QED  BY <1>t, <3>1, <3>2 DEF TypeOK, Approval
  <2>2. CASE ~\E a \in pending : a.fingerprint = f
    BY <1>1, <2>2
  <2> QED  BY <2>1, <2>2
<1>3. IndexMatchesPending'
  <2> SUFFICES ASSUME NEW f \in Fingerprints, NEW i \in Ids
               PROVE  index'[f] = i <=> [id |-> i, fingerprint |-> f] \in pending
    BY <1>1 DEF IndexMatchesPending
  <2>1. CASE \E a \in pending : a.fingerprint = f /\ index'[f] = a.id /\ a.id \in Ids
    <3>1. PICK a \in pending : a.fingerprint = f /\ index'[f] = a.id
      BY <2>1
    <3>2. a = [id |-> a.id, fingerprint |-> f]
      BY <1>t, <3>1 DEF TypeOK, Approval
    <3>3. [id |-> i, fingerprint |-> f] \in pending => [id |-> i, fingerprint |-> f] = a
      BY <3>1, PendingIsUnique
    <3> QED  BY <3>1, <3>2, <3>3
  <2>2. CASE index'[f] = 0 /\ ~\E a \in pending : a.fingerprint = f
    BY <2>2 DEF Ids
  <2> QED  BY <1>2, <2>1, <2>2
<1>4. TypeOK'
  <2>1. index' \in [Fingerprints -> 0..MaxApprovals]
    <3>1. \A f \in Fingerprints : index'[f] \in 0..MaxApprovals
      BY <1>2 DEF Ids
    <3> QED  BY <1>1, <3>1
  <2> QED  BY <1>1, <1>t, <2>1 DEF TypeOK, Outcomes
<1>5. StoredAgrees' /\ IdsAreGiven'
  BY <1>1 DEF ApprovalInv, StoredAgrees, IdsAreGiven
<1>6. \A r \in Requests :
        /\ waiters'[r] = 0
        /\ outcome'[r] = IF outcome[r] = "waiting" THEN "gone" ELSE outcome[r]
  BY <1>1 DEF ApprovalInv, WaitersAsked
<1>7. (WaitersAsked /\ PendingIsUndecided /\ WaitersCanBeDecided)'
  BY <1>1, <1>6
  DEF ApprovalInv, WaitersAsked, PendingIsUndecided, WaitersCanBeDecided
<1>8. SharedDecision'
  BY <1>1, <1>6 DEF ApprovalInv, SharedDecision
<1> QED  BY <1>3, <1>4, <1>5, <1>7, <1>8 DEF ApprovalInv

-----------------------------------------------------------------------------
(* The theorems.                                                           *)

(***************************************************************************)
(* The store, the requests and the answers agree in every reachable state. *)
(***************************************************************************)
THEOREM ApprovalInvariant == Spec => []ApprovalInv
<1>1. Init => ApprovalInv
  <2> SUFFICES ASSUME Init PROVE ApprovalInv
    OBVIOUS
  <2>1. TypeOK
    BY DEF Init, TypeOK, Outcomes
  <2>2. StoredAgrees /\ IdsAreGiven /\ IndexMatchesPending
    BY FS_EmptySet DEF Init, StoredAgrees, IdsAreGiven, IndexMatchesPending, Ids
  <2>3. WaitersAsked /\ PendingIsUndecided /\ WaitersCanBeDecided
    BY DEF Init, WaitersAsked, PendingIsUndecided, WaitersCanBeDecided
  <2>4. SharedDecision
    BY DEF Init, SharedDecision
  <2> QED  BY <2>1, <2>2, <2>3, <2>4 DEF ApprovalInv
<1>2. ApprovalInv /\ [Next]_vars => ApprovalInv'
  <2> SUFFICES ASSUME ApprovalInv, [Next]_vars PROVE ApprovalInv'
    OBVIOUS
  <2>1. CASE UNCHANGED vars
    BY <2>1 DEF vars, ApprovalInv, TypeOK, StoredAgrees, IdsAreGiven, WaitersAsked,
                PendingIsUndecided, IndexMatchesPending, WaitersCanBeDecided,
                SharedDecision
  <2>2. CASE Next
    BY <2>2, PassKeeps, AskKeeps, ExpireKeeps, DecideKeeps, ClearKeeps,
       ClearResolvedKeeps, RuleEndsKeeps, RestartKeeps DEF Next
  <2> QED  BY <2>1, <2>2
<1> QED  BY <1>1, <1>2, PTL DEF Spec

\* Every variable of the store keeps its type, the list of decisions its limit.
THEOREM ApprovalTypeCorrect == Spec => []TypeOK
BY ApprovalInvariant, PTL DEF ApprovalInv

\* A request that waits can always be decided by the user and by its timer.
THEOREM WaitersDecidable == Spec => []WaitersCanBeDecided
BY ApprovalInvariant, PTL DEF ApprovalInv

\* The index by fingerprint and the list of pending approvals agree.
THEOREM IndexAgrees == Spec => []IndexMatchesPending
BY ApprovalInvariant, PTL DEF ApprovalInv

\* Requests that share an approval share its decision.
THEOREM DecisionIsShared == Spec => []SharedDecision
BY ApprovalInvariant, PTL DEF ApprovalInv

(***************************************************************************)
(* Nothing but the user's own decision on the approval it waits for allows *)
(* a force-interactive request.  Whoever is allowed without having waited  *)
(* went past NeedsDecision; whoever waited was released with its approval, *)
(* which is the one of its fingerprint.                                    *)
(***************************************************************************)
THEOREM InteractiveByDecision == Spec => InteractiveIsDecided
<1> DEFINE ByUser(r) ==
      Interactive(r) /\ outcome[r] # "allowed" /\ outcome'[r] = "allowed" =>
        \E a \in pending, decision \in {"approved", "always_allow"} :
          /\ a.id = waiters[r]
          /\ a.fingerprint = Fingerprint[r]
          /\ Decide(a, decision)
<1>1. ApprovalInv /\ [Next]_vars => [\A r \in Requests : ByUser(r)]_vars
  <2> SUFFICES ASSUME ApprovalInv, Next, NEW r \in Requests, Interactive(r),
                      outcome[r] # "allowed", outcome'[r] = "allowed"
               PROVE  \E a \in pending, decision \in {"approved", "always_allow"} :
                        /\ a.id = waiters[r]
                        /\ a.fingerprint = Fingerprint[r]
                        /\ Decide(a, decision)
    OBVIOUS
  <2>1. outcome \in [Requests -> Outcomes]
    BY DEF ApprovalInv, TypeOK
  <2>2. ~(\E s \in Requests : Pass(s) \/ Ask(s))
    BY <2>1 DEF Pass, Ask, NeedsDecision
  <2>3. ~(\E s \in Requests : Expire(s)) /\ ~Clear
    BY DEF Expire, ResolveAndRemove, Clear, Release, Answer
  <2>4. ~ClearResolved /\ ~(\E key \in Keys : RuleEnds(key)) /\ ~Restart
    BY DEF ClearResolved, RuleEnds, Restart
  <2>5. PICK a \in pending, decision \in Decisions : Decide(a, decision)
    BY <2>2, <2>3, <2>4 DEF Next
  <2>6. waiters[r] = a.id /\ Answer(decision) = "allowed"
    BY <2>5 DEF Decide, ResolveAndRemove, Release, WaitersOf
  <2>7. decision \in {"approved", "always_allow"}
    BY <2>5, <2>6 DEF Answer, Decisions
  <2>8. a.fingerprint = Fingerprint[r]
    <3> DEFINE b == [id |-> waiters[r], fingerprint |-> Fingerprint[r]]
    <3>1. waiters[r] # 0
      BY <2>6 DEF ApprovalInv, TypeOK, Approval, Ids
    <3>2. b \in pending /\ b.id = a.id
      BY <2>6, <3>1 DEF ApprovalInv, WaitersAsked, WaitersCanBeDecided
    <3>3. b = a
      BY <3>2, PendingIsUnique
    <3> QED  BY <3>3
  <2> QED  BY <2>5, <2>6, <2>7, <2>8
<1> QED  BY <1>1, ApprovalInvariant, PTL DEF Spec, InteractiveIsDecided

=============================================================================
