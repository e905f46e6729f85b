--------------------------- MODULE Enqueue_proofs ---------------------------
(***************************************************************************)
(* Proofs about Enqueue, for every set of requests and keys and every      *)
(* choice of what can fail.                                                *)
(***************************************************************************)
EXTENDS Enqueue, TLAPS

USE EnqueueAssumption

LEMMA InitIInv == Init => IInv
BY DEF Init, IInv, TypeOK, Steps, Written, NamedAreReadable, Readable, OverlapsAreNoted,
   InFlight, JobsAreKept, KeysLeadToJobs, Undecided, Decided, MessageHasRecord, AnswersAreReadable

\* The parts of the invariant, for a step that is about request q alone.
LEMMA TypeStep == IInv /\ [Next]_vars => TypeOK'
<1> SUFFICES ASSUME IInv, [Next]_vars PROVE TypeOK'
  OBVIOUS
<1> USE DEF IInv, TypeOK, Goto, Answer, inputs, history, redis, Steps
<1>1. ASSUME NEW q \in Requests, Begin(q) PROVE TypeOK'
  BY <1>1 DEF Begin, SameKey
<1>2. ASSUME NEW q \in Requests, Load(q) \/ ReadKey(q) PROVE TypeOK'
  BY <1>2 DEF Load, ReadKey, Written
<1>3. ASSUME NEW q \in Requests, ReadExisting(q) PROVE TypeOK'
  BY <1>3 DEF ReadExisting, Written
<1>4. ASSUME NEW q \in Requests, Lookup(q) PROVE TypeOK'
  <2>1. Branches \ {"key"} \in SUBSET Branches
    OBVIOUS
  <2> QED
    BY <1>4, <2>1 DEF Lookup
<1>5. ASSUME NEW q \in Requests, ResolveTarget(q) \/ SaveRecord(q) PROVE TypeOK'
  BY <1>5 DEF ResolveTarget, SaveRecord
<1>6. ASSUME NEW q \in Requests, SaveIdempotentJob(q) PROVE TypeOK'
  BY <1>6 DEF SaveIdempotentJob
<1>7. ASSUME NEW q \in Requests, Publish(q) \/ Respond(q) \/ Fail(q) \/ HitDone(q) PROVE TypeOK'
  BY <1>7 DEF Publish, Respond, Fail, HitDone
<1>8. ASSUME NEW q \in Requests, NEW b \in Branches, HitBranch(q, b) PROVE TypeOK'
  <2>1. todo' \in [Requests -> SUBSET Branches]
    BY <1>8 DEF HitBranch
  <2>2. keyJob' \in [Keys -> Requests \cup {None}]
    BY <1>8 DEF HitBranch
  <2>3. record' \in [Requests -> {"none", "queued", "completed"}]
    BY <1>8 DEF HitBranch
  <2> QED
    BY <1>8, <2>1, <2>2, <2>3 DEF HitBranch
<1>9. ASSUME NEW q \in Requests, NEW b \in Branches, HitFails(q, b) PROVE TypeOK'
  <2>1. todo' \in [Requests -> SUBSET Branches]
    BY <1>9 DEF HitFails
  <2> QED
    BY <1>9, <2>1 DEF HitFails
<1>10. ASSUME NEW k \in Keys, KeyExpires(k) PROVE TypeOK'
  BY <1>10 DEF KeyExpires
<1>11. CASE UNCHANGED vars
  BY <1>11 DEF vars
<1> QED
  BY <1>1, <1>2, <1>3, <1>4, <1>5, <1>6, <1>7, <1>8, <1>9, <1>10, <1>11 DEF Next, RequestNext

\* What a step writes, and where it leads.
LEMMA WrittenStep == IInv /\ [Next]_vars => Written'
<1> SUFFICES ASSUME IInv, [Next]_vars PROVE Written'
  OBVIOUS
<1> USE DEF IInv, TypeOK, Goto, Answer, inputs, history, redis, Written
<1>1. ASSUME NEW q \in Requests, Begin(q) PROVE Written'
  BY <1>1 DEF Begin
<1>2. ASSUME NEW q \in Requests, Load(q) PROVE Written'
  BY <1>2 DEF Load
<1>3. ASSUME NEW q \in Requests, ReadKey(q) PROVE Written'
  BY <1>3 DEF ReadKey
<1>4. ASSUME NEW q \in Requests, ReadExisting(q) PROVE Written'
  BY <1>4 DEF ReadExisting
<1>5. ASSUME NEW q \in Requests, Lookup(q) PROVE Written'
  BY <1>5 DEF Lookup, Branches
<1>6. ASSUME NEW q \in Requests, ResolveTarget(q) PROVE Written'
  BY <1>6 DEF ResolveTarget
<1>7. ASSUME NEW q \in Requests, SaveRecord(q) PROVE Written'
  BY <1>7 DEF SaveRecord
<1>8. ASSUME NEW q \in Requests, SaveIdempotentJob(q) PROVE Written'
  BY <1>8 DEF SaveIdempotentJob
<1>9. ASSUME NEW q \in Requests, Publish(q) PROVE Written'
  BY <1>9 DEF Publish
<1>10. ASSUME NEW q \in Requests, Respond(q) PROVE Written'
  BY <1>10 DEF Respond
<1>11. ASSUME NEW q \in Requests, Fail(q) PROVE Written'
  BY <1>11 DEF Fail
<1>12. ASSUME NEW q \in Requests, HitDone(q) PROVE Written'
  BY <1>12 DEF HitDone
<1>13. ASSUME NEW q \in Requests, NEW b \in Branches, HitBranch(q, b) PROVE Written'
  BY <1>13 DEF HitBranch, Due, Earlier, Branches
<1>14. ASSUME NEW q \in Requests, NEW b \in Branches, HitFails(q, b) PROVE Written'
  BY <1>14 DEF HitFails, Due, Earlier, Branches
<1>15. ASSUME NEW k \in Keys, KeyExpires(k) PROVE Written'
  BY <1>15 DEF KeyExpires
<1>16. CASE UNCHANGED vars
  BY <1>16 DEF vars
<1> QED
  BY <1>1, <1>2, <1>3, <1>4, <1>5, <1>6, <1>7, <1>8, <1>9, <1>10, <1>11, <1>12, <1>13, <1>14, <1>15, <1>16 DEF Next, RequestNext

\* A key is saved after the result.
LEMMA NamedStep == IInv /\ [Next]_vars => NamedAreReadable'
<1> SUFFICES ASSUME IInv, [Next]_vars PROVE NamedAreReadable'
  OBVIOUS
<1> USE DEF IInv, TypeOK, Goto, Answer, inputs, history, redis, Written, NamedAreReadable, Readable
<1>1. ASSUME NEW q \in Requests, Begin(q) PROVE NamedAreReadable'
  BY <1>1 DEF Begin
<1>2. ASSUME NEW q \in Requests, Load(q) PROVE NamedAreReadable'
  BY <1>2 DEF Load
<1>3. ASSUME NEW q \in Requests, ReadKey(q) PROVE NamedAreReadable'
  BY <1>3 DEF ReadKey
<1>4. ASSUME NEW q \in Requests, ReadExisting(q) PROVE NamedAreReadable'
  BY <1>4 DEF ReadExisting
<1>5. ASSUME NEW q \in Requests, Lookup(q) PROVE NamedAreReadable'
  BY <1>5 DEF Lookup
<1>6. ASSUME NEW q \in Requests, ResolveTarget(q) PROVE NamedAreReadable'
  BY <1>6 DEF ResolveTarget
<1>7. ASSUME NEW q \in Requests, SaveRecord(q) PROVE NamedAreReadable'
  BY <1>7 DEF SaveRecord
<1>8. ASSUME NEW q \in Requests, SaveIdempotentJob(q) PROVE NamedAreReadable'
  BY <1>8 DEF SaveIdempotentJob
<1>9. ASSUME NEW q \in Requests, Publish(q) PROVE NamedAreReadable'
  BY <1>9 DEF Publish
<1>10. ASSUME NEW q \in Requests, Respond(q) PROVE NamedAreReadable'
  BY <1>10 DEF Respond
<1>11. ASSUME NEW q \in Requests, Fail(q) PROVE NamedAreReadable'
  BY <1>11 DEF Fail
<1>12. ASSUME NEW q \in Requests, HitDone(q) PROVE NamedAreReadable'
  BY <1>12 DEF HitDone
<1>13. ASSUME NEW q \in Requests, NEW b \in Branches, HitBranch(q, b) PROVE NamedAreReadable'
  BY <1>13 DEF HitBranch, Due, Earlier, Branches
<1>14. ASSUME NEW q \in Requests, NEW b \in Branches, HitFails(q, b) PROVE NamedAreReadable'
  BY <1>14 DEF HitFails, Due, Earlier, Branches
<1>15. ASSUME NEW k \in Keys, KeyExpires(k) PROVE NamedAreReadable'
  BY <1>15 DEF KeyExpires
<1>16. CASE UNCHANGED vars
  BY <1>16 DEF vars
<1> QED
  BY <1>1, <1>2, <1>3, <1>4, <1>5, <1>6, <1>7, <1>8, <1>9, <1>10, <1>11, <1>12, <1>13, <1>14, <1>15, <1>16 DEF Next, RequestNext

\* Begin notes whom the request meets.
LEMMA OverlapsStep == IInv /\ [Next]_vars => OverlapsAreNoted'
<1> SUFFICES ASSUME IInv, [Next]_vars PROVE OverlapsAreNoted'
  OBVIOUS
<1> USE DEF IInv, TypeOK, Goto, Answer, inputs, history, redis, InFlight, SameKey, OverlapsAreNoted
<1>1. ASSUME NEW q \in Requests, Begin(q) PROVE OverlapsAreNoted'
  BY <1>1 DEF Begin
<1>2. ASSUME NEW q \in Requests, Load(q) PROVE OverlapsAreNoted'
  BY <1>2 DEF Load
<1>3. ASSUME NEW q \in Requests, ReadKey(q) PROVE OverlapsAreNoted'
  BY <1>3 DEF ReadKey
<1>4. ASSUME NEW q \in Requests, ReadExisting(q) PROVE OverlapsAreNoted'
  BY <1>4 DEF ReadExisting
<1>5. ASSUME NEW q \in Requests, Lookup(q) PROVE OverlapsAreNoted'
  BY <1>5 DEF Lookup
<1>6. ASSUME NEW q \in Requests, ResolveTarget(q) PROVE OverlapsAreNoted'
  BY <1>6 DEF ResolveTarget
<1>7. ASSUME NEW q \in Requests, SaveRecord(q) PROVE OverlapsAreNoted'
  BY <1>7 DEF SaveRecord
<1>8. ASSUME NEW q \in Requests, SaveIdempotentJob(q) PROVE OverlapsAreNoted'
  BY <1>8 DEF SaveIdempotentJob
<1>9. ASSUME NEW q \in Requests, Publish(q) PROVE OverlapsAreNoted'
  BY <1>9 DEF Publish
<1>10. ASSUME NEW q \in Requests, Respond(q) PROVE OverlapsAreNoted'
  BY <1>10 DEF Respond
<1>11. ASSUME NEW q \in Requests, Fail(q) PROVE OverlapsAreNoted'
  BY <1>11 DEF Fail
<1>12. ASSUME NEW q \in Requests, HitDone(q) PROVE OverlapsAreNoted'
  BY <1>12 DEF HitDone
<1>13. ASSUME NEW q \in Requests, NEW b \in Branches, HitBranch(q, b) PROVE OverlapsAreNoted'
  BY <1>13 DEF HitBranch, Due, Earlier, Branches
<1>14. ASSUME NEW q \in Requests, NEW b \in Branches, HitFails(q, b) PROVE OverlapsAreNoted'
  BY <1>14 DEF HitFails, Due, Earlier, Branches
<1>15. ASSUME NEW k \in Keys, KeyExpires(k) PROVE OverlapsAreNoted'
  BY <1>15 DEF KeyExpires
<1>16. CASE UNCHANGED vars
  BY <1>16 DEF vars
<1> QED
  BY <1>1, <1>2, <1>3, <1>4, <1>5, <1>6, <1>7, <1>8, <1>9, <1>10, <1>11, <1>12, <1>13, <1>14, <1>15, <1>16 DEF Next, RequestNext

\* A request is answered after its message is sent.
LEMMA KeptStep == IInv /\ [Next]_vars => JobsAreKept'
<1> SUFFICES ASSUME IInv, [Next]_vars PROVE JobsAreKept'
  OBVIOUS
<1> USE DEF IInv, TypeOK, Goto, Answer, inputs, history, redis, Written, JobsAreKept, InFlight
<1>1. ASSUME NEW q \in Requests, Begin(q) PROVE JobsAreKept'
  BY <1>1 DEF Begin
<1>2. ASSUME NEW q \in Requests, Load(q) PROVE JobsAreKept'
  BY <1>2 DEF Load
<1>3. ASSUME NEW q \in Requests, ReadKey(q) PROVE JobsAreKept'
  BY <1>3 DEF ReadKey
<1>4. ASSUME NEW q \in Requests, ReadExisting(q) PROVE JobsAreKept'
  BY <1>4 DEF ReadExisting
<1>5. ASSUME NEW q \in Requests, Lookup(q) PROVE JobsAreKept'
  BY <1>5 DEF Lookup
<1>6. ASSUME NEW q \in Requests, ResolveTarget(q) PROVE JobsAreKept'
  BY <1>6 DEF ResolveTarget
<1>7. ASSUME NEW q \in Requests, SaveRecord(q) PROVE JobsAreKept'
  BY <1>7 DEF SaveRecord
<1>8. ASSUME NEW q \in Requests, SaveIdempotentJob(q) PROVE JobsAreKept'
  BY <1>8 DEF SaveIdempotentJob
<1>9. ASSUME NEW q \in Requests, Publish(q) PROVE JobsAreKept'
  BY <1>9 DEF Publish
<1>10. ASSUME NEW q \in Requests, Respond(q) PROVE JobsAreKept'
  BY <1>10 DEF Respond
<1>11. ASSUME NEW q \in Requests, Fail(q) PROVE JobsAreKept'
  BY <1>11 DEF Fail
<1>12. ASSUME NEW q \in Requests, HitDone(q) PROVE JobsAreKept'
  BY <1>12 DEF HitDone
<1>13. ASSUME NEW q \in Requests, NEW b \in Branches, HitBranch(q, b) PROVE JobsAreKept'
  BY <1>13 DEF HitBranch, Due, Earlier, Branches
<1>14. ASSUME NEW q \in Requests, NEW b \in Branches, HitFails(q, b) PROVE JobsAreKept'
  BY <1>14 DEF HitFails, Due, Earlier, Branches
<1>15. ASSUME NEW k \in Keys, KeyExpires(k) PROVE JobsAreKept'
  BY <1>15 DEF KeyExpires
<1>16. CASE UNCHANGED vars
  BY <1>16 DEF vars
<1> QED
  BY <1>1, <1>2, <1>3, <1>4, <1>5, <1>6, <1>7, <1>8, <1>9, <1>10, <1>11, <1>12, <1>13, <1>14, <1>15, <1>16 DEF Next, RequestNext

\* The record comes before the message.
LEMMA MessageStep == IInv /\ [Next]_vars => MessageHasRecord'
<1> SUFFICES ASSUME IInv, [Next]_vars PROVE MessageHasRecord'
  OBVIOUS
<1> USE DEF IInv, TypeOK, Goto, Answer, inputs, history, redis, Written, MessageHasRecord
<1>1. ASSUME NEW q \in Requests, Begin(q) PROVE MessageHasRecord'
  BY <1>1 DEF Begin
<1>2. ASSUME NEW q \in Requests, Load(q) PROVE MessageHasRecord'
  BY <1>2 DEF Load
<1>3. ASSUME NEW q \in Requests, ReadKey(q) PROVE MessageHasRecord'
  BY <1>3 DEF ReadKey
<1>4. ASSUME NEW q \in Requests, ReadExisting(q) PROVE MessageHasRecord'
  BY <1>4 DEF ReadExisting
<1>5. ASSUME NEW q \in Requests, Lookup(q) PROVE MessageHasRecord'
  BY <1>5 DEF Lookup
<1>6. ASSUME NEW q \in Requests, ResolveTarget(q) PROVE MessageHasRecord'
  BY <1>6 DEF ResolveTarget
<1>7. ASSUME NEW q \in Requests, SaveRecord(q) PROVE MessageHasRecord'
  BY <1>7 DEF SaveRecord
<1>8. ASSUME NEW q \in Requests, SaveIdempotentJob(q) PROVE MessageHasRecord'
  BY <1>8 DEF SaveIdempotentJob
<1>9. ASSUME NEW q \in Requests, Publish(q) PROVE MessageHasRecord'
  BY <1>9 DEF Publish
<1>10. ASSUME NEW q \in Requests, Respond(q) PROVE MessageHasRecord'
  BY <1>10 DEF Respond
<1>11. ASSUME NEW q \in Requests, Fail(q) PROVE MessageHasRecord'
  BY <1>11 DEF Fail
<1>12. ASSUME NEW q \in Requests, HitDone(q) PROVE MessageHasRecord'
  BY <1>12 DEF HitDone
<1>13. ASSUME NEW q \in Requests, NEW b \in Branches, HitBranch(q, b) PROVE MessageHasRecord'
  BY <1>13 DEF HitBranch, Due, Earlier, Branches
<1>14. ASSUME NEW q \in Requests, NEW b \in Branches, HitFails(q, b) PROVE MessageHasRecord'
  BY <1>14 DEF HitFails, Due, Earlier, Branches
<1>15. ASSUME NEW k \in Keys, KeyExpires(k) PROVE MessageHasRecord'
  BY <1>15 DEF KeyExpires
<1>16. CASE UNCHANGED vars
  BY <1>16 DEF vars
<1> QED
  BY <1>1, <1>2, <1>3, <1>4, <1>5, <1>6, <1>7, <1>8, <1>9, <1>10, <1>11, <1>12, <1>13, <1>14, <1>15, <1>16 DEF Next, RequestNext

\* An answer is the request's own job or the one its key leads to.
LEMMA AnswersStep == IInv /\ [Next]_vars => AnswersAreReadable'
<1> SUFFICES ASSUME IInv, [Next]_vars PROVE AnswersAreReadable'
  OBVIOUS
<1> USE DEF IInv, TypeOK, Goto, Answer, inputs, history, redis, Written, NamedAreReadable, Readable, AnswersAreReadable
<1>1. ASSUME NEW q \in Requests, Begin(q) PROVE AnswersAreReadable'
  BY <1>1 DEF Begin
<1>2. ASSUME NEW q \in Requests, Load(q) PROVE AnswersAreReadable'
  BY <1>2 DEF Load
<1>3. ASSUME NEW q \in Requests, ReadKey(q) PROVE AnswersAreReadable'
  BY <1>3 DEF ReadKey
<1>4. ASSUME NEW q \in Requests, ReadExisting(q) PROVE AnswersAreReadable'
  BY <1>4 DEF ReadExisting
<1>5. ASSUME NEW q \in Requests, Lookup(q) PROVE AnswersAreReadable'
  BY <1>5 DEF Lookup
<1>6. ASSUME NEW q \in Requests, ResolveTarget(q) PROVE AnswersAreReadable'
  BY <1>6 DEF ResolveTarget
<1>7. ASSUME NEW q \in Requests, SaveRecord(q) PROVE AnswersAreReadable'
  BY <1>7 DEF SaveRecord
<1>8. ASSUME NEW q \in Requests, SaveIdempotentJob(q) PROVE AnswersAreReadable'
  BY <1>8 DEF SaveIdempotentJob
<1>9. ASSUME NEW q \in Requests, Publish(q) PROVE AnswersAreReadable'
  BY <1>9 DEF Publish
<1>10. ASSUME NEW q \in Requests, Respond(q) PROVE AnswersAreReadable'
  BY <1>10 DEF Respond
<1>11. ASSUME NEW q \in Requests, Fail(q) PROVE AnswersAreReadable'
  BY <1>11 DEF Fail
<1>12. ASSUME NEW q \in Requests, HitDone(q) PROVE AnswersAreReadable'
  BY <1>12 DEF HitDone
<1>13. ASSUME NEW q \in Requests, NEW b \in Branches, HitBranch(q, b) PROVE AnswersAreReadable'
  BY <1>13 DEF HitBranch, Due, Earlier, Branches
<1>14. ASSUME NEW q \in Requests, NEW b \in Branches, HitFails(q, b) PROVE AnswersAreReadable'
  BY <1>14 DEF HitFails, Due, Earlier, Branches
<1>15. ASSUME NEW k \in Keys, KeyExpires(k) PROVE AnswersAreReadable'
  BY <1>15 DEF KeyExpires
<1>16. CASE UNCHANGED vars
  BY <1>16 DEF vars
<1> QED
  BY <1>1, <1>2, <1>3, <1>4, <1>5, <1>6, <1>7, <1>8, <1>9, <1>10, <1>11, <1>12, <1>13, <1>14, <1>15, <1>16 DEF Next, RequestNext

\* No other request of the key is in flight to change what it leads to.
LEMMA KeysStep == IInv /\ [Next]_vars => KeysLeadToJobs'
<1> SUFFICES ASSUME IInv, [Next]_vars PROVE KeysLeadToJobs'
  OBVIOUS
<1> USE DEF IInv, TypeOK, Goto, Answer, inputs, history, redis, InFlight, SameKey, Written, NamedAreReadable, OverlapsAreNoted, Undecided, Decided, KeysLeadToJobs, MessageHasRecord, AnswersAreReadable
<1>1. ASSUME NEW q \in Requests, Begin(q) PROVE KeysLeadToJobs'
  BY <1>1 DEF Begin
<1>2. ASSUME NEW q \in Requests, Load(q) PROVE KeysLeadToJobs'
  BY <1>2 DEF Load
<1>3. ASSUME NEW q \in Requests, ReadKey(q) PROVE KeysLeadToJobs'
  BY <1>3 DEF ReadKey
<1>4. ASSUME NEW q \in Requests, ReadExisting(q) PROVE KeysLeadToJobs'
  <2> USE DEF ReadExisting
  <2>1. CASE record[found[q]] # "none" /\ Answer(q, found[q])
    BY <1>4, <2>1
  <2>2. CASE record[found[q]] = "none" /\ Goto(q, "lookup") /\ UNCHANGED answer
    <3>1. key[q] \in Keys \ (overlapped \cup expired) =>
             \A p \in Requests : SameKey(p, q) => p \notin published /\ answer[p] \notin Requests
      BY <1>4, <2>2
    <3> QED
      BY <1>4, <2>2, <3>1
  <2> QED
    BY <1>4, <2>1, <2>2
<1>5. ASSUME NEW q \in Requests, Lookup(q) PROVE KeysLeadToJobs'
  <2>1. \A p \in Requests : \/ p # q /\ pc'[p] = pc[p] /\ todo'[p] = todo[p]
                            \/ /\ p = q /\ Undecided(q) /\ pc'[q] # "existing"
                               /\ Decided(q)' => key[q] = NoKey
    BY <1>5 DEF Lookup, Branches
  <2>2. UNCHANGED <<key, found, answer, keyJob, published, overlapped, expired>>
    BY <1>5 DEF Lookup
  <2>3. \A p \in Requests : (Undecided(p)' => Undecided(p)) /\ (Decided(p)' => Decided(p) \/ key[p] = NoKey)
    BY <2>1, <2>2
  <2> QED
    BY <2>1, <2>2, <2>3
<1>6. ASSUME NEW q \in Requests, ResolveTarget(q) PROVE KeysLeadToJobs'
  BY <1>6 DEF ResolveTarget
<1>7. ASSUME NEW q \in Requests, SaveRecord(q) PROVE KeysLeadToJobs'
  BY <1>7 DEF SaveRecord
<1>8. ASSUME NEW q \in Requests, SaveIdempotentJob(q) PROVE KeysLeadToJobs'
  BY <1>8 DEF SaveIdempotentJob
<1>9. ASSUME NEW q \in Requests, Publish(q) PROVE KeysLeadToJobs'
  BY <1>9 DEF Publish
<1>10. ASSUME NEW q \in Requests, Respond(q) PROVE KeysLeadToJobs'
  BY <1>10 DEF Respond
<1>11. ASSUME NEW q \in Requests, Fail(q) PROVE KeysLeadToJobs'
  BY <1>11 DEF Fail
<1>12. ASSUME NEW q \in Requests, HitDone(q) PROVE KeysLeadToJobs'
  BY <1>12 DEF HitDone
<1>13. ASSUME NEW q \in Requests, NEW b \in Branches, HitBranch(q, b) PROVE KeysLeadToJobs'
  BY <1>13 DEF HitBranch, Due, Earlier, Branches
<1>14. ASSUME NEW q \in Requests, NEW b \in Branches, HitFails(q, b) PROVE KeysLeadToJobs'
  BY <1>14 DEF HitFails, Due, Earlier, Branches
<1>15. ASSUME NEW k \in Keys, KeyExpires(k) PROVE KeysLeadToJobs'
  BY <1>15 DEF KeyExpires
<1>16. CASE UNCHANGED vars
  BY <1>16 DEF vars
<1> QED
  BY <1>1, <1>2, <1>3, <1>4, <1>5, <1>6, <1>7, <1>8, <1>9, <1>10, <1>11, <1>12, <1>13, <1>14, <1>15, <1>16 DEF Next, RequestNext

LEMMA NextIInv == IInv /\ [Next]_vars => IInv'
BY TypeStep, WrittenStep, NamedStep, OverlapsStep, KeptStep, MessageStep, AnswersStep, KeysStep DEF IInv

\* The inductive invariant holds in every reachable state.
THEOREM Inductive == Spec => []IInv
BY InitIInv, NextIInv, PTL DEF Spec

LEMMA KeysGiveOneJob == IInv => OneJobPerKey
BY DEF IInv, TypeOK, KeysLeadToJobs, OneJobPerKey, SameKey

\* No request takes a variable out of its type.
THEOREM TypeCorrect == Spec => []TypeOK
<1>1. IInv => TypeOK
  BY DEF IInv
<1> QED
  BY <1>1, Inductive, PTL

\* jobs.service.ts saves the record before it publishes the message.
THEOREM MessagesHaveRecords == Spec => []MessageHasRecord
<1>1. IInv => MessageHasRecord
  BY DEF IInv
<1> QED
  BY <1>1, Inductive, PTL

\* The job an answer names can be read, whatever failed and whoever created it.
THEOREM AnswersCanBeRead == Spec => []AnswersAreReadable
<1>1. IInv => AnswersAreReadable
  BY DEF IInv
<1> QED
  BY <1>1, Inductive, PTL

\* The job an answer names was sent or completed, or its request goes on or failed.
THEOREM AnswersAreAtWork == Spec => []AnsweredIsAtWork
<1>1. IInv => AnsweredIsAtWork
  BY DEF IInv, TypeOK, JobsAreKept, AnswersAreReadable, AnsweredIsAtWork
<1> QED
  BY <1>1, Inductive, PTL

\* Requests that are made one after the other with one key share one job.
THEOREM KeysAreIdempotent == Spec => []OneJobPerKey
BY KeysGiveOneJob, Inductive, PTL
=============================================================================
