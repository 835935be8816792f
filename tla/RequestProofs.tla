---------------------------- MODULE RequestProofs ----------------------------
(***************************************************************************)
(* One request of the gateway: how often it is sent (GatewayExecution) and *)
(* what an attempt would have cost (PricingCatalog).                       *)
(*                                                                         *)
(* ExecutionSafe holds for any candidates, repairs and limits.  The bounds *)
(* are on what was sent; the loop only keeps attempts and tried, gives an  *)
(* attempt back at a repair and forgets a candidate at every recovery.     *)
(* The invariant ties the two together: what was made is what attempts     *)
(* counts and what the repairs gave back, and a candidate that may be      *)
(* selected again owes every earlier attempt to a recovery.                *)
(***************************************************************************)
EXTENDS GatewayExecution, PricingCatalog, FiniteSetTheorems, TLAPS

\* What the loop guard compares attempts with.
Allowance == RetryLimit(owner_recovery) + One(encrypted) + One(replayed)

\* The candidates whose one attempt without a recovery is gone.
Spent == IF execPc = "Prepare" THEN tried \ {c} ELSE tried

ExecInv ==
    /\ ExecutionTypeOK
    /\ ToolOutputKeepsHistory
    /\ made = attempts + Cardinality(repaired)
    /\ attempts <= Allowance
    /\ execPc = "Prepare" => attempts < Allowance
    /\ execPc \in {"Prepare", "Sent", "Resent"} => c \in tried
    /\ Answered => attempts > 0
    /\ \A x \in ExecCandidates : sent[x] <= Recovered + One(x \in Spent)

-----------------------------------------------------------------------------
\* The recoveries used are counted by a natural number (request.rs:88-97).
LEMMA RepairedCounts ==
    ASSUME ExecutionTypeOK
    PROVE  /\ Cardinality(repaired) \in Nat
           /\ \A k \in Repairs \ repaired :
                 Cardinality(repaired \cup {k}) = Cardinality(repaired) + 1
<1>1. IsFiniteSet(repaired)
  BY ExecutionAssumption, FS_Subset DEF ExecutionTypeOK
<1>2. QED
  BY <1>1, FS_CardinalityType, FS_AddElement

\* The loop's allowance and the recoveries used are natural numbers, and finding
\* the owner gone never lowers a limit (request.rs:100-106).
LEMMA CountsAreNatural ==
    ASSUME ExecutionTypeOK
    PROVE  /\ Allowance \in Nat /\ Recovered \in Nat
           /\ Allowance = RetryLimit(owner_recovery) + One(encrypted) + One(replayed)
           /\ Recovered = One(encrypted) + One(replayed) + Cardinality(repaired)
           /\ One(encrypted) \in {0, 1} /\ One(replayed) \in {0, 1}
           /\ RetryLimit(owner_recovery) \in Nat \ {0}
           /\ RetryLimit(owner_recovery) <= OwnerLimit
<1>1. One(encrypted) \in {0, 1} /\ One(replayed) \in {0, 1}
  BY DEF One
<1>2. RetryLimit(owner_recovery) \in Nat \ {0} /\ RetryLimit(owner_recovery) <= OwnerLimit
  BY ExecutionAssumption DEF RetryLimit
<1>3. Cardinality(repaired) \in Nat
  BY RepairedCounts
<1>4. QED
  BY <1>1, <1>2, <1>3 DEF Allowance, Recovered

\* The invariant says what ExecutionSafe promises (request.rs:84-998).
LEMMA ExecInvIsSafe == ExecInv => ExecutionSafe
<1> SUFFICES ASSUME ExecInv PROVE ExecutionSafe
  OBVIOUS
<1> USE DEF ExecInv
<1>1. Cardinality(repaired) \in Nat
  BY RepairedCounts
<1>2. attempts \in Nat /\ sent \in [ExecCandidates -> Nat]
  BY DEF ExecutionTypeOK
<1>3. AttemptsBounded
  BY <1>1, <1>2, CountsAreNatural DEF AttemptsBounded
<1>4. NoBlindRetry
  <2> SUFFICES ASSUME NEW x \in ExecCandidates PROVE sent[x] <= 1 + Recovered
    BY DEF NoBlindRetry
  <2>1. One(x \in Spent) <= 1 /\ One(x \in Spent) \in Nat
    BY DEF One
  <2>2. Recovered \in Nat
    BY CountsAreNatural
  <2> QED BY <1>2, <2>1, <2>2
<1>5. QED
  BY <1>3, <1>4 DEF ExecutionSafe

\* A request starts with nothing tried (request.rs:84-128).
LEMMA ExecInitInv == ExecInit => ExecInv
<1> SUFFICES ASSUME ExecInit PROVE ExecInv
  OBVIOUS
<1>1. Cardinality(repaired) = 0
  BY FS_EmptySet DEF ExecInit
<1>2. ExecutionTypeOK
  BY Zenon DEF ExecInit, ExecutionTypeOK, Request, Nobody
<1>3. Allowance > 0 /\ Recovered = 0
  BY <1>1, <1>2, CountsAreNatural DEF ExecInit, One
<1>4. \A x \in ExecCandidates : sent[x] <= Recovered + One(x \in Spent)
  BY <1>3 DEF ExecInit, Spent, One
<1>5. ToolOutputKeepsHistory
  BY DEF ExecInit, ToolOutputKeepsHistory
<1>6. Allowance \in Nat
  BY <1>2, CountsAreNatural
<1>7. QED
  BY <1>1, <1>2, <1>3, <1>4, <1>5, <1>6 DEF ExecInv, ExecInit, Answered

-----------------------------------------------------------------------------
\* Whatever becomes of an attempt that is not repaired, the loop goes on or the
\* client has its answer (request.rs:343-420, 545-968).
LEMMA SettlesEither == Settles => TriesNext \/ Ends
BY DEF Settles, TransportFails, ErrorBodyLost, Respond, BodyLost, FailedAnswer,
       CompleteResponse, StartStream, StreamFails

\* Every step keeps the state well formed (request.rs:84-998).
LEMMA ExecTypeStep ==
    ASSUME ExecInv, [ExecNext]_execVars
    PROVE  ExecutionTypeOK'
<1> USE ExecutionAssumption DEF ExecutionTypeOK, Request, flags, recoveries, tally
<1> SUFFICES ASSUME ExecNext PROVE ExecutionTypeOK'
  BY DEF ExecInv, execVars
<1>1. CASE Select
  BY <1>1 DEF ExecInv, Select, Tries
<1>2. CASE NoCandidate
  BY <1>2 DEF ExecInv, NoCandidate
<1>3. CASE RouteIncompatible
  BY <1>3 DEF ExecInv, RouteIncompatible
<1>4. CASE RequestInvalid
  BY <1>4 DEF ExecInv, RequestInvalid
<1>5. CASE Send
  BY <1>5 DEF ExecInv, Send
<1>6. CASE Resend
  BY <1>6 DEF ExecInv, Resend
<1>7. CASE Unbind
  BY <1>7 DEF ExecInv, Unbind
<1>8. ASSUME NEW k \in Repairs, Repair(k) PROVE ExecutionTypeOK'
  <2>1. attempts' \in Nat
    BY <1>8 DEF ExecInv, Repair, Refund, Answered
  <2>2. req' \in Request
    BY <1>8 DEF ExecInv, Repair
  <2> QED
    BY <1>8, <2>1, <2>2 DEF ExecInv, Repair
<1>9. CASE Replay
  <2>1. req' \in Request
    BY <1>9, ZenonT(40) DEF ExecInv, Replay
  <2> QED
    BY <1>9, <2>1 DEF ExecInv, Replay
<1>10. CASE StripEncrypted
  <2>1. req' \in Request
    BY <1>10, Zenon DEF ExecInv, StripEncrypted
  <2>2. tried' \subseteq ExecCandidates /\ encrypted' \in BOOLEAN
    BY <1>10 DEF ExecInv, StripEncrypted
  <2>3. ({has_prev, hit, owner_recovery, missing, encrypted, replayed, restarted} \subseteq BOOLEAN)'
    BY <1>10, <2>2 DEF ExecInv, StripEncrypted
  <2> QED
    BY <1>10, <2>1, <2>2, <2>3 DEF ExecInv, StripEncrypted
<1>11. CASE AffinityMiss
  BY <1>11 DEF ExecInv, AffinityMiss
<1>12. CASE RetryableStatus
  BY <1>12 DEF ExecInv, RetryableStatus
<1>13. CASE TriesNext
  BY <1>13 DEF ExecInv, TriesNext
<1>14. CASE Ends
  BY <1>14 DEF ExecInv, Ends
<1>15. CASE Finish
  <2>1. req' \in Request
    BY <1>15 DEF ExecInv, Finish
  <2>2. CASE MayRestart
    <3>1. ({has_prev, owner_recovery, missing, encrypted, replayed, restarted} \subseteq BOOLEAN)'
      BY <1>15, <2>2, Zenon DEF Finish
    <3>2. (/\ owner \in ExecCandidates \cup {Nobody} /\ tried \subseteq ExecCandidates
           /\ attempts \in Nat /\ repaired \subseteq Repairs
           /\ sent \in [ExecCandidates -> Nat] /\ made \in Nat)'
      BY <1>15, <2>2 DEF Finish
    <3>3. c' = c /\ hit' = hit /\ execPc' = "Select"
      BY <1>15, <2>2 DEF Finish
    <3> QED BY <2>1, <3>1, <3>2, <3>3 DEF ExecInv
  <2>3. CASE ~MayRestart
    BY <1>15, <2>3 DEF ExecInv, Finish
  <2> QED BY <2>2, <2>3
<1>16. QED
  BY <1>1, <1>2, <1>3, <1>4, <1>5, <1>6, <1>7, <1>8, <1>9, <1>10, <1>11, <1>12, <1>13,
     <1>14, <1>15, SettlesEither DEF ExecNext

-----------------------------------------------------------------------------
\* A step that sends nothing and recovers nothing keeps the counts; it must not
\* make a candidate that was asked selectable again.
LEMMA QuietStep ==
    ASSUME ExecInv, ExecutionTypeOK', ToolOutputKeepsHistory',
           attempts' = attempts, made' = made, sent' = sent, encrypted' = encrypted,
           replayed' = replayed, repaired' = repaired,
           owner_recovery' = owner_recovery \/ owner_recovery' = TRUE,
           Spent \subseteq Spent',
           execPc' = "Prepare" => LoopGuard,
           execPc' \in {"Prepare", "Sent", "Resent"} => c' \in tried',
           Answered' => Answered
    PROVE  ExecInv'
<1>1. Recovered' = Recovered /\ Recovered \in Nat
  BY CountsAreNatural DEF ExecInv, Recovered
<1>2. Allowance <= Allowance' /\ Allowance \in Nat /\ Allowance' \in Nat
  <2>1. RetryLimit(owner_recovery) <= RetryLimit(owner_recovery')
    BY ExecutionAssumption DEF RetryLimit
  <2>2. RetryLimit(owner_recovery) \in Nat /\ RetryLimit(owner_recovery') \in Nat
    BY ExecutionAssumption DEF RetryLimit
  <2>3. One(encrypted) \in {0, 1} /\ One(replayed) \in {0, 1}
    BY DEF One
  <2> QED BY <2>1, <2>2, <2>3 DEF Allowance
<1>3. (\A x \in ExecCandidates : sent[x] <= Recovered + One(x \in Spent))'
  <2> SUFFICES ASSUME NEW x \in ExecCandidates PROVE sent[x] <= Recovered + One(x \in Spent')
    BY <1>1
  <2>1. sent[x] <= Recovered + One(x \in Spent) /\ sent[x] \in Nat
    BY DEF ExecInv, ExecutionTypeOK
  <2>2. One(x \in Spent) <= One(x \in Spent') /\ One(x \in Spent) \in Nat /\ One(x \in Spent') \in Nat
    BY DEF One
  <2> QED BY <1>1, <2>1, <2>2
<1>4. attempts \in Nat
  BY DEF ExecInv, ExecutionTypeOK
<1>5. (attempts <= Allowance)' /\ (execPc = "Prepare" => attempts < Allowance)'
  BY <1>2, <1>4 DEF ExecInv, LoopGuard, Allowance
<1>6. QED
  BY <1>3, <1>5 DEF ExecInv

\* Selecting, giving up, an incompatible route and every answer that ends or
\* continues the loop without a recovery (request.rs:134-182, 343-373, 501-968).
LEMMA QuietActions ==
    ASSUME ExecInv, ExecutionTypeOK',
           \/ Select \/ NoCandidate \/ RouteIncompatible \/ RequestInvalid \/ Resend \/ Unbind
           \/ AffinityMiss \/ RetryableStatus \/ Settles
           \/ (Finish /\ ~MayRestart)
    PROVE  ExecInv'
<1> USE DEF ExecInv, ToolOutputKeepsHistory, Spent, Answered, flags, recoveries, tally
<1>1. CASE Select
  BY <1>1, QuietStep DEF Select, Tries
<1>2. CASE NoCandidate
  BY <1>2, QuietStep DEF NoCandidate
<1>3. CASE RouteIncompatible
  BY <1>3, QuietStep DEF RouteIncompatible
<1>4. CASE RequestInvalid
  BY <1>4, QuietStep DEF RequestInvalid
<1>5. CASE Resend
  BY <1>5, QuietStep DEF Resend
<1>6. CASE Unbind
  <2>1. execPc' = "Prepare" => LoopGuard
    BY <1>6 DEF Unbind, LoopGuard, Allowance
  <2> QED
    BY <1>6, <2>1, QuietStep DEF Unbind
<1>7. CASE AffinityMiss
  <2>1. owner_recovery' = owner_recovery \/ owner_recovery' = TRUE
    <3>1. owner_recovery \in BOOLEAN /\ hit \in BOOLEAN
      BY DEF ExecutionTypeOK
    <3> QED BY <1>7, <3>1, Zenon DEF AffinityMiss
  <2> QED
    BY <1>7, <2>1, QuietStep, Zenon DEF AffinityMiss
<1>8. CASE RetryableStatus
  BY <1>8, QuietStep DEF RetryableStatus
<1>9. CASE TriesNext
  BY <1>9, QuietStep DEF TriesNext
<1>10. CASE Ends
  BY <1>10, QuietStep DEF Ends
<1>11. CASE Finish /\ ~MayRestart
  BY <1>11, QuietStep DEF Finish
<1>12. QED
  BY <1>1, <1>2, <1>3, <1>4, <1>5, <1>6, <1>7, <1>8, <1>9, <1>10, <1>11, SettlesEither

\* An attempt is counted, and uses what its candidate had left (request.rs:284-342).
LEMMA SendStep ==
    ASSUME ExecInv, ExecutionTypeOK', Send
    PROVE  ExecInv'
<1> USE DEF ExecInv, ExecutionTypeOK, flags, recoveries, tally
<1>1. Recovered' = Recovered /\ Allowance' = Allowance
  BY DEF Send, Recovered, Allowance
<1>2. Recovered \in Nat /\ Allowance \in Nat /\ Cardinality(repaired) \in Nat
  BY CountsAreNatural, RepairedCounts
<1>3. ASSUME NEW x \in ExecCandidates PROVE sent'[x] <= Recovered + One(x \in Spent')
  <2>1. sent[x] <= Recovered + One(x \in Spent) /\ sent[x] \in Nat
    OBVIOUS
  <2>2. CASE x = c
    BY <1>2, <2>1, <2>2 DEF Send, Spent, One
  <2>3. CASE x # c
    BY <1>2, <2>1, <2>3 DEF Send, Spent, One
  <2> QED BY <2>2, <2>3
<1>4. (made = attempts + Cardinality(repaired))' /\ attempts' <= Allowance /\ attempts' > 0
  BY <1>2 DEF Send
<1>5. execPc' = "Sent" /\ c' = c /\ tried' = tried /\ c \in tried /\ req' = req
  BY DEF Send
<1>6. QED
  BY <1>1, <1>3, <1>4, <1>5 DEF ToolOutputKeepsHistory, Answered

\* A recovery pays for the attempt it allows on the candidate it forgets
\* (request.rs:421-500).
LEMMA RecoveryStep ==
    ASSUME ExecInv, ExecutionTypeOK', ToolOutputKeepsHistory',
           Answered, execPc' = "Select", tried' = tried \ {c}, c' = c,
           owner_recovery' = owner_recovery, UNCHANGED tally,
           Recovered' = Recovered + 1,
           \/ attempts' = attempts /\ repaired' = repaired /\ Allowance' = Allowance + 1
           \/ /\ attempts' = attempts - 1 /\ Allowance' = Allowance
              /\ Cardinality(repaired') = Cardinality(repaired) + 1
    PROVE  ExecInv'
<1> USE DEF ExecInv, ExecutionTypeOK, tally
<1>1. Recovered \in Nat /\ Allowance \in Nat /\ Cardinality(repaired) \in Nat
  BY CountsAreNatural, RepairedCounts
<1>2. ASSUME NEW x \in ExecCandidates PROVE sent'[x] <= Recovered' + One(x \in Spent')
  <2>1. sent[x] <= Recovered + One(x \in Spent) /\ sent[x] \in Nat
    OBVIOUS
  <2> QED BY <1>1, <2>1 DEF Spent, One
<1>3. (made = attempts + Cardinality(repaired))' /\ attempts' <= Allowance'
  BY <1>1
<1>4. QED
  BY <1>2, <1>3 DEF Answered

\* Repairing an item id, replaying the stored turns and dropping encrypted
\* reasoning are each such a recovery (request.rs:421-500).
LEMMA Recoveries ==
    ASSUME ExecInv, ExecutionTypeOK',
           (\E k \in Repairs : Repair(k)) \/ Replay \/ StripEncrypted
    PROVE  ExecInv'
<1> USE DEF ExecInv, ExecutionTypeOK, ToolOutputKeepsHistory, flags, recoveries, tally
<1>1. Recovered \in Nat /\ Allowance \in Nat /\ Cardinality(repaired) \in Nat
  BY CountsAreNatural, RepairedCounts
<1>2. ASSUME NEW k \in Repairs, Repair(k) PROVE ExecInv'
  <2>1. Cardinality(repaired') = Cardinality(repaired) + 1
    BY <1>2, RepairedCounts DEF Repair, MayRepair
  <2>2. Recovered' = Recovered + 1 /\ Allowance' = Allowance
    <3>1. One(encrypted) \in {0, 1} /\ One(replayed) \in {0, 1}
      BY DEF One
    <3> QED BY <1>1, <1>2, <2>1, <3>1 DEF Repair, Recovered, Allowance
  <2>3. ToolOutputKeepsHistory'
    BY <1>2, SMTT(30) DEF Repair, Request
  <2> QED
    BY <1>2, <2>1, <2>2, <2>3, RecoveryStep DEF Repair, Refund
<1>3. CASE Replay
  <2>1. Recovered' = Recovered + 1 /\ Allowance' = Allowance + 1
    <3>1. One(replayed) = 0 /\ One(replayed') = 1 /\ One(encrypted) \in {0, 1}
      BY <1>3, Zenon DEF Replay, MayReplay, One
    <3>2. RetryLimit(owner_recovery) \in Nat
      BY CountsAreNatural, SMTT(30)
    <3>3. One(encrypted') = One(encrypted) /\ RetryLimit(owner_recovery') = RetryLimit(owner_recovery)
          /\ Cardinality(repaired') = Cardinality(repaired)
      BY <1>3, Zenon DEF Replay
    <3>4. Recovered' = Recovered + 1
      BY <1>1, <3>1, <3>3 DEF Recovered
    <3>5. Allowance' = Allowance + 1
      BY <3>1, <3>2, <3>3, SMTT(30) DEF Allowance
    <3> QED BY <3>4, <3>5, SMTT(30)
  <2>2. ToolOutputKeepsHistory'
    BY <1>3, Zenon DEF Replay, Request
  <2> QED
    BY <1>3, <2>1, <2>2, RecoveryStep, Zenon DEF Replay
<1>4. CASE StripEncrypted
  <2>1. Recovered' = Recovered + 1 /\ Allowance' = Allowance + 1
    <3>1. One(encrypted) = 0 /\ One(encrypted') = 1 /\ One(replayed) \in {0, 1}
      BY <1>4 DEF StripEncrypted, One
    <3>2. RetryLimit(owner_recovery) \in Nat
      BY CountsAreNatural
    <3>3. One(replayed') = One(replayed) /\ RetryLimit(owner_recovery') = RetryLimit(owner_recovery)
          /\ Cardinality(repaired') = Cardinality(repaired)
      BY <1>4 DEF StripEncrypted
    <3>4. Recovered' = Recovered + 1
      BY <1>1, <3>1, <3>3 DEF Recovered
    <3>5. Allowance' = Allowance + 1
      BY <3>1, <3>2, <3>3 DEF Allowance
    <3> QED BY <3>4, <3>5
  <2>2. ToolOutputKeepsHistory'
    BY <1>4 DEF StripEncrypted, Request
  <2> QED
    BY <1>4, <2>1, <2>2, RecoveryStep DEF StripEncrypted
<1>5. QED
  BY <1>2, <1>3, <1>4

\* The one restart begins like a request, and only without tool outputs
\* (request.rs:971-998).
LEMMA RestartStep ==
    ASSUME ExecInv, ExecutionTypeOK', Finish, MayRestart
    PROVE  ExecInv'
<1>1. Cardinality(repaired') = 0 /\ attempts' = 0 /\ made' = 0
  BY FS_EmptySet DEF Finish
<1>2. Recovered' = 0
  BY <1>1 DEF Finish, Recovered, One
<1>3. Allowance' > 0 /\ Allowance' \in Nat
  BY ExecutionAssumption DEF Finish, Allowance, RetryLimit, One
<1>4. (\A x \in ExecCandidates : sent[x] <= Recovered + One(x \in Spent))'
  BY <1>2 DEF Finish, Spent, One
<1>5. ToolOutputKeepsHistory'
  BY DEF ExecInv, ExecutionTypeOK, Request, Finish, MayRestart, ToolOutputKeepsHistory
<1>6. execPc' = "Select"
  BY DEF Finish
<1>7. QED
  BY <1>1, <1>3, <1>4, <1>5, <1>6 DEF ExecInv, Answered

-----------------------------------------------------------------------------
\* No interleaving of answers, repairs, replays, expiring bindings and the
\* restart makes the loop of execute_request ask more often than its limits and
\* recoveries allow, ask a candidate the same thing twice, or send tool outputs
\* without their calls, for any pool and any limits (request.rs:84-998).
THEOREM SpecExecutionSafe == ExecSpec => []ExecutionSafe
<1>1. ExecInv /\ [ExecNext]_execVars => ExecInv'
  <2> SUFFICES ASSUME ExecInv, [ExecNext]_execVars PROVE ExecInv'
    OBVIOUS
  <2>1. ExecutionTypeOK'
    BY ExecTypeStep
  <2>2. CASE UNCHANGED execVars
    BY <2>2 DEF execVars, ExecInv, ExecutionTypeOK, ToolOutputKeepsHistory, Allowance, Answered,
                Spent, Recovered
  <2>3. CASE ExecNext
    BY <2>1, <2>3, QuietActions, SendStep, Recoveries, RestartStep DEF ExecNext
  <2> QED BY <2>2, <2>3
<1>2. QED
  BY <1>1, ExecInitInv, ExecInvIsSafe, PTL DEF ExecSpec

-----------------------------------------------------------------------------
(* The estimate, for every size of the counters and every usage a request  *)
(* can report.                                                             *)

\* The parts of the input: none is negative, and with a reported input they never exceed it.
LEMMA PartsFit ==
  ASSUME NEW u \in TokenUsage
  PROVE  /\ CacheRead(u) \in Nat /\ CacheWrite5m(u) \in Nat
         /\ CacheWrite1h(u) \in Nat /\ CacheUnknown(u) \in Nat
         /\ u.input # Absent => CacheTokens(u) <= u.input
<1> DEFINE r == CacheRead(u)  w5 == CacheWrite5m(u)  w1 == CacheWrite1h(u)  k == CacheUnknown(u)
<1>0. /\ u.input \in U64 \cup {-1} /\ u.read \in U64 \cup {-1} /\ u.write5m \in U64 \cup {-1}
      /\ u.write1h \in U64 \cup {-1} /\ u.unknown \in U64 \cup {-1}
      /\ EqMax \in Nat
  BY EqAssumption DEF TokenUsage, Optional, Absent
<1>1. r \in Nat /\ (u.input # -1 => r <= u.input)
  BY <1>0 DEF CacheRead, AtMost, OrZero, Absent, U64
<1>2. w5 \in Nat /\ (u.input # -1 => r + w5 <= u.input)
  BY <1>0, <1>1 DEF CacheWrite5m, AtMost, OrZero, Absent, U64
<1>3. w1 \in Nat /\ (u.input # -1 => r + w5 + w1 <= u.input)
  BY <1>0, <1>1, <1>2 DEF CacheWrite1h, AtMost, OrZero, Absent, U64
<1>4. k \in Nat /\ (u.input # -1 => r + w5 + w1 + k <= u.input)
  BY <1>0, <1>1, <1>2, <1>3 DEF CacheUnknown, AtMost, OrZero, Absent, U64
<1> QED
  BY <1>1, <1>2, <1>3, <1>4 DEF CacheTokens, Absent

\* The tokens that are priced are tokens that were measured.
LEMMA PricedWithinMeasured ==
  ASSUME NEW u \in TokenUsage, NEW q \in TokenPrice
  PROVE  /\ PricedTokens(u, q) \in Nat /\ MeasuredTokens(u) \in Nat
         /\ PricedTokens(u, q) <= MeasuredTokens(u)
         /\ MeasuredTokens(u) < EqMax => PricedTokens(u, q) + CacheUnknown(u) <= MeasuredTokens(u)
<1> DEFINE r == CacheRead(u)  w5 == CacheWrite5m(u)  w1 == CacheWrite1h(u)  k == CacheUnknown(u)
           plain == PricedPart(Uncached(u), q.input)
           pr == PricedPart(r, q.read)  p5 == PricedPart(w5, q.write5m)
           p1 == PricedPart(w1, q.write1h)  po == PricedPart(u.output, q.output)
           sum == plain + pr + p5 + p1 + po
           in == IF u.input = Absent THEN Saturated(CacheTokens(u)) ELSE u.input
<1>0. /\ u.input \in U64 \cup {-1} /\ u.output \in U64 \cup {-1} /\ EqMax \in Nat
      /\ q.input \in U64 /\ q.output \in U64
  BY EqAssumption DEF TokenUsage, TokenPrice, Optional, Absent
<1>1. r \in Nat /\ w5 \in Nat /\ w1 \in Nat /\ k \in Nat
      /\ (u.input # -1 => r + w5 + w1 + k <= u.input)
  BY PartsFit DEF CacheTokens, Absent
<1>2. /\ pr \in Nat /\ pr <= r
      /\ p5 \in Nat /\ p5 <= w5
      /\ p1 \in Nat /\ p1 <= w1
  BY <1>1 DEF PricedPart, Absent
<1>3. po = OrZero(u.output) /\ po \in Nat
  BY <1>0 DEF PricedPart, OrZero, Absent, U64
<1>4. /\ u.input = -1 => plain = 0
      /\ u.input # -1 => plain = u.input - (r + w5 + w1 + k)
  BY <1>0, <1>1 DEF PricedPart, Uncached, CacheTokens, Absent, U64
<1>5. plain \in Nat
  BY <1>0, <1>1, <1>4 DEF U64
<1>6. in \in Nat /\ (u.input # -1 => in = u.input)
      /\ (u.input = -1 => in = Saturated(r + w5 + w1 + k))
  BY <1>0, <1>1 DEF Saturated, CacheTokens, Absent, U64
<1>7. MeasuredTokens(u) = Saturated(in + po)
  BY <1>3 DEF MeasuredTokens
<1>8. PricedTokens(u, q) = Saturated(sum)
  BY DEF PricedTokens
<1>9. sum \in Nat
  BY <1>2, <1>3, <1>5
<1>10. CASE u.input = -1
  <2>1. sum <= r + w5 + w1 + k + po /\ sum + k <= r + w5 + w1 + k + po
    <3> HIDE DEF r, w5, w1, k, plain, pr, p5, p1, po
    <3> QED BY <1>1, <1>2, <1>3, <1>4, <1>10
  <2>2. in = Saturated(r + w5 + w1 + k)
    BY <1>6, <1>10
  <2> QED
    <3> DEFINE cached == r + w5 + w1 + k
               priced == PricedTokens(u, q)
               measured == MeasuredTokens(u)
    <3>1. /\ in = IF cached > EqMax THEN EqMax ELSE cached
          /\ priced = IF sum > EqMax THEN EqMax ELSE sum
          /\ measured = IF in + po > EqMax THEN EqMax ELSE in + po
      BY <1>7, <1>8, <2>2 DEF Saturated
    <3>2. cached \in Nat /\ po \in Nat /\ sum \in Nat /\ k \in Nat /\ EqMax \in Nat
          /\ sum <= cached + po /\ sum + k <= cached + po
      BY <1>0, <1>1, <1>3, <1>9, <2>1
    <3> HIDE DEF cached, priced, measured, po, sum, in, k
    <3>3. /\ priced \in Nat /\ measured \in Nat /\ priced <= measured
          /\ measured < EqMax => priced + k <= measured
      BY <3>1, <3>2
    <3> QED
      BY <3>3 DEF priced, measured, k
<1>11. CASE u.input # -1
  <2>1. sum <= in + po /\ sum + k <= in + po
    <3> HIDE DEF r, w5, w1, k, plain, pr, p5, p1, po, in
    <3> QED BY <1>0, <1>1, <1>2, <1>3, <1>4, <1>6, <1>11 DEF U64
  <2> QED
    <3> DEFINE priced == PricedTokens(u, q)
               measured == MeasuredTokens(u)
    <3>1. /\ priced = IF sum > EqMax THEN EqMax ELSE sum
          /\ measured = IF in + po > EqMax THEN EqMax ELSE in + po
      BY <1>7, <1>8 DEF Saturated
    <3>2. in \in Nat /\ po \in Nat /\ sum \in Nat /\ k \in Nat /\ EqMax \in Nat
      BY <1>0, <1>1, <1>3, <1>6, <1>9
    <3> HIDE DEF priced, measured, po, sum, in, k
    <3>3. /\ priced \in Nat /\ measured \in Nat /\ priced <= measured
          /\ measured < EqMax => priced + k <= measured
      BY <2>1, <3>1, <3>2
    <3> QED
      BY <3>3 DEF priced, measured, k
<1> QED
  BY <1>10, <1>11

\* Priced and unpriced tokens add up to the total of the request, for every usage and every quote
\* (estimate_api_equivalent_with_token_price).
THEOREM EstimateAddsUp ==
  ASSUME NEW u \in TokenUsage, NEW q \in TokenPrice
  PROVE  AddsUp(u, q)
<1>1. /\ PricedTokens(u, q) \in Nat /\ MeasuredTokens(u) \in Nat
      /\ PricedTokens(u, q) <= MeasuredTokens(u)
      /\ MeasuredTokens(u) < EqMax => PricedTokens(u, q) + CacheUnknown(u) <= MeasuredTokens(u)
      /\ CacheUnknown(u) \in Nat
  BY PricedWithinMeasured, PartsFit
<1>2. u.total \in U64 \cup {-1} /\ EqMax \in Nat
  BY EqAssumption DEF TokenUsage, Optional, Absent
<1>3. TotalTokens(u) \in Nat /\ MeasuredTokens(u) <= TotalTokens(u)
  BY <1>1, <1>2 DEF TotalTokens, Absent, U64
<1>4. EstimateWith(u, q).unpriced = TotalTokens(u) - PricedTokens(u, q)
  BY DEF EstimateWith
<1> QED
  BY <1>1, <1>2, <1>3, <1>4 DEF AddsUp
===============================================================================
