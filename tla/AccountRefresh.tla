--------------------------- MODULE AccountRefresh ---------------------------
(***************************************************************************)
(* The desktop application keeps what it knows of one ChatGPT account up to *)
(* date (accounts/quota_refresh.rs, background.rs, usage_writer.rs): the    *)
(* background worker, a manual command, the verification of a wake-up and   *)
(* the model discovery ask the provider, one at a time per account, and     *)
(* write what they learnt over a record that proxied requests, sign-ins and  *)
(* the operator change meanwhile.  Whoever ends a refresh also decides when  *)
(* the account is refreshed next; an account that needs a fresh login is     *)
(* taken off the schedule.                                                  *)
(*                                                                         *)
(* The schedule is that of QuotaSchedule for one account.  A login is a      *)
(* generation of credentials; the provider may revoke it, and its access     *)
(* token may go stale while the refresh token still works.                  *)
(***************************************************************************)
EXTENDS QuotaReading

CONSTANTS
    RfRefreshers,   \* those who refresh: a subset of {"worker", "manual", "wake", "models"}
    RfAnswers,      \* the provider's usage payloads, as ParsedUsage takes them
    RfProbes,       \* the answers of the subscription probe, or {} for none: {} or {[plan, until]}
    RfModels,       \* the outcomes of a model discovery: "ok" and error codes
    RfSubs,         \* the subscriptions an account may start with
    RfKinds,        \* the kinds of login: "refresh" and "access"
    RfInterval,     \* SUBSCRIPTION_REFRESH_INTERVAL_MS
    RfMaxOps,       \* bound: refreshes, requests, sign-ins and changes of the account together
    RfMaxNow,       \* bound: the last instant
    RfMaxFaults     \* bound: failures that are not the provider's verdict

VARIABLES
    rfAcct,      \* the stored account: enabled, and what QuotaReading writes
    rfLogin,     \* the stored credential: [gen, kind, access]
    rfRevoked,   \* the generations the provider no longer accepts
    rfEntry,     \* the account in the refresh queue: "none", "pending", "flight", "dirty"
    rfLock,      \* who holds the account's quota lock
    rfJob,       \* what each refresher is doing
    rfOpen,      \* whether a proxied request of the account is under way
    rfNow, rfOps, rfFaults,
    rfLapsed     \* history: the account became eligible again and nobody was told

rfVars == <<rfAcct, rfLogin, rfRevoked, rfEntry, rfLock, rfJob, rfOpen, rfNow, rfOps, rfFaults, rfLapsed>>

-----------------------------------------------------------------------------
EmptyQuota == [weekly |-> {}, limited |-> FALSE, at |-> {}, error |-> {}]

RfNobody == "nobody"
RfIdle == [pc |-> "idle", permit |-> FALSE, before |-> {}, sub |-> {}, gen |-> 0, at |-> 0,
           probed |-> FALSE, quota |-> {}, models |-> "none",
           failed |-> FALSE, reauth |-> FALSE]

RfEligible == MonitoringEligible(rfAcct.enabled, rfAcct.auth)

\* The access token of this generation is accepted.
RfAccepted(gen) == gen \notin rfRevoked /\ (gen = rfLogin.gen => rfLogin.access = "good")

\* The stored login can still get an access token.
RfRenewable == rfLogin.kind = "refresh" /\ rfLogin.gen \notin rfRevoked

\* The queue, for one account.
RfMarked(entry) ==
  CASE entry = "none"   -> "pending"
    [] entry = "flight" -> "dirty"
    [] OTHER            -> entry

RfSynced(entry) == IF RfEligible THEN RfMarked(entry) ELSE "none"

\* Taking the entry off the queue makes the worker's permit stale.
RfUnpermitted(jobs, entry) ==
  IF entry # "none" THEN jobs ELSE [k \in DOMAIN jobs |-> [jobs[k] EXCEPT !.permit = FALSE]]

RfSet(k, job) == [rfJob EXCEPT ![k] = job]

RfBudget == rfOps < RfMaxOps /\ rfOps' = rfOps + 1

-----------------------------------------------------------------------------
(* A refresh.                                                              *)

RfClaim(k) ==
  /\ RfBudget
  /\ rfJob[k].pc = "idle"
  /\ IF k = "worker" THEN rfEntry = "pending" /\ rfEntry' = "flight" ELSE UNCHANGED rfEntry
  /\ rfJob' = RfSet(k, [RfIdle EXCEPT !.pc = "wait", !.permit = (k = "worker")])
  /\ UNCHANGED <<rfAcct, rfLogin, rfRevoked, rfLock, rfOpen, rfNow, rfFaults, rfLapsed>>

\* The dedicated probe runs when the subscription is due for one; a command
\* of the operator forces it.
RfProbeRuns(k) == k = "manual" \/ SubscriptionDue(rfAcct.sub, rfNow, RfInterval)

RfProbed(sub, probe) ==
  IF probe = {} THEN sub
  ELSE LET found == MergedMetadata(sub, CHOOSE p \in probe : TRUE, rfNow)
       IN  NormalizedSubscription([plan |-> found.plan, until |-> found.until, at |-> rfNow])

\* prepare_account_request_authorization: a stale access token is renewed.
RfPrepare(k) ==
  /\ rfJob[k].pc = "wait" /\ rfLock = RfNobody
  /\ RfAccepted(rfLogin.gen) \/ RfRenewable \/ rfLogin.access = "good"
  /\ rfLogin' = IF RfRenewable THEN [rfLogin EXCEPT !.access = "good"] ELSE rfLogin
  /\ rfLock' = k
  /\ \E probe \in IF k # "models" /\ RfProbeRuns(k) THEN RfProbes ELSE {{}} :
       rfJob' = RfSet(k, [rfJob[k] EXCEPT !.pc = "ask", !.before = {rfAcct}, !.gen = rfLogin.gen,
                                          !.at = rfNow, !.sub = {RfProbed(rfAcct.sub, probe)},
                                          !.probed = probe # {}])
  /\ UNCHANGED <<rfAcct, rfRevoked, rfEntry, rfOpen, rfNow, rfOps, rfFaults, rfLapsed>>

\* The token refresh is refused for good, and the verdict is in the record
\* before the preparation fails; or something local is out of order.
RfPrepareFails(k) ==
  /\ rfJob[k].pc = "wait" /\ rfLock = RfNobody
  /\ \/ /\ rfLogin.access = "stale" /\ ~RfRenewable
        /\ rfAcct' = [rfAcct EXCEPT !.auth = "reauth"]
        /\ UNCHANGED rfFaults
     \/ /\ rfFaults < RfMaxFaults
        /\ rfFaults' = rfFaults + 1
        /\ UNCHANGED rfAcct
  /\ rfJob' = RfSet(k, [rfJob[k] EXCEPT !.pc = "failed"])
  /\ UNCHANGED <<rfLogin, rfRevoked, rfEntry, rfLock, rfOpen, rfNow, rfOps, rfLapsed>>

\* What an accepted quota request ends with.
RfOutcomes ==
  {[ok |-> TRUE, answer |-> a] : a \in RfAnswers}
    \cup {[ok |-> FALSE, code |-> "quota_transport", denied |-> FALSE]}

\* request_account_metadata: quota and models side by side.
RfAsk(k) ==
  /\ rfJob[k].pc = "ask"
  /\ LET job == rfJob[k]
         models == IF k = "wake" THEN {"none"} ELSE RfModels
     IN  IF RfAccepted(job.gen)
         THEN \E q \in IF k = "models" THEN {{}} ELSE {{o} : o \in RfOutcomes},
                  m \in models :
                rfJob' = RfSet(k, [job EXCEPT !.pc = "write", !.quota = q, !.models = m])
         ELSE rfJob' = RfSet(k, [job EXCEPT !.pc = "denied",
                                   !.quota = IF k = "models" THEN {}
                                             ELSE {[ok |-> FALSE, code |-> "quota_unauthorized", denied |-> TRUE]},
                                   !.models = IF k = "wake" THEN "none" ELSE "models_unauthorized"])
  /\ UNCHANGED <<rfAcct, rfLogin, rfRevoked, rfEntry, rfLock, rfOpen, rfNow, rfOps, rfFaults, rfLapsed>>

\* A 401: the access token is given up and the stored login is asked for
\* another.  A login that cannot be renewed needs the operator.
RfRecover(k) ==
  /\ rfJob[k].pc = "denied"
  /\ \/ /\ RfRenewable
        /\ rfLogin' = [rfLogin EXCEPT !.access = "good"]
        /\ rfJob' = RfSet(k, [rfJob[k] EXCEPT !.pc = "ask", !.gen = rfLogin.gen])
        /\ UNCHANGED <<rfAcct, rfFaults>>
     \/ /\ ~RfRenewable
        /\ rfLogin' = [rfLogin EXCEPT !.access = "stale"]
        /\ rfAcct' = [rfAcct EXCEPT !.auth = "reauth"]
        /\ rfJob' = RfSet(k, [rfJob[k] EXCEPT !.pc = "write"])
        /\ UNCHANGED rfFaults
     \/ /\ rfLogin.kind = "refresh" /\ rfFaults < RfMaxFaults
        /\ rfFaults' = rfFaults + 1
        /\ rfLogin' = [rfLogin EXCEPT !.access = "stale"]
        /\ rfJob' = RfSet(k, [rfJob[k] EXCEPT !.pc = "write",
                     !.quota = IF @ = {} \/ RequiresFreshLogin(rfAcct.auth) THEN @
                               ELSE {[ok |-> FALSE, code |-> "quota_token_refresh", denied |-> FALSE]}])
        /\ UNCHANGED rfAcct
  /\ UNCHANGED <<rfRevoked, rfEntry, rfLock, rfOpen, rfNow, rfOps, rfLapsed>>

-----------------------------------------------------------------------------
(* Writing the result over the record as it is now.                        *)

\* The client fills in what it was told the subscription is.
RfPreserved(answer, sub) == [answer EXCEPT !.sub = {PreservedSubscription(s, sub) : s \in @}]

RfQuotaApplied(acct, job) ==
  LET q == CHOOSE r \in job.quota : TRUE
  IN  IF job.quota = {} THEN acct
      ELSE IF q.ok
           THEN QuotaRead(acct, RfPreserved(ParsedUsage(q.answer, job.at), CHOOSE s \in job.sub : TRUE))
      ELSE QuotaFailed(acct, q.code, q.denied)

RfHintWins(acct, job) == acct

\* The dedicated probe wins over the hint in the quota answer.
RfSubApplied(acct, job) ==
  LET before == CHOOSE a \in job.before : TRUE
      probed == CHOOSE s \in job.sub : TRUE
  IN  IF rfAcct.sub = before.sub /\ probed # before.sub THEN [acct EXCEPT !.sub = probed] ELSE acct

RfModelsApplied(acct, job) ==
  CASE job.models = "none" -> acct
    [] job.models = "ok"   -> ModelsRecovered(acct)
    [] OTHER               -> ModelsFailed(acct, job.models, job.models = "models_transport")

\* What changed while the refresh was under way is newer than its result.
PreserveNewer(acct, before, current) ==
  [acct EXCEPT !.auth   = IF current.auth # before.auth THEN current.auth ELSE @,
               !.health = IF current.health # before.health THEN current.health ELSE @,
               !.error  = IF current.error # before.error THEN current.error ELSE @]

RfWritten(k, job) ==
  LET learnt == RfModelsApplied(RfSubApplied(RfQuotaApplied(rfAcct, job), job), job)
  IN  IF k = "models" THEN RfModelsApplied(rfAcct, job)
      ELSE PreserveNewer(learnt, CHOOSE a \in job.before : TRUE, rfAcct)

RfWrite(k) ==
  /\ rfJob[k].pc = "write"
  /\ rfAcct' = RfWritten(k, rfJob[k])
  /\ rfLock' = RfNobody
  /\ LET failed == \E q \in rfJob[k].quota : ~q.ok
     IN  rfJob' = RfSet(k, IF k = "models" THEN RfIdle
                           ELSE [RfIdle EXCEPT !.pc = "settle", !.permit = rfJob[k].permit, !.failed = failed,
                                               !.reauth = failed /\ RequiresFreshLogin(rfAcct'.auth)])
  /\ UNCHANGED <<rfLogin, rfRevoked, rfEntry, rfOpen, rfNow, rfOps, rfFaults, rfLapsed>>

\* The running gateway refuses the new record and the old one is put back.
RfWriteUndone(k) ==
  /\ rfJob[k].pc = "write" /\ rfFaults < RfMaxFaults
  /\ rfFaults' = rfFaults + 1
  /\ rfLock' = RfNobody
  /\ rfJob' = RfSet(k, [RfIdle EXCEPT !.pc = "failed", !.permit = rfJob[k].permit])
  /\ UNCHANGED <<rfAcct, rfLogin, rfRevoked, rfEntry, rfOpen, rfNow, rfOps, rfLapsed>>

-----------------------------------------------------------------------------
(* When the account is refreshed next.                                     *)

\* next_quota_refresh_at has no answer for this response.
RfUnscheduled(job) == job.failed /\ job.reauth


RfAfterPermit(k, again) ==
  IF ~rfJob[k].permit THEN rfEntry
  ELSE IF again \/ rfEntry = "dirty" THEN "pending" ELSE "none"

\* The worker settles its permit, a command removes the entry and adds it
\* again, a wake-up adds or removes it.
RfSettledEntry(k) ==
  LET job == rfJob[k]
  IN  CASE k = "worker" -> RfAfterPermit(k, ~RfUnscheduled(job))
        [] k = "manual" -> IF RfUnscheduled(job) THEN "none" ELSE RfSynced("none")
        [] k = "wake"   -> IF RfUnscheduled(job) THEN "none" ELSE RfSynced(rfEntry)

\* A command that removes the entry and adds it again leaves a stale permit.
RfSettle(k) ==
  /\ rfJob[k].pc = "settle"
  /\ rfEntry' = RfSettledEntry(k)
  /\ rfJob' = RfUnpermitted(RfSet(k, RfIdle), IF k = "manual" THEN "none" ELSE rfEntry')
  /\ rfLapsed' = (rfLapsed \/ (k \in {"manual", "wake"} /\ RfUnscheduled(rfJob[k]) /\ RfEligible))
  /\ UNCHANGED <<rfAcct, rfLogin, rfRevoked, rfLock, rfOpen, rfNow, rfOps, rfFaults>>

\* A refresh that failed as a whole: the error is recorded and the account is
\* tried again, unless it now needs a fresh login.
RfSettleError(k) ==
  /\ rfJob[k].pc = "failed"
  /\ rfAcct' = CASE k \in {"worker", "manual"} -> QuotaFailed(rfAcct, "quota_token_refresh", FALSE)
                 [] k = "models" /\ ~RequiresFreshLogin(rfAcct.auth)
                                               -> ModelsFailed(rfAcct, "models_transport", TRUE)
                 [] OTHER                      -> rfAcct
  /\ rfEntry' = CASE k = "worker" -> RfAfterPermit(k, ~RequiresFreshLogin(rfAcct.auth))
                  [] k = "manual" -> RfSynced("none")
                  [] OTHER        -> rfEntry
  /\ rfJob' = RfUnpermitted(RfSet(k, RfIdle), IF k = "manual" THEN "none" ELSE rfEntry')
  /\ UNCHANGED <<rfLogin, rfRevoked, rfLock, rfOpen, rfNow, rfOps, rfFaults, rfLapsed>>

-----------------------------------------------------------------------------
(* What happens to the account meanwhile.                                  *)

RfRoute ==
  /\ RfBudget
  /\ ~rfOpen /\ rfAcct.enabled /\ ~RequiresFreshLogin(rfAcct.auth)
  /\ rfOpen' = TRUE
  /\ UNCHANGED <<rfAcct, rfLogin, rfRevoked, rfEntry, rfLock, rfJob, rfNow, rfFaults, rfLapsed>>

\* The usage callback: what the answer says of the account, and a refresh
\* when a failure asks for one.
RfSucceeded ==
  /\ rfOpen /\ rfOpen' = FALSE
  /\ rfAcct' = RequestSucceeded(rfAcct, IF rfLogin.kind = "refresh" THEN "active" ELSE "access_only")
  /\ rfLapsed' = (rfLapsed \/ (~RfEligible /\ MonitoringEligible(rfAcct'.enabled, rfAcct'.auth)))
  /\ UNCHANGED <<rfLogin, rfRevoked, rfEntry, rfLock, rfJob, rfNow, rfOps, rfFaults>>

RfFailures == {<<401, "upstream_unauthorized">>, <<403, "upstream_forbidden">>,
               <<403, "upstream_quota_exhausted">>, <<429, "upstream_rate_limited">>}

RfFailed ==
  /\ rfOpen /\ rfOpen' = FALSE
  /\ \E f \in RfFailures :
       LET access == IF rfLogin.kind = "refresh" THEN "refreshable" ELSE "access_only"
       IN  /\ rfLogin' = IF f[1] = 401 THEN [rfLogin EXCEPT !.access = "stale"] ELSE rfLogin
           /\ rfAcct' = RequestFailed(rfAcct, f[1], f[2], access)
           /\ rfEntry' = IF /\ WantsRefresh(f[1], f[2], access)
                            /\ MonitoringEligible(rfAcct'.enabled, rfAcct'.auth)
                         THEN RfMarked(rfEntry) ELSE rfEntry
  /\ UNCHANGED <<rfRevoked, rfLock, rfJob, rfNow, rfOps, rfFaults, rfLapsed>>

\* A completed sign-in: a new credential, an active account, a refresh.
RfSignIn ==
  /\ RfBudget
  /\ \E kind \in RfKinds :
       /\ rfLogin' = [gen |-> rfLogin.gen + 1, kind |-> kind, access |-> "good"]
       /\ rfAcct' = [rfAcct EXCEPT !.auth = IF kind = "refresh" THEN "active" ELSE "access_only"]
  /\ rfEntry' = IF rfAcct.enabled THEN RfMarked(rfEntry) ELSE "none"
  /\ rfJob' = RfUnpermitted(rfJob, rfEntry')
  /\ rfLapsed' = FALSE
  /\ UNCHANGED <<rfRevoked, rfLock, rfOpen, rfNow, rfFaults>>

RfSetEnabled ==
  /\ RfBudget
  /\ rfAcct' = [rfAcct EXCEPT !.enabled = ~@]
  /\ rfEntry' = IF MonitoringEligible(~rfAcct.enabled, rfAcct.auth) THEN RfMarked(rfEntry) ELSE "none"
  /\ rfJob' = RfUnpermitted(rfJob, rfEntry')
  /\ rfLapsed' = FALSE
  /\ UNCHANGED <<rfLogin, rfRevoked, rfLock, rfOpen, rfNow, rfFaults>>

\* The provider.
RfRevoke ==
  /\ RfBudget
  /\ rfLogin.gen \notin rfRevoked
  /\ rfRevoked' = rfRevoked \cup {rfLogin.gen}
  /\ UNCHANGED <<rfAcct, rfLogin, rfEntry, rfLock, rfJob, rfOpen, rfNow, rfFaults, rfLapsed>>

RfExpire ==
  /\ RfBudget
  /\ rfLogin.access = "good"
  /\ rfLogin' = [rfLogin EXCEPT !.access = "stale"]
  /\ UNCHANGED <<rfAcct, rfRevoked, rfEntry, rfLock, rfJob, rfOpen, rfNow, rfFaults, rfLapsed>>

RfTick ==
  /\ rfNow < RfMaxNow
  /\ rfNow' = rfNow + 1
  /\ UNCHANGED <<rfAcct, rfLogin, rfRevoked, rfEntry, rfLock, rfJob, rfOpen, rfOps, rfFaults, rfLapsed>>

\* A start of the application puts every eligible account on the queue.
RfInit ==
  /\ \E kind \in RfKinds, sub \in RfSubs :
       /\ rfLogin = [gen |-> 1, kind |-> kind, access |-> "good"]
       /\ rfAcct = [enabled |-> TRUE, auth |-> IF kind = "refresh" THEN "active" ELSE "access_only",
                    health |-> "healthy", error |-> {}, quota |-> EmptyQuota, sub |-> sub]
  /\ rfRevoked = {} /\ rfEntry = "pending" /\ rfLock = RfNobody
  /\ rfJob = [k \in RfRefreshers |-> RfIdle]
  /\ rfOpen = FALSE /\ rfNow = 1 /\ rfOps = 0 /\ rfFaults = 0 /\ rfLapsed = FALSE

RfNext ==
  \/ \E k \in RfRefreshers :
       \/ RfClaim(k) \/ RfPrepare(k) \/ RfPrepareFails(k) \/ RfAsk(k) \/ RfRecover(k)
       \/ RfWrite(k) \/ RfWriteUndone(k) \/ RfSettle(k) \/ RfSettleError(k)
  \/ RfRoute \/ RfSucceeded \/ RfFailed \/ RfSignIn \/ RfSetEnabled
  \/ RfRevoke \/ RfExpire \/ RfTick

RfSpec == RfInit /\ [][RfNext]_rfVars

-----------------------------------------------------------------------------
\* The record, the queue entry and the refreshers hold values of the code's
\* enumerations, and the lock is held by a refresher between its preparation
\* and its write.
RfTypeOK ==
  /\ rfAcct.auth \in AuthStates /\ rfAcct.health \in HealthStates
  /\ rfAcct.error \subseteq ErrorCodes /\ Cardinality(rfAcct.error) <= 1
  /\ rfEntry \in {"none", "pending", "flight", "dirty"}
  /\ \A k \in RfRefreshers : (rfLock = k) <=> rfJob[k].pc \in {"ask", "denied", "write"}

\* An account that may be monitored is never forgotten: it is in the queue, or
\* a refresh that is about to put it back has not settled yet
\* (background.rs:422-465, coordination.rs:44-63, quota_refresh.rs:1114-1139).
\* rfLapsed marks the two ways the code forgets one.
MonitoredIsScheduled == RfEligible /\ ~rfLapsed => rfEntry # "none"

\* A verdict that the login is lost is lifted by a sign-in or by a request that
\* succeeded, never by the result of an older probe or a failed request
\* (record.rs:92-147, 180-300; policy.rs:67-82).
ReauthStands ==
  [][rfAcct.auth = "reauth" /\ rfAcct'.auth # "reauth" =>
        rfLogin'.gen > rfLogin.gen \/ (rfOpen /\ ~rfOpen')]_rfVars

\* A probe that found the plan still active leaves no expired subscription
\* behind, whatever the quota answer said and the record held before
\* (quota_subscription.rs:197-204, quota_refresh.rs:689-696).
ExpiryIsCleared ==
  [][\A k \in RfRefreshers :
        /\ rfJob[k].pc = "write" /\ rfJob'[k].pc = "settle" /\ rfJob[k].probed
        /\ \A a \in rfJob[k].before : a.sub = rfAcct.sub
        /\ \A s \in rfJob[k].sub : s.status = "active"
        => rfAcct'.sub.status = "active"]_rfVars
=============================================================================
