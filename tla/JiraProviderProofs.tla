-------------------------- MODULE JiraProviderProofs --------------------------
(***************************************************************************)
(* Theorems about what the requests of JiraRuntime owe to Atlassian: the   *)
(* stored credential stays usable, no refresh token is presented twice,    *)
(* and the delay of a 429 is waited for.                                   *)
(***************************************************************************)
EXTENDS JiraRuntimeProofs

-----------------------------------------------------------------------------
(* Tokens: the inductive invariant *)

\* The steps at which a request remembers the rotation it began.
Rotating == {"refresh", "complete", "verify", "defer", "abandon"}

Rotates(r) == request[r].step \in Rotating
Owns(r) == OwnsRotation(request[r].rotation)
Token(r) == request[r].token

\* The steps at which a request has a token nobody else may use.
Carries(r) == request[r].step \in {"refresh", "complete"}

\* Atlassian numbers the tokens it issues, and no token is presented that it
\* has not issued.
TokensIssued ==
  /\ \A t \in valid : t <= issued
  /\ credential.token <= issued
  /\ \A r \in Requests : Carries(r) => Token(r) <= issued

\* A rotation is identified by the revision it started, so at most one request
\* owns the row, and a request that has completed its rotation does not.
RotationsApart ==
  /\ \A r \in Requests : Rotates(r) =>
       /\ request[r].rotation.revision <= credential.revision
       /\ At(r, "verify") => request[r].rotation.revision < credential.revision
  /\ \A r, s \in Requests : Rotates(r) /\ Rotates(s) =>
       \/ r = s
       \/ request[r].rotation.revision # request[s].rotation.revision

\* A stored token is live unless the row asks for a new authorization.
Stored == credential.state \in {"ACTIVE", "ROTATING"}

\* The owner of the row presents the stored token, and until it has, that token
\* is valid.
OwnerPresents ==
  \A r \in Requests :
    /\ request[r].step \in {"refresh", "defer"} /\ Owns(r) =>
         credential.token = Token(r) /\ credential.token \in valid
    /\ At(r, "refresh") /\ Stored /\ credential.token = Token(r) => Owns(r)

\* A token that was received and is not stored yet is valid and nobody's else.
ReceivedKept ==
  /\ \A r \in Requests : At(r, "complete") =>
       /\ Token(r) \in valid
       /\ Stored => credential.token # Token(r)
  /\ \A r, s \in Requests : Carries(r) /\ Carries(s) => r = s \/ Token(r) # Token(s)

TokensInv ==
  TokensIssued /\ CredentialUsable /\ RotationsApart /\ OwnerPresents /\ ReceivedKept

-----------------------------------------------------------------------------
(* What a step does to the requests that rotate, the row and the tokens *)

\* A request that rotates after a step rotated before it, with the same
\* rotation and token; it may only have given up or been told to wait.
Remembers(old, new) ==
  new.step \in Rotating =>
    /\ old.step \in Rotating
    /\ new.rotation = old.rotation /\ new.token = old.token
    /\ \/ new.step = old.step
       \/ new.step = "abandon"
       \/ new.step = "defer" /\ old.step \in {"refresh", "verify"}

AllRemember == \A r \in Requests : Remembers(request[r], request'[r])
OthersRemember(r) == \A s \in Requests \ {r} : Remembers(request[s], request'[s])

SameTokens == valid' = valid /\ issued' = issued

SameRow ==
  /\ credential'.state = credential.state /\ credential'.token = credential.token
  /\ credential'.revision = credential.revision
  /\ credential'.operation = credential.operation

\* The row after a transaction that writes it.
RowBecomes(state, token) ==
  /\ credential'.state = state /\ credential'.token = token
  /\ credential'.revision = credential.revision + 1

Rests == AllRemember /\ SameTokens /\ SameRow

GivesUp == AllRemember /\ SameTokens /\ RowBecomes("REAUTH_REQUIRED", credential.token)

Exchanges(r) ==
  /\ At(r, "refresh") /\ Token(r) \in valid
  /\ valid' = (valid \ {Token(r)}) \cup {issued + 1} /\ issued' = issued + 1
  /\ SameRow
  /\ request'[r].step \in {"complete", "abandon"}
  /\ request'[r].rotation = request[r].rotation
  /\ request'[r].step = "complete" => request'[r].token = issued + 1
  /\ OthersRemember(r)

Begins(r) ==
  /\ credential.state = "ACTIVE" /\ RowBecomes("ROTATING", credential.token)
  /\ credential'.operation = credential.revision + 1
  /\ SameTokens
  /\ request'[r].step = "refresh" /\ request'[r].token = credential.token
  /\ request'[r].rotation.revision = credential.revision + 1
  /\ request'[r].rotation.operation = credential.revision + 1
  /\ OthersRemember(r)

Completes(r) ==
  /\ At(r, "complete") /\ Owns(r) /\ RowBecomes("ACTIVE", Token(r))
  /\ SameTokens
  /\ request'[r].step = "verify" /\ request'[r].rotation = request[r].rotation
  /\ OthersRemember(r)

Defers(r) ==
  /\ At(r, "defer") /\ Owns(r) /\ RowBecomes("ACTIVE", credential.token)
  /\ SameTokens
  /\ request'[r].step \notin Rotating
  /\ OthersRemember(r)

Authorizes ==
  /\ RowBecomes("ACTIVE", issued + 1)
  /\ valid' = valid \cup {issued + 1} /\ issued' = issued + 1
  /\ AllRemember

TokenStep ==
  \/ Rests \/ GivesUp \/ Authorizes
  \/ \E r \in Requests : Exchanges(r) \/ Begins(r) \/ Completes(r) \/ Defers(r)

LEMMA StepsOfRotation ==
  {"complete", "verify", "abandon", "defer", "refresh"} \subseteq Rotating
BY DEF Rotating

\* One row of request replaced by another.
LEMMA RowRemembers ==
  ASSUME RequestOK, NEW r \in Requests, NEW row, request' = [request EXCEPT ![r] = row]
  PROVE  /\ request'[r] = row
         /\ OthersRemember(r)
         /\ Remembers(request[r], row) => AllRemember
<1>1. request'[r] = row /\ \A s \in Requests \ {r} : request'[s] = request[s]
  BY DEF RequestOK
<1>2. \A s \in Requests : Remembers(request[s], request[s])
  BY DEF Remembers
<1>3. OthersRemember(r)
  BY <1>1, <1>2 DEF OthersRemember
<1> QED BY <1>1, <1>3 DEF AllRemember, OthersRemember

LEMMA UnchangedRemembers == UNCHANGED request => AllRemember
BY DEF AllRemember, Remembers

\* A request that leaves the rotation behind.
LEMMA LeavesRotation ==
  ASSUME RequestOK, NEW r \in Requests
  PROVE  /\ Done(r) => AllRemember /\ OthersRemember(r) /\ request'[r].step \notin Rotating
         /\ \A step \in Steps \ Rotating : Goto(r, step) => AllRemember
         /\ \A code, wait, caught : Failing(r, code, wait, caught) => AllRemember
         /\ \A claimed : Refused(r, claimed) => AllRemember
<1>1. request[r] \in RequestRecords
  BY DEF RequestOK
<1>2. Idle.step = "idle" /\ "idle" \notin Rotating /\ "fail" \notin Rotating
  BY DEF Idle, Rotating
<1>3. ASSUME Done(r)
      PROVE  AllRemember /\ OthersRemember(r) /\ request'[r].step \notin Rotating
  <2>1. request' = [request EXCEPT ![r] = Idle]
    BY <1>3 DEF Done
  <2>2. Remembers(request[r], Idle)
    BY <1>2 DEF Remembers
  <2>3. request'[r] = Idle /\ AllRemember /\ OthersRemember(r)
    BY <2>1, <2>2, RowRemembers
  <2>4. request'[r].step = "idle"
    BY <1>2, <2>3
  <2>5. request'[r].step \notin Rotating
    BY <1>2, <2>4
  <2> QED BY <2>3, <2>5
<1>4. ASSUME NEW step \in Steps \ Rotating, Goto(r, step) PROVE AllRemember
  <2> DEFINE row == [request[r] EXCEPT !.step = step]
  <2>1. row.step = step
    BY <1>1 DEF RequestRecords
  <2>2. request' = [request EXCEPT ![r] = row]
    BY <1>4 DEF RequestOK, Goto
  <2> HIDE DEF row
  <2>3. Remembers(request[r], row)
    BY <2>1 DEF Remembers
  <2> QED BY <2>2, <2>3, RowRemembers
<1>5. ASSUME NEW code, NEW wait, NEW caught, Failing(r, code, wait, caught) PROVE AllRemember
  <2> DEFINE row == [Idle EXCEPT !.step = "fail", !.job = Job(r), !.claim = Claim(r),
                                 !.code = code, !.wait = wait, !.caught = caught]
  <2>1. row.step = "fail"
    BY DEF Idle
  <2>2. request' = [request EXCEPT ![r] = row]
    BY <1>5 DEF Failing
  <2> HIDE DEF row
  <2>3. Remembers(request[r], row)
    BY <1>2, <2>1 DEF Remembers
  <2> QED BY <2>2, <2>3, RowRemembers
<1>6. \A claimed : Refused(r, claimed) => AllRemember
  BY <1>5 DEF Refused
<1> QED BY <1>3, <1>4, <1>5, <1>6

LEMMA FailureRemembers ==
  ASSUME RequestOK, NEW r \in Requests, request[r].step \in {"refresh", "verify"},
         NEW failure, RotationFailed(r, failure)
  PROVE  /\ AllRemember
         /\ failure.code # "RATE_LIMITED" =>
              /\ request'[r].step = "abandon" /\ request'[r].rotation = request[r].rotation
              /\ OthersRemember(r)
<1> DEFINE step == IF failure.code = "RATE_LIMITED" THEN "defer" ELSE "abandon"
           row == [request[r] EXCEPT !.step = step, !.code = failure.code, !.wait = failure.wait]
<1>1. step \in {"defer", "abandon"} /\ (failure.code # "RATE_LIMITED" => step = "abandon")
  OBVIOUS
<1> HIDE DEF step
<1>2. /\ row.step = step /\ row.rotation = request[r].rotation /\ row.token = request[r].token
  BY DEF RequestOK, RequestRecords
<1>3. request' = [request EXCEPT ![r] = row]
  BY DEF RequestOK, RotationFailed, step
<1> HIDE DEF row
<1>4. Remembers(request[r], row)
  BY <1>1, <1>2, StepsOfRotation DEF Remembers, Rotating
<1> QED BY <1>1, <1>2, <1>3, <1>4, RowRemembers

-----------------------------------------------------------------------------
(* Every such step preserves the invariant *)

\* What the arithmetic of tokens and revisions needs of the types.
Counted ==
  /\ credential.revision \in Nat /\ credential.token \in Nat
  /\ issued \in Nat /\ valid \subseteq Nat
  /\ \A r \in Requests : Token(r) \in Nat /\ request[r].rotation.revision \in Nat

LEMMA TypesCount == TypeInv => Counted
<1> SUFFICES ASSUME TypeInv PROVE Counted
  OBVIOUS
<1>1. credential \in CredentialRows /\ issued \in Nat /\ valid \subseteq Nat
  BY DEF TypeInv, TypeOK, DbTypeOK
<1>2. \A r \in Requests : Token(r) \in Nat /\ request[r].rotation.revision \in Nat
  BY DEF TypeInv, TypeOK, RequestRecords, Rotations, Token
<1> QED BY <1>1, <1>2 DEF Counted, CredentialRows

\* Nobody's rotation or token changes.
LEMMA RestsKeeps ==
  ASSUME Counted, TokensInv, Rests
  PROVE  TokensInv'
<1> USE DEF TokensInv, Rests, AllRemember, Remembers, SameTokens, SameRow, Rotating, At, Token
<1>1. TokensIssued'
  BY DEF TokensIssued, Carries
<1>2. CredentialUsable'
  BY DEF CredentialUsable
<1>3. RotationsApart'
  BY DEF RotationsApart, Rotates
<1>4. OwnerPresents'
  BY DEF OwnerPresents, Owns, OwnsRotation, Stored, RotationsApart, Rotates, Counted
<1>5. ReceivedKept'
  BY DEF ReceivedKept, Carries, Stored
<1> QED BY <1>1, <1>2, <1>3, <1>4, <1>5

\* The row asks for a new authorization: nobody owns it.
LEMMA GivesUpKeeps ==
  ASSUME Counted, TokensInv, GivesUp
  PROVE  TokensInv'
<1> USE DEF TokensInv, GivesUp, AllRemember, Remembers, SameTokens, RowBecomes, Rotating,
            At, Token
<1>1. TokensIssued'
  BY DEF TokensIssued, Carries
<1>2. CredentialUsable'
  BY DEF CredentialUsable
<1>3. RotationsApart'
  BY DEF RotationsApart, Rotates, Counted
<1>4. OwnerPresents'
  BY DEF OwnerPresents, Owns, OwnsRotation, Stored
<1>5. ReceivedKept'
  BY DEF ReceivedKept, Carries, Stored
<1> QED BY <1>1, <1>2, <1>3, <1>4, <1>5

\* The new token is not one that was presented or received before.
LEMMA AuthorizesKeeps ==
  ASSUME Counted, TokensInv, Authorizes
  PROVE  TokensInv'
<1> USE DEF TokensInv, Authorizes, AllRemember, Remembers, RowBecomes, Rotating, At, Token
<1>1. TokensIssued'
  BY DEF TokensIssued, Carries, Counted
<1>2. CredentialUsable'
  BY DEF CredentialUsable
<1>3. RotationsApart'
  BY DEF RotationsApart, Rotates, Counted
<1>4. OwnerPresents'
  BY DEF OwnerPresents, Owns, OwnsRotation, Stored, TokensIssued, Carries, Counted
<1>5. ReceivedKept'
  BY DEF ReceivedKept, Carries, Stored, TokensIssued, Counted
<1> QED BY <1>1, <1>2, <1>3, <1>4, <1>5

\* The presented token is spent; only its owner held it, and it is not stored
\* under an ACTIVE row.
LEMMA ExchangesKeeps ==
  ASSUME Counted, TokensInv, NEW r \in Requests, Exchanges(r)
  PROVE  TokensInv'
<1> USE DEF TokensInv, Exchanges, OthersRemember, Remembers, SameRow, Rotating, At, Token
<1>1. TokensIssued'
  BY DEF TokensIssued, Carries, Counted
<1>2. CredentialUsable'
  BY DEF CredentialUsable, OwnerPresents, Owns, OwnsRotation, Stored
<1>3. RotationsApart'
  BY DEF RotationsApart, Rotates
<1>4. OwnerPresents'
  BY DEF OwnerPresents, Owns, OwnsRotation, Stored, RotationsApart, Rotates, Counted
<1>5. ReceivedKept'
  BY DEF ReceivedKept, Carries, Stored, TokensIssued, Counted
<1> QED BY <1>1, <1>2, <1>3, <1>4, <1>5

\* A rotation begins with the stored token, which no other request carries.
LEMMA BeginsKeeps ==
  ASSUME Counted, TokensInv, NEW r \in Requests, Begins(r)
  PROVE  TokensInv'
<1> USE DEF TokensInv, Begins, OthersRemember, Remembers, SameTokens, RowBecomes, Rotating,
            At, Token
<1>1. TokensIssued'
  BY DEF TokensIssued, Carries
<1>2. CredentialUsable'
  BY DEF CredentialUsable
<1>3. RotationsApart'
  BY DEF RotationsApart, Rotates, Counted
<1>4. OwnerPresents'
  BY DEF OwnerPresents, Owns, OwnsRotation, Stored, RotationsApart, Rotates, Counted,
         CredentialUsable
<1>5. ReceivedKept'
  BY DEF ReceivedKept, Carries, Stored, OwnerPresents, Owns, OwnsRotation
<1> QED BY <1>1, <1>2, <1>3, <1>4, <1>5

\* The received token is stored, and from here the request does not own the row.
LEMMA CompletesKeeps ==
  ASSUME Counted, TokensInv, NEW r \in Requests, Completes(r)
  PROVE  TokensInv'
<1> USE DEF TokensInv, Completes, OthersRemember, Remembers, SameTokens, RowBecomes, Rotating,
            At, Token
<1>1. TokensIssued'
  BY DEF TokensIssued, Carries
<1>2. CredentialUsable'
  BY DEF CredentialUsable, ReceivedKept
<1>3. RotationsApart'
  BY DEF RotationsApart, Rotates, Counted
<1>4. OwnerPresents'
  BY DEF OwnerPresents, Owns, OwnsRotation, Stored, ReceivedKept, Carries
<1>5. ReceivedKept'
  BY DEF ReceivedKept, Carries, Stored
<1> QED BY <1>1, <1>2, <1>3, <1>4, <1>5

\* The row is released with the token its owner did not spend.
LEMMA DefersKeeps ==
  ASSUME Counted, TokensInv, NEW r \in Requests, Defers(r)
  PROVE  TokensInv'
<1> USE DEF TokensInv, Defers, OthersRemember, Remembers, SameTokens, RowBecomes, Rotating,
            At, Token
<1>1. TokensIssued'
  BY DEF TokensIssued, Carries
<1>2. CredentialUsable'
  BY DEF CredentialUsable, OwnerPresents
<1>3. RotationsApart'
  BY DEF RotationsApart, Rotates, Counted
<1>4. OwnerPresents'
  BY DEF OwnerPresents, Owns, OwnsRotation, Stored, RotationsApart, Rotates
<1>5. ReceivedKept'
  BY DEF ReceivedKept, Carries, Stored, Owns, OwnsRotation
<1> QED BY <1>1, <1>2, <1>3, <1>4, <1>5

-----------------------------------------------------------------------------
(* Every step is one of them *)

\* What the transactions write to the credential.
LEMMA CredentialWrites ==
  ASSUME DbTypeOK, NEW token \in Nat, NEW rotation
  PROVE  /\ UNCHANGED credential => SameRow
         /\ TickRows \/ TokenNearsExpiry => SameRow
         /\ SetOAuthCredential(token) => RowBecomes("ACTIVE", token)
         /\ BeginRotation =>
              /\ credential.state = "ACTIVE" /\ RowBecomes("ROTATING", credential.token)
              /\ credential'.operation = credential.revision + 1
         /\ \/ AbandonLapsedRotation \/ CompleteStaleRotation(rotation)
            \/ FailOAuthRotation(rotation)
            => RowBecomes("REAUTH_REQUIRED", credential.token)
         /\ CompleteOAuthRotation(rotation, token) =>
              OwnsRotation(rotation) /\ RowBecomes("ACTIVE", token)
         /\ \A j, wait : DeferOAuthRotation(j, wait) => RowBecomes("ACTIVE", credential.token)
         /\ \A j, code, wait : FailRunningJob(j, code, wait) =>
              SameRow \/ RowBecomes("REAUTH_REQUIRED", credential.token)
<1> USE DEF SameRow, RowBecomes
<1>0. credential \in CredentialRows
  BY DEF DbTypeOK
<1>1. UNCHANGED credential => SameRow
  OBVIOUS
<1>2. TickRows \/ TokenNearsExpiry => SameRow
  BY <1>0 DEF TickRows, TokenNearsExpiry, CredentialRows
<1>3. SetOAuthCredential(token) => RowBecomes("ACTIVE", token)
  BY DEF SetOAuthCredential
<1>4. BeginRotation =>
        /\ credential.state = "ACTIVE" /\ RowBecomes("ROTATING", credential.token)
        /\ credential'.operation = credential.revision + 1
  BY <1>0 DEF BeginRotation, CredentialRows
<1>5. \/ AbandonLapsedRotation \/ CompleteStaleRotation(rotation)
      \/ FailOAuthRotation(rotation)
      => RowBecomes("REAUTH_REQUIRED", credential.token)
  BY <1>0 DEF AbandonLapsedRotation, CompleteStaleRotation, FailOAuthRotation,
              RequireReauthorization, CredentialRows
<1>6. CompleteOAuthRotation(rotation, token) =>
        OwnsRotation(rotation) /\ RowBecomes("ACTIVE", token)
  BY <1>0 DEF CompleteOAuthRotation, CredentialRows
<1>7. \A j, wait : DeferOAuthRotation(j, wait) => RowBecomes("ACTIVE", credential.token)
  BY <1>0 DEF DeferOAuthRotation, CredentialRows
<1>8. \A j, code, wait : FailRunningJob(j, code, wait) =>
        SameRow \/ RowBecomes("REAUTH_REQUIRED", credential.token)
  BY <1>0 DEF FailRunningJob, CredentialRows
<1> QED BY <1>1, <1>2, <1>3, <1>4, <1>5, <1>6, <1>7, <1>8

\* The transactions of ConnectorRuntime that leave the credential alone.
LEMMA CredentialUntouched ==
  /\ UNCHANGED dbVars => UNCHANGED credential
  /\ \A j : EnqueueDueJobs(j) \/ ClaimNextJob(j) \/ ResetConnectorCursorForJob(j)
           \/ ExpireRunningJob(j) \/ JobAges(j) => UNCHANGED credential
  /\ \A j, n, page : PersistConnectorPageForJob(j, n, page) => UNCHANGED credential
  /\ \A e, j : AcceptWebhook(e, j) => UNCHANGED credential
  /\ \A connector : Configure(connector) => UNCHANGED credential
  /\ ClaimNothing \/ SlotBegins => UNCHANGED credential
BY DEF dbVars, EnqueueDueJobs, ClaimNextJob, ResetConnectorCursorForJob, ExpireRunningJob,
       JobAges, PersistConnectorPageForJob, AcceptWebhook, Configure, ClaimNothing, SlotBegins

LEMMA RequestStepRotates ==
  ASSUME TypeInv, NEW r \in Requests, Step(r) \/ Stop(r)
  PROVE  TokenStep
<1> USE DEF external, SameTokens
<1>1. DbTypeOK /\ RequestOK /\ issued \in Nat
  BY DEF TypeInv, TypeOK, RequestOK
<1>2. /\ request[r] \in RequestRecords /\ Token(r) \in Nat
      /\ request[r].rotation \in Rotations /\ issued + 1 \in Nat
  BY <1>1 DEF RequestOK, RequestRecords, Token
<1>3. ASSUME AllRemember, UNCHANGED credential, UNCHANGED <<valid, issued>> PROVE TokenStep
  BY <1>1, <1>3, CredentialWrites DEF TokenStep, Rests
<1>4. ASSUME AllRemember, UNCHANGED dbVars, UNCHANGED <<valid, issued>> PROVE TokenStep
  BY <1>3, <1>4, CredentialUntouched
<1>5. ASSUME AllRemember, RowBecomes("REAUTH_REQUIRED", credential.token),
             UNCHANGED <<valid, issued>>
      PROVE  TokenStep
  BY <1>5 DEF TokenStep, GivesUp
<1>6. {"idle", "snapshot", "reset", "access", "fetch", "persist", "fail"} \subseteq Steps \ Rotating
  BY DEF Steps, Rotating
<1>7. CASE Enqueue(r)
  BY <1>3, <1>7, UnchangedRemembers, CredentialUntouched DEF Enqueue
<1>8. CASE ClaimJob(r)
  <2>1. UNCHANGED credential
    BY <1>8, CredentialUntouched DEF ClaimJob
  <2>2. AllRemember
    <3>1. ASSUME NEW j \in Jobs,
                 request' = [request EXCEPT ![r].step = "snapshot", ![r].job = j,
                                            ![r].claim = jobs[j].attempts + 1]
          PROVE  AllRemember
      <4> DEFINE row == [request[r] EXCEPT !.step = "snapshot", !.job = j,
                                           !.claim = jobs[j].attempts + 1]
      <4>1. row.step = "snapshot"
        BY <1>2 DEF RequestRecords
      <4>2. request' = [request EXCEPT ![r] = row]
        BY <1>1, <3>1 DEF RequestOK
      <4> HIDE DEF row
      <4>3. Remembers(request[r], row)
        BY <1>6, <4>1 DEF Remembers
      <4> QED BY <1>1, <4>2, <4>3, RowRemembers
    <3> QED BY <1>8, <3>1, UnchangedRemembers DEF ClaimJob
  <2> QED BY <1>3, <1>8, <2>1, <2>2 DEF ClaimJob
<1>9. CASE ReadConnectorSyncSnapshot(r)
  <2> DEFINE next == [request EXCEPT
                        ![r].step = "access",
                        ![r].expected = [config |-> source.config,
                                         revision |-> source.revision,
                                         generation |-> source.generation],
                        ![r].cursor = source.cursor]
  <2>1. Goto(r, "reset") \/ request' = next \/ \E claimed : Refused(r, claimed)
    BY <1>9 DEF ReadConnectorSyncSnapshot
  <2>2. ASSUME request' = next PROVE AllRemember
    <3> DEFINE row == next[r]
    <3>1. row.step = "access" /\ request' = [request EXCEPT ![r] = row]
      BY <1>1, <1>2, <2>2 DEF RequestOK, RequestRecords
    <3> HIDE DEF row
    <3>2. Remembers(request[r], row)
      BY <1>6, <3>1 DEF Remembers
    <3> QED BY <1>1, <3>1, <3>2, RowRemembers
  <2> HIDE DEF next
  <2>3. AllRemember
    BY <1>1, <1>6, <2>1, <2>2, LeavesRotation
  <2> QED BY <1>4, <1>9, <2>3 DEF ReadConnectorSyncSnapshot
<1>10. CASE Reset(r)
  <2>1. UNCHANGED credential
    BY <1>10, CredentialUntouched DEF Reset
  <2>2. AllRemember
    BY <1>1, <1>10, LeavesRotation DEF Reset
  <2> QED BY <1>3, <1>10, <2>1, <2>2 DEF Reset
<1>11. CASE AccessOrBeginRotation(r)
  <2>1. UNCHANGED <<valid, issued>>
    BY <1>11 DEF AccessOrBeginRotation
  <2>2. ASSUME BeginRotation,
               request' = [request EXCEPT
                   ![r].step = "refresh",
                   ![r].rotation = [operation |-> credential'.operation,
                                    revision |-> credential'.revision,
                                    config |-> source.config],
                   ![r].token = credential.token]
        PROVE  TokenStep
    <3> DEFINE rotation == [operation |-> credential'.operation,
                            revision |-> credential'.revision,
                            config |-> source.config]
               row == [request[r] EXCEPT !.step = "refresh", !.rotation = rotation,
                                         !.token = credential.token]
    <3>1. rotation.operation = credential'.operation /\ rotation.revision = credential'.revision
      OBVIOUS
    <3>2. request' = [request EXCEPT ![r].step = "refresh", ![r].rotation = rotation,
                                     ![r].token = credential.token]
      BY <2>2
    <3> HIDE DEF rotation
    <3>3. /\ request' = [request EXCEPT ![r] = row]
          /\ row.step = "refresh" /\ row.rotation = rotation /\ row.token = credential.token
      BY <1>1, <1>2, <3>2 DEF RequestOK, RequestRecords
    <3> HIDE DEF row
    <3>4. request'[r] = row /\ OthersRemember(r)
      BY <1>1, <3>3, RowRemembers
    <3>5. /\ credential.state = "ACTIVE" /\ RowBecomes("ROTATING", credential.token)
          /\ credential'.operation = credential.revision + 1
      BY <1>1, <1>2, <2>2, CredentialWrites
    <3>6. credential'.revision = credential.revision + 1
      BY <3>5 DEF RowBecomes
    <3>7. Begins(r)
      BY <2>1, <3>1, <3>3, <3>4, <3>5, <3>6 DEF Begins
    <3> QED BY <3>7 DEF TokenStep
  <2>3. ASSUME AbandonLapsedRotation, Failing(r, "EXPIRED_CREDENTIALS", 0, FALSE)
        PROVE  TokenStep
    <3>1. RowBecomes("REAUTH_REQUIRED", credential.token)
      BY <1>1, <1>2, <2>3, CredentialWrites
    <3>2. AllRemember
      BY <1>1, <2>3, LeavesRotation
    <3> QED BY <1>5, <2>1, <3>1, <3>2
  <2>4. \/ UNCHANGED dbVars
        \/ AbandonLapsedRotation /\ Failing(r, "EXPIRED_CREDENTIALS", 0, FALSE)
        \/ /\ BeginRotation
           /\ request' = [request EXCEPT
                   ![r].step = "refresh",
                   ![r].rotation = [operation |-> credential'.operation,
                                    revision |-> credential'.revision,
                                    config |-> source.config],
                   ![r].token = credential.token]
    BY <1>11 DEF AccessOrBeginRotation
  <2>5. ASSUME ~(BeginRotation \/ AbandonLapsedRotation) PROVE AllRemember
    <3>1. \/ Refused(r, TRUE) \/ Goto(r, "fetch")
          \/ \E code, wait, caught : Failing(r, code, wait, caught)
      BY <1>11, <2>5 DEF AccessOrBeginRotation
    <3> QED BY <1>1, <1>6, <3>1, LeavesRotation
  <2>6. UNCHANGED dbVars => ~(BeginRotation \/ AbandonLapsedRotation)
    <3>1. credential.revision \in Nat /\ credential.revision + 1 # credential.revision
      BY <1>1 DEF DbTypeOK, CredentialRows
    <3>2. UNCHANGED dbVars => credential'.revision = credential.revision
      BY DEF dbVars
    <3> QED BY <1>1, <1>2, <3>1, <3>2, CredentialWrites DEF RowBecomes
  <2> QED BY <1>4, <2>1, <2>2, <2>3, <2>4, <2>5, <2>6
<1>12. CASE RefreshToken(r)
  <2>1. At(r, "refresh") /\ UNCHANGED credential
    BY <1>12, CredentialUntouched DEF RefreshToken
  <2>2. SameRow
    BY <1>1, <1>2, <2>1, CredentialWrites
  <2> DEFINE exchanged == /\ Token(r) \in valid
                          /\ valid' = (valid \ {Token(r)}) \cup {issued + 1}
                          /\ issued' = issued + 1
  <2>3. ASSUME exchanged,
               request' = [request EXCEPT ![r].step = "complete", ![r].token = issued + 1]
        PROVE  TokenStep
    <3> DEFINE row == [request[r] EXCEPT !.step = "complete", !.token = issued + 1]
    <3>1. /\ request' = [request EXCEPT ![r] = row]
          /\ row.step = "complete" /\ row.rotation = request[r].rotation
          /\ row.token = issued + 1
      BY <1>1, <1>2, <2>3 DEF RequestOK, RequestRecords
    <3> HIDE DEF row
    <3>2. request'[r] = row /\ OthersRemember(r)
      BY <1>1, <3>1, RowRemembers
    <3>3. Exchanges(r)
      BY <2>1, <2>2, <2>3, <3>1, <3>2 DEF Exchanges
    <3> QED BY <3>3 DEF TokenStep
  <2>4. ASSUME exchanged,
               RotationFailed(r, [code |-> "TEMPORARILY_UNAVAILABLE", wait |-> 0])
        PROVE  TokenStep
    <3>1. /\ request'[r].step = "abandon" /\ request'[r].rotation = request[r].rotation
          /\ OthersRemember(r)
      BY <1>1, <2>1, <2>4, FailureRemembers DEF At
    <3>2. Exchanges(r)
      BY <2>1, <2>2, <2>4, <3>1 DEF Exchanges
    <3> QED BY <3>2 DEF TokenStep
  <2>5. ASSUME NEW f \in Failures, RotationFailed(r, f), UNCHANGED <<valid, issued>>
        PROVE  TokenStep
    <3>1. AllRemember
      BY <1>1, <2>1, <2>5, FailureRemembers DEF At
    <3> QED BY <1>3, <2>1, <2>5, <3>1
  <2> QED BY <1>12, <2>3, <2>4, <2>5 DEF RefreshToken, Token
<1>13. CASE CompleteRotation(r)
  <2>1. At(r, "complete") /\ UNCHANGED <<valid, issued>>
    BY <1>13 DEF CompleteRotation
  <2>2. ASSUME NEW code, request' = [request EXCEPT ![r].step = "abandon", ![r].code = code]
        PROVE  AllRemember
    <3> DEFINE row == [request[r] EXCEPT !.step = "abandon", !.code = code]
    <3>1. /\ request' = [request EXCEPT ![r] = row]
          /\ row.step = "abandon" /\ row.rotation = request[r].rotation
          /\ row.token = request[r].token
      BY <1>1, <1>2, <2>2 DEF RequestOK, RequestRecords
    <3> HIDE DEF row
    <3>2. Remembers(request[r], row)
      BY <2>1, <3>1, StepsOfRotation DEF Remembers, At
    <3> QED BY <1>1, <3>1, <3>2, RowRemembers
  <2>3. ASSUME CompleteOAuthRotation(request[r].rotation, request[r].token), Goto(r, "verify")
        PROVE  TokenStep
    <3>1. Owns(r) /\ RowBecomes("ACTIVE", Token(r))
      BY <1>1, <1>2, <2>3, CredentialWrites DEF Owns, Token
    <3> DEFINE row == [request[r] EXCEPT !.step = "verify"]
    <3>2. /\ request' = [request EXCEPT ![r] = row]
          /\ row.step = "verify" /\ row.rotation = request[r].rotation
      BY <1>1, <1>2, <2>3 DEF RequestOK, RequestRecords, Goto
    <3> HIDE DEF row
    <3>3. request'[r] = row /\ OthersRemember(r)
      BY <1>1, <3>2, RowRemembers
    <3>4. Completes(r)
      BY <2>1, <3>1, <3>2, <3>3 DEF Completes
    <3> QED BY <3>4 DEF TokenStep
  <2>4. ASSUME CompleteStaleRotation(request[r].rotation), AllRemember PROVE TokenStep
    <3>1. RowBecomes("REAUTH_REQUIRED", credential.token)
      BY <1>1, <1>2, <2>4, CredentialWrites
    <3> QED BY <1>5, <2>1, <2>4, <3>1
  <2> QED BY <1>4, <1>13, <2>1, <2>2, <2>3, <2>4 DEF CompleteRotation
<1>14. CASE VerifyResources(r)
  <2>1. Goto(r, "fetch") => AllRemember
    BY <1>1, <1>6, LeavesRotation
  <2>2. \A f \in Failures : RotationFailed(r, f) => AllRemember
    BY <1>1, <1>14, FailureRemembers DEF VerifyResources, At
  <2> QED BY <1>4, <1>14, <2>1, <2>2 DEF VerifyResources
<1>15. CASE AbandonRotation(r)
  <2>1. AllRemember
    BY <1>1, <1>6, <1>15, LeavesRotation DEF AbandonRotation
  <2>2. ASSUME FailOAuthRotation(request[r].rotation) PROVE TokenStep
    <3>1. RowBecomes("REAUTH_REQUIRED", credential.token)
      BY <1>1, <1>2, <2>2, CredentialWrites
    <3> QED BY <1>5, <1>15, <2>1, <3>1 DEF AbandonRotation
  <2> QED BY <1>4, <1>15, <2>1, <2>2 DEF AbandonRotation
<1>16. CASE DeferRotation(r)
  <2>1. At(r, "defer") /\ UNCHANGED <<valid, issued>>
    BY <1>16 DEF DeferRotation
  <2>2. ASSUME DeferAllowed(Job(r), Claim(r), request[r].rotation),
               DeferOAuthRotation(Job(r), request[r].wait), Done(r)
        PROVE  TokenStep
    <3>1. Owns(r) /\ RowBecomes("ACTIVE", credential.token)
      BY <1>1, <1>2, <2>2, CredentialWrites DEF Owns, DeferAllowed
    <3>2. OthersRemember(r) /\ request'[r].step \notin Rotating
      BY <1>1, <2>2, LeavesRotation
    <3>3. Defers(r)
      BY <2>1, <3>1, <3>2 DEF Defers
    <3> QED BY <3>3 DEF TokenStep
  <2>3. Refused(r, TRUE) \/ Goto(r, "fail") => AllRemember
    BY <1>1, <1>6, LeavesRotation
  <2> QED BY <1>4, <1>16, <2>1, <2>2, <2>3 DEF DeferRotation
<1>17. CASE PullChanges(r)
  <2>1. AllRemember
    BY <1>1, <1>6, <1>17, LeavesRotation DEF PullChanges
  <2> QED BY <1>4, <1>17, <2>1 DEF PullChanges
<1>18. CASE Persist(r)
  <2>1. UNCHANGED credential
    BY <1>18, CredentialUntouched DEF Persist
  <2>2. AllRemember
    BY <1>1, <1>18, LeavesRotation DEF Persist
  <2> QED BY <1>3, <1>18, <2>1, <2>2 DEF Persist
<1>19. CASE Fail(r)
  <2>1. AllRemember /\ UNCHANGED <<valid, issued>>
    BY <1>1, <1>19, LeavesRotation DEF Fail
  <2>2. \/ UNCHANGED credential
        \/ FailRunningJob(Job(r), request[r].code, request[r].wait)
    BY <1>19, CredentialUntouched DEF Fail
  <2>3. ASSUME FailRunningJob(Job(r), request[r].code, request[r].wait) PROVE TokenStep
    <3>1. SameRow \/ RowBecomes("REAUTH_REQUIRED", credential.token)
      BY <1>1, <1>2, <2>3, CredentialWrites
    <3> QED BY <1>5, <2>1, <3>1 DEF TokenStep, Rests
  <2> QED BY <1>3, <2>1, <2>2, <2>3
<1>20. CASE Stop(r)
  <2>1. AllRemember
    BY <1>1, <1>20, LeavesRotation DEF Stop
  <2> QED BY <1>4, <1>20, <2>1 DEF Stop
<1> QED
  BY <1>7, <1>8, <1>9, <1>10, <1>11, <1>12, <1>13, <1>14, <1>15, <1>16, <1>17, <1>18, <1>19,
     <1>20
  DEF Step

LEMMA EveryStepRotates == TypeInv /\ [Next]_vars => TokenStep
<1> SUFFICES ASSUME TypeInv, [Next]_vars PROVE TokenStep
  OBVIOUS
<1> USE DEF external
<1>1. DbTypeOK /\ issued + 1 \in Nat
  BY DEF TypeInv, TypeOK
<1>2. ASSUME UNCHANGED request, SameRow, UNCHANGED <<valid, issued>> PROVE TokenStep
  BY <1>2, UnchangedRemembers DEF TokenStep, Rests, SameTokens
<1>3. ASSUME UNCHANGED request, UNCHANGED credential, UNCHANGED <<valid, issued>>
      PROVE  TokenStep
  BY <1>2, <1>3 DEF SameRow
<1>4. CASE Environment
  <2>1. CASE \E e \in Events : Deliver(e)
    BY <1>3, <2>1, CredentialUntouched DEF Deliver
  <2>2. CASE Reconfigure
    BY <1>3, <2>2, CredentialUntouched DEF Reconfigure
  <2>3. CASE Authorize
    <3>1. RowBecomes("ACTIVE", issued + 1)
      BY <1>1, <2>3, CredentialWrites DEF Authorize
    <3> QED BY <2>3, <3>1, UnchangedRemembers DEF Authorize, TokenStep, Authorizes
  <2>4. CASE Tick
    <3>1. SameRow
      BY <1>1, <2>4, CredentialWrites DEF Tick
    <3> QED BY <1>2, <2>4, <3>1 DEF Tick
  <2>5. CASE Passing
    <3>1. TokenNearsExpiry => SameRow
      BY <1>1, CredentialWrites
    <3> QED BY <1>2, <1>3, <2>5, <3>1, CredentialUntouched DEF Passing
  <2> QED BY <1>4, <2>1, <2>2, <2>3, <2>4, <2>5 DEF Environment
<1>5. CASE UNCHANGED vars
  BY <1>3, <1>5 DEF vars
<1> QED BY <1>4, <1>5, RequestStepRotates DEF Next

-----------------------------------------------------------------------------
(* The theorems about tokens *)

LEMMA TokensInductive == Spec => []TokensInv
<1>1. Init => TokensInv
  <2>1. Init => \A r \in Requests : request[r].step = "idle"
    BY DEF Init, Idle
  <2> QED BY <2>1 DEF Init, DbInit, TokensInv, TokensIssued, CredentialUsable, RotationsApart,
                      OwnerPresents, ReceivedKept, Carries, Rotates, Rotating, At
<1>2. TypeInv /\ TokensInv /\ [Next]_vars => TokensInv'
  BY EveryStepRotates, TypesCount, RestsKeeps, GivesUpKeeps, AuthorizesKeeps, ExchangesKeeps,
     BeginsKeeps, CompletesKeeps, DefersKeeps
  DEF TokenStep
<1> QED BY <1>1, <1>2, TypeInvariant, PTL DEF Spec

\* A credential marked ACTIVE holds a refresh token Atlassian still accepts, for
\* any number of overlapping requests, lapsed deadlines and new authorizations
\* (accessOrBeginRotation, completeOAuthRotation, deferOAuthRotation).
THEOREM StoredTokenIsUsable == Spec => []CredentialUsable
<1>1. TokensInv => CredentialUsable
  BY DEF TokensInv
<1> QED BY <1>1, TokensInductive, PTL

\* No two requests are about to present the same refresh token: the rotation
\* lease of one revision has one owner (accessOrBeginRotation).
THEOREM TokensArePresentedOnce == Spec => []SingleRefresh
<1>1. TokensInv => SingleRefresh
  BY DEF TokensInv, ReceivedKept, Carries, SingleRefresh, Token, At
<1> QED BY <1>1, TokensInductive, PTL

-----------------------------------------------------------------------------
(* The delay of a 429: the inductive invariant *)

\* Without webhooks every job is scheduled, and the source has one live job.
OneLiveJob ==
  /\ \A j \in Jobs : jobs[j].kind = "SCHEDULED"
  /\ \A i, j \in Jobs : IsLive(jobs[i]) /\ IsLive(jobs[j]) => i = j

\* A job that does not exist yet was never claimed.
NotYetClaimed == \A j \in Jobs : jobs[j].state = "ABSENT" => jobs[j].attempts = 0

\* A request has a delay to pass on only where it reports a 429.
Reports(row) == row.wait > 0 => row.step \in {"defer", "fail"} /\ row.code = "RATE_LIMITED"
WaitsReported == \A r \in Requests : Reports(request[r])

\* Job j keeps the source from being read for at least n ticks: it fences the
\* source, or it waits itself and is the only one that may be claimed.
HoldsBack(j, n) ==
  /\ jobs[j].delay >= n
  /\ \/ jobs[j].state \in {"FAILED", "EXPIRED"}
     \/ jobs[j].state = "READY" /\ \A i \in Jobs : IsLive(jobs[i]) => i = j

\* The delay Atlassian asked for is kept in a row of the table.
DelayKept == asked > 0 => \E j \in Jobs : HoldsBack(j, asked)

DelayInv == Events = {} /\ OneLiveJob /\ NotYetClaimed /\ WaitsReported /\ DelayKept

-----------------------------------------------------------------------------
(* What a step does to the jobs and to the delay *)

\* A row that keeps its delay and its claims; only a live job may expire.
Stays(old, new) ==
  /\ new.kind = old.kind /\ new.delay = old.delay /\ new.attempts = old.attempts
  /\ new.state # old.state => IsLive(old) /\ new.state = "EXPIRED"

AllStay == \A j \in Jobs : Stays(jobs[j], jobs'[j])

\* A running job is released with at least the delay that is passed on.
Released(j, wait) ==
  /\ jobs[j].state = "RUNNING"
  /\ \A i \in Jobs \ {j} : jobs'[i] = jobs[i]
  /\ jobs'[j].kind = jobs[j].kind /\ jobs'[j].attempts = jobs[j].attempts
  /\ jobs'[j].delay >= wait /\ jobs'[j].state \in {"READY", "FAILED"}

Restarted(j) ==
  /\ jobs[j].state = "RUNNING"
  /\ \A i \in Jobs \ {j} : jobs'[i] = jobs[i]
  /\ jobs'[j].kind = jobs[j].kind /\ jobs'[j].attempts = jobs[j].attempts
  /\ jobs'[j].state = "READY"

\* A running job ends, and at most one new job takes its place.
Continued(j, n) ==
  /\ jobs[j].state = "RUNNING" /\ jobs'[j].state = "COMPLETED"
  /\ jobs'[j].kind = jobs[j].kind /\ jobs'[j].attempts = jobs[j].attempts
  /\ \A i \in Jobs \ {j, n} : jobs'[i] = jobs[i]
  /\ n # j => \/ jobs'[n] = jobs[n]
              \/ /\ jobs[n].state = "ABSENT" /\ jobs'[n].state = "READY"
                 /\ jobs'[n].kind = "SCHEDULED" /\ jobs'[n].attempts = 0

Enqueued(j) ==
  /\ \A i \in Jobs : ~Fences(jobs[i]) /\ ~IsLive(jobs[i])
  /\ jobs'[j].state = "READY" /\ jobs'[j].kind = "SCHEDULED"
  /\ \A i \in Jobs \ {j} : jobs'[i] = jobs[i]

DelayStep ==
  \/ asked' = asked /\ AllStay
  \/ asked' = asked /\ \E j \in Jobs : ClaimNextJob(j)
  \/ asked' = asked /\ \E j \in Jobs : Enqueued(j) \/ Restarted(j)
  \/ asked' = asked /\ \E j, n \in Jobs : Continued(j, n)
  \/ asked' = Less(asked) /\ TickRows
  \/ \E j \in Jobs, wait \in Nat : Released(j, wait) /\ asked' = Max2(asked, wait)

\* The parts of the invariant that the job table carries.
TableInv == OneLiveJob /\ NotYetClaimed /\ DelayKept

\* While Atlassian's delay lasts nothing is claimed or enqueued.
LEMMA NothingIsClaimed ==
  ASSUME DbTypeOK, asked \in Nat, TableInv, asked > 0, NEW j \in Jobs
  PROVE  ~ClaimNextJob(j) /\ ~Enqueued(j)
<1>1. PICK h \in Jobs : HoldsBack(h, asked)
  BY DEF TableInv, DelayKept
<1>2. jobs[h] \in JobRows /\ jobs[h].delay > 0
  BY <1>1 DEF DbTypeOK, JobRows, HoldsBack
<1>3. ~Enqueued(j)
  BY <1>1, <1>2 DEF HoldsBack, Enqueued, Fences, IsLive
<1>4. ASSUME ClaimNextJob(j) PROVE FALSE
  <2>1. Candidate(Swept, j)
    BY <1>4 DEF ClaimNextJob, Claimable
  <2>2. \A i \in Jobs : Swept[i] = IF jobs[i].aged /\ IsLive(jobs[i]) THEN Expired(jobs[i])
                                                                    ELSE jobs[i]
    BY DEF Swept
  <2>3. Expired(jobs[h]).state = "EXPIRED" /\ Expired(jobs[h]).delay = jobs[h].delay
    BY <1>2 DEF Expired, JobRows
  <2>4. jobs[h].state = "READY"
    BY <1>1, <1>2, <2>1, <2>2, <2>3 DEF HoldsBack, Candidate, Fences
  <2>5. Swept[h] = jobs[h]
    BY <1>2, <2>1, <2>2, <2>3 DEF Candidate, Fences
  <2>6. IsLive(jobs[j])
    BY <2>1, <2>2 DEF Candidate, IsLive, Expired
  <2>7. j = h
    BY <1>1, <2>4, <2>6 DEF HoldsBack
  <2> QED BY <1>2, <2>1, <2>5, <2>7 DEF Candidate
<1> QED BY <1>3, <1>4

\* A row that expires or stays.
LEMMA RowsStay ==
  ASSUME DbTypeOK, NEW j \in Jobs
  PROVE  /\ Stays(jobs[j], jobs[j])
         /\ IsLive(jobs[j]) => Stays(jobs[j], Expired(jobs[j]))
         /\ Stays(jobs[j], Swept[j])
         /\ Candidate(Swept, j) => Stays(jobs[j], Expired(Swept[j]))
<1>1. jobs[j] \in JobRows
  BY DEF DbTypeOK
<1>2. /\ Stays(jobs[j], jobs[j])
      /\ IsLive(jobs[j]) => Stays(jobs[j], Expired(jobs[j]))
  BY <1>1 DEF Stays, Expired, JobRows
<1>3. Swept[j] \in {jobs[j], Expired(jobs[j])} /\ Stays(jobs[j], Swept[j])
  BY <1>1, <1>2 DEF Swept
<1>4. Candidate(Swept, j) => Swept[j] = jobs[j] /\ IsLive(jobs[j])
  BY <1>1, <1>3 DEF Candidate, Expired, JobRows, IsLive
<1> QED BY <1>2, <1>3, <1>4

\* Nothing but a live job of the table is claimed.
LEMMA ClaimStays ==
  ASSUME DbTypeOK, NEW j \in Jobs, ClaimNextJob(j)
  PROVE  /\ \A i \in Jobs \ {j} : Stays(jobs[i], jobs'[i])
         /\ IsLive(jobs[j]) /\ jobs'[j].state = "RUNNING" /\ jobs'[j].kind = jobs[j].kind
<1>1. jobs[j] \in JobRows /\ Swept[j] \in {jobs[j], Expired(jobs[j])}
  BY DEF DbTypeOK, Swept
<1>2. Candidate(Swept, j)
  BY DEF ClaimNextJob, Claimable
<1>3. Swept[j] = jobs[j] /\ IsLive(jobs[j])
  BY <1>1, <1>2 DEF Candidate, Expired, JobRows, IsLive
<1>4. jobs'[j] = Claimed(Swept[j])
  BY DEF ClaimNextJob
<1>5. jobs'[j].state = "RUNNING" /\ jobs'[j].kind = jobs[j].kind
  BY <1>1, <1>3, <1>4 DEF Claimed, JobRows
<1>6. \A i \in Jobs \ {j} :
        jobs'[i] # Swept[i] => Candidate(Swept, i) /\ jobs'[i] = Expired(Swept[i])
  BY DEF ClaimNextJob
<1> QED BY <1>3, <1>5, <1>6, RowsStay

\* Every such step preserves what the table carries.
LEMMA TableKept ==
  ASSUME DbTypeOK, DbTypeOK', asked \in Nat, TableInv, DelayStep
  PROVE  TableInv'
<1> USE DEF TableInv, OneLiveJob, NotYetClaimed, IsLive
<1>1. /\ \A j \in Jobs : jobs[j] \in JobRows /\ jobs[j].delay \in Nat /\ jobs'[j].delay \in Nat
  BY DEF DbTypeOK, JobRows
<1>2. CASE asked' = asked /\ AllStay
  <2>1. OneLiveJob' /\ NotYetClaimed'
    BY <1>2 DEF AllStay, Stays
  <2>2. \A j \in Jobs : HoldsBack(j, asked) => HoldsBack(j, asked)'
    BY <1>2 DEF AllStay, Stays, HoldsBack
  <2> QED BY <1>2, <2>1, <2>2 DEF DelayKept
<1>3. ASSUME asked' = asked, NEW j \in Jobs, ClaimNextJob(j) PROVE TableInv'
  <2>1. OneLiveJob' /\ NotYetClaimed'
    BY <1>3, ClaimStays DEF Stays
  <2> QED BY <1>3, <2>1, NothingIsClaimed DEF DelayKept
<1>4. ASSUME asked' = asked, NEW j \in Jobs, Enqueued(j) PROVE TableInv'
  <2>1. OneLiveJob' /\ NotYetClaimed'
    BY <1>4 DEF Enqueued
  <2> QED BY <1>4, <2>1, NothingIsClaimed DEF DelayKept
<1>5. ASSUME asked' = asked, NEW j \in Jobs, Restarted(j) PROVE TableInv'
  <2>1. OneLiveJob' /\ NotYetClaimed'
    BY <1>5 DEF Restarted
  <2>2. \A h \in Jobs : HoldsBack(h, asked) => HoldsBack(h, asked)'
    BY <1>5 DEF Restarted, HoldsBack
  <2> QED BY <1>5, <2>1, <2>2 DEF DelayKept
<1>6. ASSUME asked' = asked, NEW j \in Jobs, NEW n \in Jobs, Continued(j, n) PROVE TableInv'
  <2>1. OneLiveJob' /\ NotYetClaimed'
    BY <1>6 DEF Continued
  <2>2. \A h \in Jobs : HoldsBack(h, asked) => HoldsBack(h, asked)'
    BY <1>6 DEF Continued, HoldsBack
  <2> QED BY <1>6, <2>1, <2>2 DEF DelayKept
<1>7. CASE asked' = Less(asked) /\ TickRows
  <2>1. \A j \in Jobs : /\ jobs'[j].state = jobs[j].state /\ jobs'[j].kind = jobs[j].kind
                        /\ jobs'[j].attempts = jobs[j].attempts
                        /\ jobs'[j].delay = Less(jobs[j].delay)
    BY <1>1, <1>7 DEF TickRows, JobRows
  <2>2. OneLiveJob' /\ NotYetClaimed'
    BY <2>1
  <2>3. \A a, b \in Nat : a >= b => Less(a) >= Less(b)
    BY DEF Less
  <2>4. asked' > 0 => asked > 0
    BY <1>7 DEF Less
  <2>5. \A h \in Jobs : HoldsBack(h, asked) => HoldsBack(h, asked)'
    BY <1>1, <1>7, <2>1, <2>3 DEF HoldsBack
  <2> QED BY <2>2, <2>4, <2>5 DEF DelayKept
<1>8. ASSUME NEW j \in Jobs, NEW wait \in Nat, Released(j, wait), asked' = Max2(asked, wait)
      PROVE  TableInv'
  <2>1. OneLiveJob' /\ NotYetClaimed'
    BY <1>8 DEF Released
  <2>2. ASSUME asked' # wait PROVE DelayKept'
    <3>1. asked' = asked
      BY <1>8, <2>2 DEF Max2
    <3>2. \A h \in Jobs : HoldsBack(h, asked) => HoldsBack(h, asked)'
      BY <1>8, <3>1 DEF Released, HoldsBack
    <3> QED BY <3>1, <3>2 DEF DelayKept
  <2>3. HoldsBack(j, wait)'
    BY <1>8, <2>1 DEF Released, HoldsBack
  <2> QED BY <2>1, <2>2, <2>3 DEF DelayKept
<1> QED BY <1>2, <1>3, <1>4, <1>5, <1>6, <1>7, <1>8 DEF DelayStep

\* While it lasts, no claim is counted.
LEMMA NoneClaimed ==
  ASSUME DbTypeOK, asked \in Nat, TableInv, DelayStep, asked > 0
  PROVE  \A j \in Jobs : jobs'[j].attempts = jobs[j].attempts
<1>1. TickRows => \A j \in Jobs : jobs'[j].attempts = jobs[j].attempts
  BY DEF TickRows, DbTypeOK, JobRows
<1>2. \A j, n \in Jobs : Continued(j, n) => \A i \in Jobs : jobs'[i].attempts = jobs[i].attempts
  BY DEF Continued, TableInv, NotYetClaimed
<1>3. \A j \in Jobs : Restarted(j) => \A i \in Jobs : jobs'[i].attempts = jobs[i].attempts
  BY DEF Restarted
<1>4. \A j \in Jobs, wait \in Nat :
        Released(j, wait) => \A i \in Jobs : jobs'[i].attempts = jobs[i].attempts
  BY DEF Released
<1> QED BY <1>1, <1>2, <1>3, <1>4, NothingIsClaimed DEF DelayStep, AllStay, Stays

-----------------------------------------------------------------------------
(* What a step does to the delays the requests report *)

LEMMA RowReports ==
  ASSUME RequestOK, WaitsReported, NEW r \in Requests, NEW row, Reports(row),
         request' = [request EXCEPT ![r] = row]
  PROVE  WaitsReported'
<1>1. request'[r] = row /\ \A s \in Requests \ {r} : request'[s] = request[s]
  BY DEF RequestOK
<1> QED BY <1>1 DEF WaitsReported

LEMMA UnchangedReports ==
  ASSUME WaitsReported, UNCHANGED request
  PROVE  WaitsReported'
BY DEF WaitsReported

LEMMA FailureWaits ==
  ASSUME NEW f \in Failures
  PROVE  f.wait > 0 => f.code = "RATE_LIMITED"
BY DEF Failures

\* What a request leaves behind when it ends, fails or goes on.
LEMMA StepReports ==
  ASSUME RequestOK, WaitsReported, NEW r \in Requests
  PROVE  /\ Done(r) => WaitsReported'
         /\ \A code, wait, caught :
              Failing(r, code, wait, caught) /\ (wait > 0 => code = "RATE_LIMITED")
              => WaitsReported'
         /\ \A claimed : Refused(r, claimed) => WaitsReported'
         /\ \A step : ~(request[r].wait > 0) /\ Goto(r, step) => WaitsReported'
         /\ Goto(r, "fail") => WaitsReported'
         /\ \A f \in Failures : RotationFailed(r, f) => WaitsReported'
<1>1. request[r] \in RequestRecords /\ Reports(request[r])
  BY DEF RequestOK, WaitsReported
<1>2. ASSUME Done(r) PROVE WaitsReported'
  <2>1. Reports(Idle)
    BY DEF Reports, Idle
  <2> QED BY <1>2, <2>1, RowReports DEF Done
<1>3. ASSUME NEW code, NEW wait, NEW caught, Failing(r, code, wait, caught),
             wait > 0 => code = "RATE_LIMITED"
      PROVE  WaitsReported'
  <2> DEFINE row == [Idle EXCEPT !.step = "fail", !.job = Job(r), !.claim = Claim(r),
                                 !.code = code, !.wait = wait, !.caught = caught]
  <2>1. row.step = "fail" /\ row.code = code /\ row.wait = wait
    BY DEF Idle
  <2>2. request' = [request EXCEPT ![r] = row]
    BY <1>3 DEF Failing
  <2> HIDE DEF row
  <2>3. Reports(row)
    BY <1>3, <2>1 DEF Reports
  <2> QED BY <2>2, <2>3, RowReports
<1>4. \A claimed : Refused(r, claimed) => WaitsReported'
  <2>1. ~(0 > 0)
    OBVIOUS
  <2> QED BY <1>3, <2>1 DEF Refused
<1>5. ASSUME NEW step, Goto(r, step), request[r].wait > 0 => step = "fail" PROVE WaitsReported'
  <2> DEFINE row == [request[r] EXCEPT !.step = step]
  <2>1. /\ request' = [request EXCEPT ![r] = row]
        /\ row.step = step /\ row.wait = request[r].wait /\ row.code = request[r].code
    BY <1>1, <1>5 DEF RequestOK, RequestRecords, Goto
  <2> HIDE DEF row
  <2>2. Reports(row)
    BY <1>1, <1>5, <2>1 DEF Reports
  <2> QED BY <2>1, <2>2, RowReports
<1>6. ASSUME NEW f \in Failures, RotationFailed(r, f) PROVE WaitsReported'
  <2> DEFINE step == IF f.code = "RATE_LIMITED" THEN "defer" ELSE "abandon"
             row == [request[r] EXCEPT !.step = step, !.code = f.code, !.wait = f.wait]
  <2>1. f.wait > 0 => step = "defer" /\ f.code = "RATE_LIMITED"
    BY FailureWaits
  <2> HIDE DEF step
  <2>2. row.step = step /\ row.wait = f.wait /\ row.code = f.code
    BY <1>1 DEF RequestRecords
  <2>3. request' = [request EXCEPT ![r] = row]
    BY <1>6 DEF RequestOK, RotationFailed, step
  <2> HIDE DEF row
  <2>4. Reports(row)
    BY <2>1, <2>2 DEF Reports
  <2> QED BY <2>3, <2>4, RowReports
<1> QED BY <1>2, <1>3, <1>4, <1>5, <1>6

\* Requests at every step but two have no delay.
LEMMA NoWait ==
  ASSUME WaitsReported, NEW r \in Requests, request[r].step \notin {"defer", "fail"}
  PROVE  ~(request[r].wait > 0)
BY DEF WaitsReported, Reports

-----------------------------------------------------------------------------
(* Every step is one of them *)

\* The transactions that leave every delay and every claim as they are.
LEMMA TransactionsStay ==
  ASSUME DbTypeOK
  PROVE  /\ UNCHANGED jobs => AllStay
         /\ ClaimNothing => AllStay
         /\ \A j \in Jobs : JobAges(j) => AllStay
         /\ \A j \in Jobs : jobs[j].state = "RUNNING" /\ ExpireRunningJob(j) => AllStay
         /\ \A connector : Configure(connector) => AllStay
<1>1. \A j \in Jobs : jobs[j] \in JobRows
  BY DEF DbTypeOK
<1>2. UNCHANGED jobs => AllStay
  BY DEF AllStay, Stays
<1>3. ASSUME ClaimNothing PROVE AllStay
  <2>1. \A i \in Jobs :
          jobs'[i] # Swept[i] => Candidate(Swept, i) /\ jobs'[i] = Expired(Swept[i])
    BY <1>3 DEF ClaimNothing
  <2> QED BY <2>1, RowsStay DEF AllStay
<1>4. ASSUME NEW j \in Jobs, JobAges(j) PROVE AllStay
  BY <1>1, <1>4 DEF JobAges, AllStay, Stays, JobRows
<1>5. ASSUME NEW j \in Jobs, jobs[j].state = "RUNNING", ExpireRunningJob(j) PROVE AllStay
  <2>1. IsLive(jobs[j]) /\ jobs' = [jobs EXCEPT ![j] = Expired(jobs[j])]
    BY <1>5 DEF IsLive, ExpireRunningJob
  <2>2. \A i \in Jobs : jobs'[i] = IF i = j THEN Expired(jobs[j]) ELSE jobs[i]
    BY <2>1 DEF DbTypeOK
  <2> QED BY <2>1, <2>2, RowsStay DEF AllStay
<1>6. ASSUME NEW connector, Configure(connector) PROVE AllStay
  <2>1. \A i \in Jobs : jobs'[i] = IF IsLive(jobs[i]) THEN Expired(jobs[i]) ELSE jobs[i]
    BY <1>6 DEF Configure
  <2> QED BY <2>1, RowsStay DEF AllStay
<1> QED BY <1>2, <1>3, <1>4, <1>5, <1>6

\* The transactions of the claim of a running job.
LEMMA TransactionsRelease ==
  ASSUME DbTypeOK, NEW j \in Jobs
  PROVE  /\ EnqueueDueJobs(j) => Enqueued(j)
         /\ jobs[j].state = "RUNNING" /\ ResetConnectorCursorForJob(j) => Restarted(j)
         /\ \A n \in Jobs : \A page :
              jobs[j].state = "RUNNING" /\ PersistConnectorPageForJob(j, n, page)
              => Continued(j, n)
         /\ \A code \in Codes, wait \in Nat :
              /\ jobs[j].state = "RUNNING" /\ FailRunningJob(j, code, wait)
              /\ wait > 0 => code = "RATE_LIMITED"
              => Released(j, wait)
         /\ \A wait \in Nat : jobs[j].state = "RUNNING" /\ DeferOAuthRotation(j, wait)
              => Released(j, wait)
<1>1. \A i \in Jobs : jobs[i] \in JobRows
  BY DEF DbTypeOK
<1>2. \A kind, reset : /\ NewJob(kind, reset).state = "READY" /\ NewJob(kind, reset).kind = kind
                       /\ NewJob(kind, reset).attempts = 0
  BY DEF NewJob, NoJob
<1>3. EnqueueDueJobs(j) => Enqueued(j)
  BY <1>2 DEF EnqueueDueJobs, SourceDue, Enqueued, DbTypeOK
<1>4. ASSUME jobs[j].state = "RUNNING", ResetConnectorCursorForJob(j) PROVE Restarted(j)
  <2>1. jobs' = [jobs EXCEPT ![j] = [jobs[j] EXCEPT !.state = "READY", !.resetCompleted = TRUE,
                                                    !.lease = 0, !.delay = 0]]
    BY <1>4 DEF DbTypeOK, ResetConnectorCursorForJob
  <2> QED BY <1>1, <1>4, <2>1 DEF Restarted, DbTypeOK, JobRows
<1>5. ASSUME NEW n \in Jobs, NEW page, jobs[j].state = "RUNNING",
             PersistConnectorPageForJob(j, n, page)
      PROVE  Continued(j, n)
  <2>1. /\ jobs'[j] = [jobs[j] EXCEPT !.state = "COMPLETED", !.lease = 0]
        /\ \A i \in Jobs \ {j, n} : jobs'[i] = jobs[i]
        /\ n # j => \/ jobs'[n] = jobs[n]
                    \/ jobs[n].state = "ABSENT" /\ jobs'[n] = NewJob("SCHEDULED", FALSE)
    BY <1>5 DEF PersistConnectorPageForJob, IsNextRow
  <2>2. /\ jobs'[j].state = "COMPLETED" /\ jobs'[j].kind = jobs[j].kind
        /\ jobs'[j].attempts = jobs[j].attempts
    BY <1>1, <2>1 DEF JobRows
  <2>3. n # j => \/ jobs'[n] = jobs[n]
                 \/ /\ jobs[n].state = "ABSENT" /\ jobs'[n].state = "READY"
                    /\ jobs'[n].kind = "SCHEDULED" /\ jobs'[n].attempts = 0
    BY <2>1 DEF NewJob, NoJob
  <2> QED BY <1>5, <2>1, <2>2, <2>3 DEF Continued
<1>6. \A wait \in Nat : Max2(wait, Backoff) \in Nat /\ Max2(wait, Backoff) >= wait
  BY ConnectorAssumption DEF ConnectorAssumption, Max2
<1>7. ASSUME NEW code \in Codes, NEW wait \in Nat, jobs[j].state = "RUNNING",
             FailRunningJob(j, code, wait), wait > 0 => code = "RATE_LIMITED"
      PROVE  Released(j, wait)
  <2> DEFINE delay == IF code \in Retryable THEN Max2(wait, Backoff) ELSE 0
             state == IF WillRetry(j, code) THEN "READY" ELSE "FAILED"
  <2>1. jobs' = [jobs EXCEPT ![j] = [jobs[j] EXCEPT !.state = state, !.lease = 0, !.delay = delay]]
    BY <1>7 DEF DbTypeOK, FailRunningJob
  <2>2. delay >= wait /\ state \in {"READY", "FAILED"}
    BY <1>6, <1>7 DEF Retryable
  <2> HIDE DEF delay, state
  <2>3. /\ jobs'[j].kind = jobs[j].kind /\ jobs'[j].attempts = jobs[j].attempts
        /\ jobs'[j].delay = delay /\ jobs'[j].state = state
        /\ \A i \in Jobs \ {j} : jobs'[i] = jobs[i]
    BY <1>1, <2>1 DEF DbTypeOK, JobRows
  <2> QED BY <1>7, <2>2, <2>3 DEF Released
<1>8. ASSUME NEW wait \in Nat, jobs[j].state = "RUNNING", DeferOAuthRotation(j, wait)
      PROVE  Released(j, wait)
  <2> DEFINE delay == Max2(wait, Backoff)
             state == IF jobs[j].attempts < RetryBudget THEN "READY" ELSE "FAILED"
  <2>1. jobs' = [jobs EXCEPT ![j] = [jobs[j] EXCEPT !.state = state, !.lease = 0, !.delay = delay]]
    BY <1>8 DEF DbTypeOK, DeferOAuthRotation
  <2>2. delay >= wait /\ state \in {"READY", "FAILED"}
    BY <1>6
  <2> HIDE DEF delay, state
  <2>3. /\ jobs'[j].kind = jobs[j].kind /\ jobs'[j].attempts = jobs[j].attempts
        /\ jobs'[j].delay = delay /\ jobs'[j].state = state
        /\ \A i \in Jobs \ {j} : jobs'[i] = jobs[i]
    BY <1>1, <2>1 DEF DbTypeOK, JobRows
  <2> QED BY <1>8, <2>2, <2>3 DEF Released
<1> QED BY <1>3, <1>4, <1>5, <1>7, <1>8

LEMMA RequestStepDelays ==
  ASSUME TypeInv, OneLiveJob, WaitsReported, NEW r \in Requests, Step(r) \/ Stop(r)
  PROVE  DelayStep /\ WaitsReported'
<1>1. /\ DbTypeOK /\ RequestOK
      /\ request[r].code \in Codes /\ request[r].wait \in Nat
      /\ Reports(request[r])
  BY DEF TypeInv, TypeOK, RequestOK, RequestRecords, WaitsReported
<1>2. \A step \in Steps \ {"idle"} : At(r, step) => Job(r) \in Jobs
  BY <1>1 DEF RequestOK, Busy, At
<1>3. ASSUME UNCHANGED jobs, UNCHANGED asked PROVE DelayStep
  BY <1>1, <1>3, TransactionsStay DEF DelayStep
<1>4. ASSUME UNCHANGED dbVars, UNCHANGED asked PROVE DelayStep
  BY <1>3, <1>4 DEF dbVars
<1>5. \A step \in Steps \ {"defer", "fail"} : At(r, step) => ~(request[r].wait > 0)
  BY NoWait DEF At
<1>6. CASE Enqueue(r)
  <2>1. PICK j \in Jobs : EnqueueDueJobs(j)
    BY <1>6 DEF Enqueue
  <2>2. Enqueued(j)
    BY <1>1, <2>1, TransactionsRelease
  <2>3. asked' = asked /\ UNCHANGED request
    BY <1>6 DEF Enqueue
  <2> QED BY <2>2, <2>3, UnchangedReports DEF DelayStep
<1>7. CASE ClaimJob(r)
  <2>1. DelayStep
    BY <1>1, <1>7, TransactionsStay DEF ClaimJob, DelayStep
  <2>2. ASSUME NEW j \in Jobs,
               request' = [request EXCEPT ![r].step = "snapshot", ![r].job = j,
                                          ![r].claim = jobs[j].attempts + 1]
        PROVE  WaitsReported'
    <3> DEFINE row == [request[r] EXCEPT !.step = "snapshot", !.job = j,
                                         !.claim = jobs[j].attempts + 1]
    <3>1. request' = [request EXCEPT ![r] = row] /\ row.wait = request[r].wait
      BY <1>1, <2>2 DEF RequestOK, RequestRecords
    <3> HIDE DEF row
    <3>2. ~(request[r].wait > 0)
      BY <1>5, <1>7 DEF ClaimJob, Steps
    <3>3. Reports(row)
      BY <3>1, <3>2 DEF Reports
    <3> QED BY <1>1, <3>1, <3>3, RowReports
  <2> QED BY <1>7, <2>1, <2>2, UnchangedReports DEF ClaimJob
<1>8. CASE ReadConnectorSyncSnapshot(r)
  <2> DEFINE next == [request EXCEPT
                        ![r].step = "access",
                        ![r].expected = [config |-> source.config,
                                         revision |-> source.revision,
                                         generation |-> source.generation],
                        ![r].cursor = source.cursor]
  <2>1. Goto(r, "reset") \/ request' = next \/ \E claimed : Refused(r, claimed)
    BY <1>8 DEF ReadConnectorSyncSnapshot
  <2>2. ~(request[r].wait > 0)
    BY <1>5, <1>8 DEF ReadConnectorSyncSnapshot, Steps
  <2>3. ASSUME request' = next PROVE WaitsReported'
    <3> DEFINE row == next[r]
    <3>1. row.wait = request[r].wait /\ request' = [request EXCEPT ![r] = row]
      BY <1>1, <2>3 DEF RequestOK, RequestRecords
    <3> HIDE DEF row
    <3>2. Reports(row)
      BY <2>2, <3>1 DEF Reports
    <3> QED BY <1>1, <3>1, <3>2, RowReports
  <2> HIDE DEF next
  <2>4. WaitsReported'
    BY <1>1, <2>1, <2>2, <2>3, StepReports
  <2>5. DelayStep
    BY <1>4, <1>8 DEF ReadConnectorSyncSnapshot
  <2> QED BY <2>4, <2>5
<1>9. CASE Reset(r)
  <2>1. Job(r) \in Jobs
    BY <1>2, <1>9 DEF Reset, Steps
  <2>2. \/ UNCHANGED dbVars
        \/ jobs[Job(r)].state = "RUNNING" /\ ResetConnectorCursorForJob(Job(r))
    BY <1>9 DEF Reset, ResetAllowed, AppClaim, Holds
  <2>3. asked' = asked
    BY <1>9 DEF Reset
  <2>4. DelayStep
    BY <1>1, <1>4, <2>1, <2>2, <2>3, TransactionsRelease DEF DelayStep
  <2>5. WaitsReported'
    BY <1>1, <1>9, StepReports DEF Reset
  <2> QED BY <2>4, <2>5
<1>10. CASE AccessOrBeginRotation(r)
  <2>1. UNCHANGED jobs /\ UNCHANGED asked
    BY <1>10 DEF AccessOrBeginRotation, dbVars, AbandonLapsedRotation, BeginRotation
  <2>2. ~(request[r].wait > 0)
    BY <1>5, <1>10 DEF AccessOrBeginRotation, Steps
  <2>3. ASSUME request' = [request EXCEPT
                   ![r].step = "refresh",
                   ![r].rotation = [operation |-> credential'.operation,
                                    revision |-> credential'.revision,
                                    config |-> source.config],
                   ![r].token = credential.token]
        PROVE  WaitsReported'
    <3> DEFINE row == [request[r] EXCEPT
                         !.step = "refresh",
                         !.rotation = [operation |-> credential'.operation,
                                       revision |-> credential'.revision,
                                       config |-> source.config],
                         !.token = credential.token]
    <3>1. request' = [request EXCEPT ![r] = row] /\ row.wait = request[r].wait
      BY <1>1, <2>3 DEF RequestOK, RequestRecords
    <3> HIDE DEF row
    <3>2. Reports(row)
      BY <2>2, <3>1 DEF Reports
    <3> QED BY <1>1, <3>1, <3>2, RowReports
  <2>4. \/ \E code, wait, caught : Failing(r, code, wait, caught) /\ wait = 0
        \/ Refused(r, TRUE) \/ Goto(r, "fetch")
        \/ request' = [request EXCEPT
                   ![r].step = "refresh",
                   ![r].rotation = [operation |-> credential'.operation,
                                    revision |-> credential'.revision,
                                    config |-> source.config],
                   ![r].token = credential.token]
    BY <1>10 DEF AccessOrBeginRotation
  <2>5. WaitsReported'
    <3>1. ~(0 > 0)
      OBVIOUS
    <3>2. \A code, wait, caught : Failing(r, code, wait, caught) /\ wait = 0 => WaitsReported'
      BY <1>1, <3>1, StepReports
    <3> QED BY <1>1, <2>2, <2>3, <2>4, <3>2, StepReports
  <2> QED BY <1>3, <2>1, <2>5
<1>11. CASE RefreshToken(r)
  <2>1. DelayStep
    BY <1>4, <1>11 DEF RefreshToken
  <2>2. ~(request[r].wait > 0)
    BY <1>5, <1>11 DEF RefreshToken, Steps
  <2>3. ASSUME request' = [request EXCEPT ![r].step = "complete", ![r].token = issued + 1]
        PROVE  WaitsReported'
    <3> DEFINE row == [request[r] EXCEPT !.step = "complete", !.token = issued + 1]
    <3>1. request' = [request EXCEPT ![r] = row] /\ row.wait = request[r].wait
      BY <1>1, <2>3 DEF RequestOK, RequestRecords
    <3> HIDE DEF row
    <3>2. Reports(row)
      BY <2>2, <3>1 DEF Reports
    <3> QED BY <1>1, <3>1, <3>2, RowReports
  <2>4. ASSUME RotationFailed(r, [code |-> "TEMPORARILY_UNAVAILABLE", wait |-> 0])
        PROVE  WaitsReported'
    <3> DEFINE row == [request[r] EXCEPT !.step = "abandon", !.code = "TEMPORARILY_UNAVAILABLE",
                                         !.wait = 0]
    <3>1. request' = [request EXCEPT ![r] = row] /\ row.wait = 0
      BY <1>1, <2>4 DEF RequestOK, RequestRecords, RotationFailed
    <3> HIDE DEF row
    <3>2. Reports(row)
      BY <3>1 DEF Reports
    <3> QED BY <1>1, <3>1, <3>2, RowReports
  <2>5. \A f \in Failures : RotationFailed(r, f) => WaitsReported'
    BY <1>1, StepReports
  <2>6. WaitsReported'
    BY <1>11, <2>3, <2>4, <2>5 DEF RefreshToken
  <2> QED BY <2>1, <2>6
<1>12. CASE CompleteRotation(r)
  <2>1. UNCHANGED jobs /\ UNCHANGED asked
    BY <1>12 DEF CompleteRotation, dbVars, CompleteOAuthRotation, CompleteStaleRotation
  <2>2. ~(request[r].wait > 0)
    BY <1>5, <1>12 DEF CompleteRotation, Steps
  <2>3. ASSUME NEW code, request' = [request EXCEPT ![r].step = "abandon", ![r].code = code]
        PROVE  WaitsReported'
    <3> DEFINE row == [request[r] EXCEPT !.step = "abandon", !.code = code]
    <3>1. request' = [request EXCEPT ![r] = row] /\ row.wait = request[r].wait
      BY <1>1, <2>3 DEF RequestOK, RequestRecords
    <3> HIDE DEF row
    <3>2. Reports(row)
      BY <2>2, <3>1 DEF Reports
    <3> QED BY <1>1, <3>1, <3>2, RowReports
  <2>4. Goto(r, "verify") => WaitsReported'
    BY <1>1, <2>2, StepReports
  <2>5. WaitsReported'
    BY <1>12, <2>3, <2>4 DEF CompleteRotation
  <2> QED BY <1>3, <2>1, <2>5
<1>13. CASE VerifyResources(r)
  <2>1. DelayStep
    BY <1>4, <1>13 DEF VerifyResources
  <2>2. ~(request[r].wait > 0)
    BY <1>5, <1>13 DEF VerifyResources, Steps
  <2>3. Goto(r, "fetch") => WaitsReported'
    BY <1>1, <2>2, StepReports
  <2>4. \A f \in Failures : RotationFailed(r, f) => WaitsReported'
    BY <1>1, StepReports
  <2>5. WaitsReported'
    BY <1>13, <2>3, <2>4 DEF VerifyResources
  <2> QED BY <2>1, <2>5
<1>14. CASE AbandonRotation(r)
  <2>1. UNCHANGED jobs /\ UNCHANGED asked
    BY <1>14 DEF AbandonRotation, dbVars, FailOAuthRotation
  <2>2. WaitsReported'
    BY <1>1, <1>14, StepReports DEF AbandonRotation
  <2> QED BY <1>3, <2>1, <2>2
<1>15. CASE DeferRotation(r)
  <2>1. Job(r) \in Jobs
    BY <1>2, <1>15 DEF DeferRotation, Steps
  <2>2. WaitsReported'
    BY <1>1, <1>15, StepReports DEF DeferRotation
  <2>3. ASSUME DeferAllowed(Job(r), Claim(r), request[r].rotation),
               DeferOAuthRotation(Job(r), request[r].wait), Asked(r)
        PROVE  DelayStep
    <3>1. jobs[Job(r)].state = "RUNNING"
      BY <2>3 DEF DeferAllowed, LiveClaim, Holds
    <3>2. Released(Job(r), request[r].wait)
      BY <1>1, <2>1, <2>3, <3>1, TransactionsRelease
    <3> QED BY <1>1, <2>1, <2>3, <3>2 DEF DelayStep, Asked
  <2>4. ~ReadyRefused(Job(r))
    BY <2>1 DEF OneLiveJob, ReadyRefused
  <2>5. DelayStep
    BY <1>4, <1>15, <2>3, <2>4 DEF DeferRotation
  <2> QED BY <2>2, <2>5
<1>16. CASE PullChanges(r)
  <2>1. DelayStep
    BY <1>4, <1>16 DEF PullChanges
  <2>2. ~(request[r].wait > 0)
    BY <1>5, <1>16 DEF PullChanges, Steps
  <2>3. Goto(r, "persist") => WaitsReported'
    BY <1>1, <2>2, StepReports
  <2>4. \A f \in Failures, caught \in BOOLEAN :
          Failing(r, f.code, f.wait, caught) => WaitsReported'
    BY <1>1, FailureWaits, StepReports
  <2>5. WaitsReported'
    BY <1>16, <2>3, <2>4 DEF PullChanges
  <2> QED BY <2>1, <2>5
<1>17. CASE Persist(r)
  <2>1. Job(r) \in Jobs
    BY <1>2, <1>17 DEF Persist, Steps
  <2>2. \/ UNCHANGED dbVars
        \/ /\ jobs[Job(r)].state = "RUNNING"
           /\ \E n \in Jobs : PersistConnectorPageForJob(Job(r), n, request[r].cursor + 1)
    BY <1>17 DEF Persist, PersistAllowed, AppClaim, Holds
  <2>3. asked' = asked
    BY <1>17 DEF Persist
  <2>4. DelayStep
    BY <1>1, <1>4, <2>1, <2>2, <2>3, TransactionsRelease DEF DelayStep
  <2>5. WaitsReported'
    BY <1>1, <1>17, StepReports DEF Persist
  <2> QED BY <2>4, <2>5
<1>18. CASE Fail(r)
  <2>1. Job(r) \in Jobs
    BY <1>2, <1>18 DEF Fail, Steps
  <2>2. WaitsReported'
    BY <1>1, <1>18, StepReports DEF Fail
  <2>3. ASSUME LiveClaim(Job(r), Claim(r)), ExpireRunningJob(Job(r)), UNCHANGED asked
        PROVE  DelayStep
    <3>1. jobs[Job(r)].state = "RUNNING"
      BY <2>3 DEF LiveClaim, Holds
    <3> QED BY <1>1, <2>1, <2>3, <3>1, TransactionsStay DEF DelayStep
  <2>4. ASSUME LiveClaim(Job(r), Claim(r)),
               FailRunningJob(Job(r), request[r].code, request[r].wait), Asked(r)
        PROVE  DelayStep
    <3>1. jobs[Job(r)].state = "RUNNING"
      BY <2>4 DEF LiveClaim, Holds
    <3>2. request[r].wait > 0 => request[r].code = "RATE_LIMITED"
      BY <1>1 DEF Reports
    <3>3. Released(Job(r), request[r].wait)
      BY <1>1, <2>1, <2>4, <3>1, <3>2, TransactionsRelease
    <3> QED BY <1>1, <2>1, <2>4, <3>3 DEF DelayStep, Asked
  <2>5. ~ReadyRefused(Job(r))
    BY <2>1 DEF OneLiveJob, ReadyRefused
  <2>6. DelayStep
    BY <1>4, <1>18, <2>3, <2>4, <2>5 DEF Fail
  <2> QED BY <2>2, <2>6
<1>19. CASE Stop(r)
  <2>1. DelayStep
    BY <1>4, <1>19 DEF Stop
  <2>2. WaitsReported'
    BY <1>1, <1>19, StepReports DEF Stop
  <2> QED BY <2>1, <2>2
<1> QED
  BY <1>6, <1>7, <1>8, <1>9, <1>10, <1>11, <1>12, <1>13, <1>14, <1>15, <1>16, <1>17, <1>18,
     <1>19
  DEF Step

LEMMA EveryStepDelays ==
  ASSUME TypeInv, DelayInv, [Next]_vars
  PROVE  DelayStep /\ WaitsReported'
<1>1. DbTypeOK /\ Events = {} /\ OneLiveJob /\ WaitsReported
  BY DEF TypeInv, TypeOK, DelayInv
<1>2. CASE Environment
  <2>1. WaitsReported'
    <3>1. UNCHANGED request
      BY <1>2 DEF Environment, Deliver, Reconfigure, Authorize, Tick, Passing
    <3> QED BY <1>1, <3>1, UnchangedReports
  <2>2. CASE Reconfigure
    BY <1>1, <2>1, <2>2, TransactionsStay DEF Reconfigure, DelayStep
  <2>3. CASE Authorize
    BY <1>1, <2>1, <2>3, TransactionsStay DEF Authorize, SetOAuthCredential, DelayStep
  <2>4. CASE Tick
    BY <2>1, <2>4 DEF Tick, DelayStep
  <2>5. CASE Passing
    BY <1>1, <2>1, <2>5, TransactionsStay DEF Passing, SlotBegins, TokenNearsExpiry, DelayStep
  <2> QED BY <1>1, <1>2, <2>1, <2>2, <2>3, <2>4, <2>5 DEF Environment
<1>3. CASE UNCHANGED vars
  BY <1>1, <1>3, TransactionsStay, UnchangedReports DEF vars, DelayStep
<1> QED BY <1>1, <1>2, <1>3, RequestStepDelays DEF Next

LEMMA DelayInductive == Events = {} /\ Spec => []DelayInv
<1>1. Events = {} /\ Init => DelayInv
  BY DEF Init, DbInit, NoJob, Idle, DelayInv, OneLiveJob, NotYetClaimed, WaitsReported, Reports,
         DelayKept, IsLive
<1>2. ASSUME TypeInv, TypeInv', DelayInv, [Next]_vars PROVE DelayInv'
  <2>1. DelayStep /\ WaitsReported'
    BY <1>2, EveryStepDelays
  <2>2. DbTypeOK /\ DbTypeOK' /\ asked \in Nat /\ TableInv
    BY <1>2 DEF TypeInv, TypeOK, DelayInv, TableInv
  <2>3. TableInv'
    BY <2>1, <2>2, TableKept
  <2> QED BY <1>2, <2>1, <2>3 DEF DelayInv, TableInv
<1> QED BY <1>1, <1>2, TypeInvariant, PTL DEF Spec

\* While the delay Atlassian asked for has not passed, no job of the source is
\* claimed, for any overlap of requests, retries, expiries and reconfigurations,
\* as long as no webhook arrives (failRunningJob, deferOAuthRotation,
\* claimNextJob).  With webhooks it does not hold.
THEOREM DelaysAreHonoured == Events = {} /\ Spec => RetryAfterHonoured
<1>1. ASSUME TypeInv, DelayInv, [Next]_vars
      PROVE  [asked > 0 => \A j \in Jobs : jobs'[j].attempts = jobs[j].attempts]_vars
  <2>1. DelayStep
    BY <1>1, EveryStepDelays
  <2> QED BY <1>1, <2>1, NoneClaimed DEF TypeInv, TypeOK, DelayInv, TableInv
<1> QED BY <1>1, DelayInductive, TypeInvariant, PTL DEF Spec, RetryAfterHonoured
=============================================================================
