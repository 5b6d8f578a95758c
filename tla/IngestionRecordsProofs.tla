----------------------- MODULE IngestionRecordsProofs -----------------------
(***************************************************************************)
(* Theorems about IngestionRecords, for any number of calls, operators,    *)
(* keys, versions, receipts, configurations and hours of retention.        *)
(***************************************************************************)
EXTENDS IngestionRecords, SequenceTheorems, FiniteSetTheorems, TLAPS

-----------------------------------------------------------------------------
(* The inductive invariant *)

\* A mapping revision is as old as a configuration, so it never runs ahead.
MappingsInOrder == \A i \in DOMAIN configs : configs[i].mapping <= i

\* A request is about a configuration that was there; a reset carries nothing
\* and an import picks rows of a preview.
RequestSound(request) ==
  /\ request.config \in 0 .. source.config
  /\ request.kind = "SYNC_RESET" => request.rows = {} /\ ~request.terminal
  /\ request.kind = "CSV_REVIEWED_IMPORT" =>
       /\ request.parent \in DOMAIN receipts
       /\ receipts[request.parent].request.kind = "CSV_PREVIEW"
       /\ request.rows \subseteq receipts[request.parent].request.rows

RequestsSound == \A s \in Sessions : RequestSound(Request(s))

ReceiptsDated ==
  \A n \in DOMAIN receipts : receipts[n].request.config \in 1 .. source.config

\* The audit event of the policy is the one of its last change, and purged
\* content was expired under it.
PurgedIsExpired ==
  /\ policy.audit = policy.revision
  /\ \A v \in Versions, m \in Mappings :
       content[v][m] = "redacted" => policy.revision > 0 /\ Expired(v)

\* A cursor that can be continued was left by the last page or reset, under
\* the configuration of today.
LastMove(p) == p \in Moves /\ \A i \in Moves : i <= p
CursorHead ==
  source.state = "READY" =>
    \E p \in Moves : /\ LastMove(p) /\ ~receipts[p].request.terminal
                     /\ receipts[p].request.config = source.config

Shape == TypeOK /\ MappingsInOrder
Calls == Shape /\ RequestsSound /\ ReceiptsDated
IInv ==
  /\ Calls /\ OneReceiptPerCommand /\ ImportedOnce /\ ImportsFaithful
  /\ ReceiptsBacked /\ PurgedIsExpired /\ CursorChain /\ CursorHead

-----------------------------------------------------------------------------
(* Types *)

LEMMA ConfigTyped ==
  ASSUME TypeOK
  PROVE  /\ source \in SourceRows /\ source.config \in Nat \ {0}
         /\ source.config \in DOMAIN configs /\ Config \in ConfigRows
         /\ Config.mapping \in Mappings /\ Config.mapping \in Nat \ {0}
         /\ Len(configs) \in Nat /\ Len(receipts) \in Nat
<1>1. source \in SourceRows /\ configs \in Seq(ConfigRows) /\ receipts \in Seq(ReceiptRows)
  BY DEF TypeOK
<1>2. source.config = Len(configs) /\ source.config \in 1 .. MaxConfig
  BY DEF TypeOK, Mappings
<1>3. source.config \in DOMAIN configs
  BY <1>1, <1>2
<1>4. Config \in ConfigRows
  BY <1>1, <1>3 DEF Config
<1> QED BY <1>1, <1>2, <1>3, <1>4, IngestionAssumption DEF ConfigRows, Mappings

\* What a caller composes: with the cursor it read, or without one.
Made(request, kind, rows, parent) ==
  /\ request \in Requests /\ request.config = source.config
  /\ request.kind = kind /\ request.rows = rows /\ request.parent = parent

LEMMA ComposedTyped ==
  ASSUME TypeOK, NEW kind \in Kinds, NEW key \in Keys \cup {None},
         NEW rows \in SUBSET Versions, NEW event \in Events \cup {None},
         NEW parent \in Nat, NEW terminal \in BOOLEAN
  PROVE  /\ Made(Composed(kind, key, rows, event, parent, terminal), kind, rows, parent)
         /\ Composed(kind, key, rows, event, parent, terminal).terminal = terminal
         /\ Made(Cursorless(Composed(kind, key, rows, event, parent, terminal)), kind, rows, parent)
<1>1. source.config \in Nat /\ source.cursor \in Nat /\ source.generation \in Nat
  BY ConfigTyped DEF SourceRows
<1>2. Composed(kind, key, rows, event, parent, terminal) \in Requests
  BY <1>1 DEF Composed, Requests
<1>3. Cursorless(Composed(kind, key, rows, event, parent, terminal)) \in Requests
  BY <1>2 DEF Requests, Cursorless
<1> QED BY <1>2, <1>3 DEF Made, Composed, Cursorless

LEMMA MadeSound ==
  ASSUME TypeOK, NEW request, NEW kind \in Kinds \ {"CSV_REVIEWED_IMPORT"}, NEW rows,
         Made(request, kind, rows, 0),
         kind = "SYNC_RESET" => rows = {} /\ ~request.terminal
  PROVE  RequestSound(request)
BY ConfigTyped DEF Made, RequestSound

LEMMA CommandsSound ==
  ASSUME Calls, NEW subject, NEW request \in Commands(subject)
  PROVE  request \in Requests /\ request.config = source.config /\ RequestSound(request)
<1> DEFINE P == request \in Requests /\ request.config = source.config /\ RequestSound(request)
<1>0. TypeOK /\ receipts \in Seq(ReceiptRows) /\ source.config \in Nat
  BY ConfigTyped DEF Calls, Shape, TypeOK
<1>a. /\ {"CSV_PREVIEW", "CONNECTOR_PAGE", "CONNECTOR_EVENT", "SYNC_RESET"}
            \subseteq Kinds \ {"CSV_REVIEWED_IMPORT"}
      /\ "CSV_REVIEWED_IMPORT" \in Kinds
      /\ None \in Events \cup {None} /\ 0 \in Nat /\ FALSE \in BOOLEAN
      /\ Uploads \subseteq SUBSET Versions
  BY IngestionAssumption DEF Kinds, CsvKinds, ConnectorKinds
<1>1. ASSUME NEW key \in Keys \cup {None}, request \in Previews(key) PROVE P
  <2>1. PICK rows \in Uploads :
          request = Cursorless(Composed("CSV_PREVIEW", key, rows, None, 0, FALSE))
    BY <1>1 DEF Previews
  <2>2. rows \in SUBSET Versions
    BY <1>a
  <2>3. Made(request, "CSV_PREVIEW", rows, 0)
    BY <1>0, <1>a, <2>1, <2>2, ComposedTyped
  <2>4. RequestSound(request)
    BY <1>0, <1>a, <2>3, MadeSound
  <2> QED BY <2>3, <2>4 DEF Made
<1>2. ASSUME NEW key \in Keys \cup {None}, request \in Imports(key) PROVE P
  <2>1. PICK n \in DOMAIN receipts : /\ receipts[n].request.kind = "CSV_PREVIEW"
          /\ \E rows \in (SUBSET receipts[n].request.rows) \ {{}} :
               request = Cursorless(Composed("CSV_REVIEWED_IMPORT", key, rows, None, n, FALSE))
    BY <1>2 DEF Imports
  <2>2. PICK rows \in SUBSET receipts[n].request.rows :
          request = Cursorless(Composed("CSV_REVIEWED_IMPORT", key, rows, None, n, FALSE))
    BY <2>1
  <2>3. receipts[n] \in ReceiptRows /\ n \in Nat
    BY <1>0
  <2>4. rows \in SUBSET Versions
    BY <2>3 DEF ReceiptRows, Requests
  <2>5. Made(request, "CSV_REVIEWED_IMPORT", rows, n)
    BY <1>0, <1>a, <2>2, <2>3, <2>4, ComposedTyped
  <2>6. n \in DOMAIN receipts /\ receipts[n].request.kind = "CSV_PREVIEW"
    BY <2>1
  <2>b. /\ request.kind = "CSV_REVIEWED_IMPORT" /\ request.rows = rows
        /\ request.parent = n /\ request.config = source.config
    BY <2>5 DEF Made
  <2>c. rows \subseteq receipts[n].request.rows
    BY <2>2
  <2>d. source.config \in 0 .. source.config
    BY <1>0
  <2>7. RequestSound(request)
    BY <2>b, <2>c, <2>d, <2>6 DEF RequestSound
  <2> QED BY <2>5, <2>7 DEF Made
<1>3. ASSUME NEW key \in Keys \cup {None}, request \in ConnectorPages(key) PROVE P
  <2>1. PICK rows \in Uploads, terminal \in BOOLEAN :
          request = Composed("CONNECTOR_PAGE", key, rows, None, 0, terminal)
    BY <1>3 DEF ConnectorPages
  <2>2. rows \in SUBSET Versions
    BY <1>a
  <2>3. Made(request, "CONNECTOR_PAGE", rows, 0)
    BY <1>0, <1>a, <2>1, <2>2, ComposedTyped
  <2>4. RequestSound(request)
    BY <1>0, <1>a, <2>3, MadeSound
  <2> QED BY <2>3, <2>4 DEF Made
<1>4. ASSUME NEW key \in Keys \cup {None}, request \in ConnectorEvents(key) PROVE P
  <2>a. PICK event \in Events : \E v \in Versions :
          request = Cursorless(Composed("CONNECTOR_EVENT", key, {v}, event, 0, FALSE))
    BY <1>4 DEF ConnectorEvents
  <2>1. PICK v \in Versions :
          request = Cursorless(Composed("CONNECTOR_EVENT", key, {v}, event, 0, FALSE))
    BY <2>a
  <2>2. {v} \in SUBSET Versions /\ event \in Events \cup {None}
    OBVIOUS
  <2>3. Made(request, "CONNECTOR_EVENT", {v}, 0)
    BY <1>0, <1>a, <2>1, <2>2, ComposedTyped
  <2>4. RequestSound(request)
    BY <1>0, <1>a, <2>3, MadeSound
  <2> QED BY <2>3, <2>4 DEF Made
<1>5. ASSUME NEW key \in Keys \cup {None}, request \in Resets(key) PROVE P
  <2>1. request = Composed("SYNC_RESET", key, {}, None, 0, FALSE)
    BY <1>5 DEF Resets
  <2>2. {} \in SUBSET Versions
    OBVIOUS
  <2>3. Made(request, "SYNC_RESET", {}, 0) /\ request.terminal = FALSE
    BY <1>0, <1>a, <2>1, <2>2, ComposedTyped, ZenonT(40)
  <2>4. RequestSound(request)
    BY <1>0, <1>a, <2>3, MadeSound
  <2> QED BY <2>3, <2>4 DEF Made
<1>6. CASE subject = Runtime
  <2>1. request \in ConnectorPages(None) \/ request \in Resets(None)
    BY <1>6 DEF Commands
  <2> QED BY <2>1, <1>3, <1>5
<1>7. CASE subject # Runtime
  <2>1. PICK key \in Keys : request \in (Previews(key) \cup Imports(key)) \cup
              (ConnectorPages(key) \cup ConnectorEvents(key) \cup Resets(key))
    BY <1>7 DEF Commands
  <2>2. key \in Keys \cup {None}
    OBVIOUS
  <2>3. \/ request \in Previews(key) \/ request \in Imports(key)
        \/ request \in ConnectorPages(key) \/ request \in ConnectorEvents(key)
        \/ request \in Resets(key)
    BY <2>1
  <2>4. CASE request \in Previews(key)
    BY <2>2, <2>4, <1>1
  <2>5. CASE request \in Imports(key)
    BY <2>2, <2>5, <1>2
  <2>6. CASE request \in ConnectorPages(key)
    BY <2>2, <2>6, <1>3
  <2>7. CASE request \in ConnectorEvents(key)
    BY <2>2, <2>7, <1>4
  <2>8. CASE request \in Resets(key)
    BY <2>2, <2>8, <1>5
  <2> QED BY <2>3, <2>4, <2>5, <2>6, <2>7, <2>8
<1> QED BY <1>6, <1>7

-----------------------------------------------------------------------------
(* What a commit does *)

\* The cursor is moved by pages and resets only, from where it was read.
Moved(request) ==
  /\ request.kind \notin Transitions => source' = source
  /\ request.kind \in Transitions =>
       request.cursor = source.cursor /\ request.generation = source.generation
  /\ request.kind = "SYNC_RESET" =>
       source' = [source EXCEPT !.cursor = @ + 1, !.generation = @ + 1, !.state = "READY"]
  /\ request.kind = "CONNECTOR_PAGE" =>
       /\ source.state = "READY"
       /\ source' = [source EXCEPT
            !.cursor = @ + 1, !.state = IF request.terminal THEN "TERMINAL" ELSE "READY"]

ContentRows == [Versions -> [Mappings -> {"none", "live", "redacted"}]]
AgeRows == [Versions -> Nat \cup {None}]
Born(v, m) == content[v][m] = "none" /\ content'[v][m] = "live" /\ ~Expired(v)

\* Every row of the request has content in the end, and content is only born
\* of versions that have not expired.
Filled(request) ==
  /\ age' \in AgeRows /\ content' \in ContentRows
  /\ \A v \in Versions : age[v] # None => age'[v] = age[v]
  /\ \A v \in Versions, m \in Mappings : content'[v][m] # content[v][m] => Born(v, m)
  /\ \A v \in request.rows : content'[v][Config.mapping] # "none"

SameCommand(one, other) ==
  /\ one.kind = other.kind /\ one.key = other.key /\ one.config = other.config
  /\ one.rows = other.rows /\ one.event = other.event /\ one.parent = other.parent
  /\ one.terminal = other.terminal

FirstImport(request) ==
  /\ receipts[request.parent].request.config = source.config
  /\ \A r \in Receipts : ~(IsImport(r) /\ r.request.parent = request.parent)

Recorded(s, request) == Append(receipts, [subject |-> Subject(s), request |-> request])

Committed(s, request) ==
  /\ request \in Requests /\ SameCommand(request, Request(s))
  /\ Entitled(s, request.kind) /\ Earlier(Subject(s), Request(s)) = {}
  /\ receipts' = Recorded(s, request) /\ Done(s)
  /\ UNCHANGED <<configs, granted, policy>>
  /\ Moved(request) /\ Filled(request)
  /\ request.kind = "CSV_REVIEWED_IMPORT" => FirstImport(request)

LEMMA SessionTyped ==
  ASSUME TypeOK, NEW s \in Sessions
  PROVE  /\ Request(s) \in Requests /\ Subject(s) \in Subjects \cup {Runtime}
         /\ Request(s).rows \subseteq Versions /\ Request(s).kind \in Kinds
         /\ Request(s).config \in Nat
BY DEF TypeOK, SessionRows, Request, Subject, Requests

LEMMA PreparedFills ==
  ASSUME TypeOK, NEW s \in Sessions, Projectable(Request(s).rows),
         PrepareRecords(Request(s).rows)
  PROVE  Filled(Request(s))
<1> DEFINE rows == Request(s).rows
           m == Config.mapping
<1>1. rows \subseteq Versions /\ m \in Mappings
  BY SessionTyped, ConfigTyped
<1>2. age \in AgeRows /\ content \in ContentRows
  BY DEF TypeOK, AgeRows, ContentRows
<1>3. age' = [v \in Versions |-> IF v \in rows /\ age[v] = None THEN 0 ELSE age[v]]
  BY DEF PrepareRecords
<1>4. content' = [v \in Versions |->
        IF v \in Births(rows, m) THEN [content[v] EXCEPT ![m] = "live"] ELSE content[v]]
  BY DEF PrepareRecords
<1>5. \A v \in Births(rows, m) : ~Expired(v) /\ content[v][m] = "none"
  BY DEF Projectable, Births
<1> HIDE DEF rows, m
<1>6. age' \in AgeRows /\ \A v \in Versions : age[v] # None => age'[v] = age[v]
  BY <1>2, <1>3 DEF AgeRows
<1>7. content' \in ContentRows
  BY <1>1, <1>2, <1>4 DEF ContentRows
<1>8. ASSUME NEW v \in Versions, NEW n \in Mappings, content'[v][n] # content[v][n]
      PROVE  Born(v, n)
  <2>1. v \in Births(rows, m) /\ content'[v] = [content[v] EXCEPT ![m] = "live"]
    BY <1>4, <1>8
  <2>2. content[v] \in [Mappings -> {"none", "live", "redacted"}]
    BY <1>2 DEF ContentRows
  <2>3. n = m /\ content'[v][n] = "live"
    BY <1>1, <1>8, <2>1, <2>2
  <2> QED BY <2>1, <2>3, <1>5 DEF Born
<1>9. ASSUME NEW v \in rows PROVE content'[v][m] # "none"
  <2>1. v \in Versions /\ content[v] \in [Mappings -> {"none", "live", "redacted"}]
    BY <1>1, <1>2 DEF ContentRows
  <2>2. CASE v \in Births(rows, m)
    BY <1>1, <1>4, <2>1, <2>2
  <2>3. CASE v \notin Births(rows, m)
    BY <1>4, <2>1, <2>3 DEF Births
  <2> QED BY <2>2, <2>3
<1> QED BY <1>6, <1>7, <1>8, <1>9 DEF Filled, rows, m

LEMMA UnfilledFills ==
  ASSUME TypeOK, NEW request, UNCHANGED <<age, content>>,
         \A v \in request.rows : content[v][Config.mapping] # "none"
  PROVE  Filled(request)
BY DEF TypeOK, Filled, AgeRows, ContentRows

LEMMA CommitEffect ==
  ASSUME Calls, NEW s \in Sessions,
         \/ PersistCsvPreview(s) \/ CommitCsvReviewedImport(s)
         \/ PersistConnectorPage(s) \/ PersistConnectorEvent(s) \/ ResetSync(s)
  PROVE  \E request \in Requests : Committed(s, request)
<1> USE DEF Calls, Shape
<1>0. Request(s) \in Requests /\ SameCommand(Request(s), Request(s)) /\ TypeOK
  BY SessionTyped DEF SameCommand
<1>1. CASE PersistCsvPreview(s)
  <2>1. Filled(Request(s))
    BY <1>1, PreparedFills DEF PersistCsvPreview, CanPreview
  <2>2. Request(s).kind = "CSV_PREVIEW" /\ Moved(Request(s))
    BY <1>1 DEF PersistCsvPreview, CanPreview, Entitled, Moved, Transitions
  <2>3. /\ Entitled(s, Request(s).kind) /\ Earlier(Subject(s), Request(s)) = {}
        /\ UNCHANGED <<configs, granted, policy>>
        /\ receipts' = Recorded(s, Request(s)) /\ Done(s)
    BY <1>1, <2>2 DEF PersistCsvPreview, CanPreview, CreateReceipt, Recorded
  <2> QED BY <1>0, <2>1, <2>2, <2>3 DEF Committed
<1>2. CASE CommitCsvReviewedImport(s)
  <2>1. Filled(Request(s))
    BY <1>2, UnfilledFills DEF CommitCsvReviewedImport, CanImport
  <2>2. Request(s).kind = "CSV_REVIEWED_IMPORT" /\ Moved(Request(s))
    BY <1>2 DEF CommitCsvReviewedImport, CanImport, Entitled, Moved, Transitions
  <2>3. /\ Entitled(s, Request(s).kind) /\ Earlier(Subject(s), Request(s)) = {}
        /\ UNCHANGED <<configs, granted, policy>>
        /\ receipts' = Recorded(s, Request(s)) /\ Done(s)
    BY <1>2, <2>2 DEF CommitCsvReviewedImport, CanImport, CreateReceipt, Recorded
  <2>4. FirstImport(Request(s))
    BY <1>2 DEF CommitCsvReviewedImport, CanImport, FirstImport
  <2> QED BY <1>0, <2>1, <2>2, <2>3, <2>4 DEF Committed
<1>3. CASE PersistConnectorPage(s)
  <2>1. Filled(Request(s))
    BY <1>3, PreparedFills DEF PersistConnectorPage, CanPage
  <2>2. Request(s).kind = "CONNECTOR_PAGE" /\ Moved(Request(s))
    BY <1>3 DEF PersistConnectorPage, CanPage, Entitled, Moved, AtCursor, Transitions
  <2>3. /\ Entitled(s, Request(s).kind) /\ Earlier(Subject(s), Request(s)) = {}
        /\ UNCHANGED <<configs, granted, policy>>
        /\ receipts' = Recorded(s, Request(s)) /\ Done(s)
    BY <1>3, <2>2 DEF PersistConnectorPage, CanPage, CreateReceipt, Recorded
  <2> QED BY <1>0, <2>1, <2>2, <2>3 DEF Committed
<1>4. CASE PersistConnectorEvent(s)
  <2>1. Filled(Request(s))
    BY <1>4, PreparedFills DEF PersistConnectorEvent, CanRecordEvent
  <2>2. Request(s).kind = "CONNECTOR_EVENT" /\ Moved(Request(s))
    BY <1>4 DEF PersistConnectorEvent, CanRecordEvent, Entitled, Moved, Transitions
  <2>3. /\ Entitled(s, Request(s).kind) /\ Earlier(Subject(s), Request(s)) = {}
        /\ UNCHANGED <<configs, granted, policy>>
        /\ receipts' = Recorded(s, Request(s)) /\ Done(s)
    BY <1>4, <2>2 DEF PersistConnectorEvent, CanRecordEvent, CreateReceipt, Recorded
  <2> QED BY <1>0, <2>1, <2>2, <2>3 DEF Committed
<1>5. CASE ResetSync(s)
  <2> DEFINE q == [Request(s) EXCEPT !.cursor = source.cursor, !.generation = source.generation]
  <2>0. source.cursor \in Nat /\ source.generation \in Nat
    BY ConfigTyped DEF SourceRows
  <2>1. /\ q \in Requests /\ SameCommand(q, Request(s))
        /\ q.cursor = source.cursor /\ q.generation = source.generation
    BY <1>0, <2>0 DEF Requests, SameCommand
  <2>2. /\ Entitled(s, "SYNC_RESET") /\ Earlier(Subject(s), Request(s)) = {}
        /\ UNCHANGED <<configs, granted, policy, age, content>>
        /\ receipts' = Recorded(s, q) /\ Done(s)
        /\ source' = [source EXCEPT !.cursor = @ + 1, !.generation = @ + 1, !.state = "READY"]
    BY <1>5 DEF ResetSync, CanReset, Recorded
  <2> HIDE DEF q
  <2>3. q.kind = "SYNC_RESET" /\ Moved(q)
    BY <2>1, <2>2 DEF Moved, SameCommand, Entitled, Transitions
  <2>4. q.rows = {}
    BY <2>1, <2>2 DEF RequestsSound, RequestSound, SameCommand, Entitled
  <2>5. Filled(q)
    BY <1>0, <2>2, <2>4, UnfilledFills
  <2> QED BY <2>1, <2>2, <2>3, <2>5 DEF Committed
<1> QED BY <1>1, <1>2, <1>3, <1>4, <1>5

LEMMA CommitAppends ==
  ASSUME TypeOK, NEW s \in Sessions, NEW request \in Requests, Committed(s, request)
  PROVE  /\ receipts' \in Seq(ReceiptRows) /\ Len(receipts) \in Nat
         /\ DOMAIN receipts = 1 .. Len(receipts)
         /\ DOMAIN receipts' = 1 .. (Len(receipts) + 1)
         /\ \A i \in DOMAIN receipts : receipts'[i] = receipts[i]
         /\ receipts'[Len(receipts) + 1] = [subject |-> Subject(s), request |-> request]
<1>1. [subject |-> Subject(s), request |-> request] \in ReceiptRows
  BY SessionTyped DEF ReceiptRows
<1>2. receipts \in Seq(ReceiptRows) /\ receipts' = Append(receipts,
        [subject |-> Subject(s), request |-> request])
  BY DEF TypeOK, Committed, Recorded
<1> QED BY <1>1, <1>2, AppendProperties

\* The receipt of a commit is the last one.
Follows(n, s, request) ==
  /\ n \in Nat /\ n = Len(receipts) + 1 /\ n - 1 = Len(receipts)
  /\ DOMAIN receipts = 1 .. (n - 1) /\ DOMAIN receipts' = 1 .. n
  /\ \A i \in DOMAIN receipts : receipts'[i] = receipts[i]
  /\ receipts'[n].subject = Subject(s) /\ receipts'[n].request = request

LEMMA CommitFollows ==
  ASSUME TypeOK, NEW s \in Sessions, NEW request \in Requests, Committed(s, request)
  PROVE  \E n \in Nat : Follows(n, s, request)
<1>1. Len(receipts) + 1 \in Nat /\ (Len(receipts) + 1) - 1 = Len(receipts)
  BY CommitAppends
<1>2. Follows(Len(receipts) + 1, s, request)
  <2>1. receipts'[Len(receipts) + 1] = [subject |-> Subject(s), request |-> request]
    BY CommitAppends
  <2> QED BY <1>1, <2>1, CommitAppends DEF Follows
<1> QED BY <1>1, <1>2

\* A step of calls only: one of them begins or ends.
Spoken ==
  /\ UNCHANGED <<source, configs, granted, policy, age, content, receipts>>
  /\ \E s \in Sessions, row \in SessionRows :
       session' = [session EXCEPT ![s] = row] /\ RequestSound(row.request)

IdleSound == Idle \in SessionRows /\ RequestSound(Idle.request)

LEMMA IdleIsSound == ASSUME TypeOK PROVE IdleSound
<1>1. NoRequest \in Requests
  BY DEF NoRequest, Requests, Kinds, CsvKinds
<1>2. RequestSound(NoRequest)
  BY ConfigTyped DEF RequestSound, NoRequest
<1> QED BY <1>1, <1>2 DEF IdleSound, Idle, SessionRows

LEMMA Steps ==
  ASSUME Calls, Next
  PROVE  \/ \E s \in Sessions, request \in Requests : Committed(s, request)
         \/ Spoken \/ Configure \/ ChangeGrant \/ SetRetention \/ PurgeExpired \/ HourPasses
<1>0. TypeOK /\ IdleSound
  BY IdleIsSound DEF Calls, Shape
<1>1. ASSUME NEW s \in Sessions,
             \/ PersistCsvPreview(s) \/ CommitCsvReviewedImport(s)
             \/ PersistConnectorPage(s) \/ PersistConnectorEvent(s) \/ ResetSync(s)
      PROVE  \E request \in Requests : Committed(s, request)
  BY <1>1, CommitEffect
<1>2. ASSUME NEW s \in Sessions, Preflight(s) PROVE Spoken
  <2>1. PICK subject \in Subjects \cup {Runtime} : \E request \in Commands(subject) :
          session' = [session EXCEPT
            ![s] = [active |-> TRUE, subject |-> subject, request |-> request]]
    BY <1>2 DEF Preflight
  <2>2. PICK request \in Commands(subject) :
          session' = [session EXCEPT
            ![s] = [active |-> TRUE, subject |-> subject, request |-> request]]
    BY <2>1
  <2>3. request \in Requests /\ RequestSound(request)
    BY CommandsSound
  <2>4. [active |-> TRUE, subject |-> subject, request |-> request] \in SessionRows
    BY <2>3 DEF SessionRows
  <2>5. UNCHANGED <<source, configs, granted, policy, age, content, receipts>>
    BY <1>2 DEF Preflight
  <2> QED BY <2>2, <2>3, <2>4, <2>5 DEF Spoken
<1>3. ASSUME NEW s \in Sessions, Replay(s) \/ Refuse(s) \/ Stop(s) PROVE Spoken
  <2>1. /\ UNCHANGED <<source, configs, granted, policy, age, content, receipts>>
        /\ session' = [session EXCEPT ![s] = Idle]
    BY <1>3 DEF Replay, Refuse, Stop, Done
  <2> QED BY <1>0, <2>1 DEF Spoken, IdleSound
<1> QED BY <1>1, <1>2, <1>3 DEF Next

LEMMA ReceiptSteps ==
  ASSUME Calls, [Next]_vars
  PROVE  \/ \E s \in Sessions, request \in Requests : Committed(s, request)
         \/ receipts' = receipts /\ source'.cursor = source.cursor
            /\ source'.generation = source.generation
<1>1. source \in SourceRows
  BY DEF Calls, Shape, TypeOK
<1>2. CASE UNCHANGED vars
  BY <1>2 DEF vars
<1>3. CASE Configure
  BY <1>1, <1>3 DEF Configure, SourceRows
<1>4. CASE Spoken \/ ChangeGrant \/ SetRetention \/ PurgeExpired \/ HourPasses
  BY <1>4 DEF Spoken, ChangeGrant, SetRetention, PurgeExpired, HourPasses
<1> QED BY Steps, <1>2, <1>3, <1>4

-----------------------------------------------------------------------------
(* Types, and what is known of a request *)

LEMMA ShapeKept == ASSUME Calls, [Next]_vars PROVE Shape'
<1> USE DEF Calls, Shape
<1>0. TypeOK /\ MappingsInOrder
  OBVIOUS
<1>1. ASSUME NEW s \in Sessions, NEW q \in Requests, Committed(s, q) PROVE Shape'
  <2>1. receipts' \in Seq(ReceiptRows)
    BY <1>1, CommitAppends
  <2>2. UNCHANGED <<configs, granted, policy>> /\ age' \in AgeRows /\ content' \in ContentRows
    BY <1>1 DEF Committed, Filled
  <2>3. session' \in [Sessions -> SessionRows]
    BY <1>0, <1>1, IdleIsSound DEF Committed, Done, IdleSound, TypeOK
  <2>4. q.terminal \in BOOLEAN /\ q.kind \in Kinds /\ Moved(q)
    BY <1>1 DEF Committed, Requests
  <2>5. source' \in SourceRows /\ source'.config = source.config
    <3>1. /\ source \in SourceRows
          /\ source.cursor + 1 \in Nat /\ source.generation + 1 \in Nat
      BY <1>0 DEF TypeOK, SourceRows
    <3>2. CASE q.kind \notin Transitions
      BY <2>4, <3>1, <3>2 DEF Moved
    <3>3. CASE q.kind = "SYNC_RESET"
      <4>1. source' = [source EXCEPT !.cursor = @ + 1, !.generation = @ + 1, !.state = "READY"]
        BY <2>4, <3>3 DEF Moved
      <4> QED BY <3>1, <4>1 DEF SourceRows
    <3>4. CASE q.kind = "CONNECTOR_PAGE"
      <4> DEFINE state == IF q.terminal THEN "TERMINAL" ELSE "READY"
      <4>1. source' = [source EXCEPT !.cursor = @ + 1, !.state = state]
        BY <2>4, <3>4 DEF Moved
      <4>2. state \in {"READY", "TERMINAL"}
        BY Zenon
      <4> HIDE DEF state
      <4> QED BY <3>1, <4>1, <4>2 DEF SourceRows
    <3> QED BY <3>2, <3>3, <3>4 DEF Transitions
  <2> QED BY <1>0, <2>1, <2>2, <2>3, <2>5 DEF TypeOK, MappingsInOrder, AgeRows, ContentRows
<1>2. CASE Spoken
  <2>1. PICK s \in Sessions, row \in SessionRows : session' = [session EXCEPT ![s] = row]
    BY <1>2 DEF Spoken
  <2>2. session' \in [Sessions -> SessionRows]
    BY <1>0, <2>1 DEF TypeOK
  <2> QED BY <1>0, <1>2, <2>2 DEF Spoken, TypeOK, MappingsInOrder
<1>3. CASE Configure
  <2>0. /\ source \in SourceRows /\ configs \in Seq(ConfigRows) /\ Len(configs) \in Nat
        /\ source.config = Len(configs) /\ source.config \in DOMAIN configs
        /\ Config.mapping \in Nat /\ Config.mapping <= source.config
    BY <1>0, ConfigTyped DEF TypeOK, MappingsInOrder, Config
  <2>1. PICK kind \in MappingKinds, remapped \in BOOLEAN, readers \in ReaderLists :
          configs' = Append(configs, [kind |-> kind, readers |-> readers,
                       mapping |-> Config.mapping + IF remapped THEN 1 ELSE 0])
    BY <1>3 DEF Configure
  <2> DEFINE mapping == Config.mapping + IF remapped THEN 1 ELSE 0
             row == [kind |-> kind, readers |-> readers, mapping |-> mapping]
  <2>2. source.config < MaxConfig /\ MaxConfig \in Nat /\ source.config \in Nat
    BY <1>3, <2>0, IngestionAssumption DEF Configure, SourceRows
  <2>3. mapping \in Nat /\ mapping <= source.config + 1 /\ mapping >= 1
    BY <1>0, <2>0, <2>2, ConfigTyped
  <2>4. row \in ConfigRows /\ row.mapping = mapping
    BY <2>2, <2>3, IngestionAssumption DEF ConfigRows, Mappings
  <2>5. configs' = Append(configs, row)
    BY <2>1
  <2>6. source' = [source EXCEPT !.config = @ + 1, !.state = "RESET_REQUIRED"]
    BY <1>3 DEF Configure
  <2> HIDE DEF row, mapping
  <2>7. /\ configs' \in Seq(ConfigRows) /\ Len(configs') = Len(configs) + 1
        /\ DOMAIN configs = 1 .. Len(configs) /\ DOMAIN configs' = 1 .. (Len(configs) + 1)
        /\ \A i \in DOMAIN configs : configs'[i] = configs[i]
        /\ configs'[Len(configs) + 1] = row
    BY <2>0, <2>4, <2>5, AppendProperties
  <2>8. source' \in SourceRows /\ source'.config = source.config + 1
    <3>1. source.config + 1 \in Nat
      BY <2>2
    <3> QED BY <2>0, <2>6, <3>1 DEF SourceRows
  <2>9. \A i \in DOMAIN configs' : configs'[i].mapping <= i
    BY <1>0, <2>0, <2>3, <2>4, <2>7 DEF MappingsInOrder
  <2>10. source'.config \in Mappings
    BY <2>2, <2>8 DEF Mappings
  <2>11. UNCHANGED <<granted, policy, age, content, receipts, session>>
    BY <1>3 DEF Configure
  <2> QED BY <1>0, <2>0, <2>7, <2>8, <2>9, <2>10, <2>11 DEF TypeOK, MappingsInOrder
<1>4. CASE ChangeGrant
  BY <1>0, <1>4 DEF ChangeGrant, TypeOK, MappingsInOrder
<1>5. CASE SetRetention
  <2>1. PICK hours \in 1 .. MaxHours : policy' = NewPolicy(hours)
    BY <1>5 DEF SetRetention
  <2>2. hours \in Nat /\ policy.revision + 1 \in Nat
    BY <1>0 DEF TypeOK, PolicyRows
  <2>3. policy' \in PolicyRows
    BY <2>1, <2>2 DEF NewPolicy, PolicyRows
  <2> QED BY <1>0, <1>5, <2>3 DEF SetRetention, TypeOK, MappingsInOrder
<1>6. CASE PurgeExpired
  <2>1. PICK batch \in SUBSET Redactable : content' = [v \in Versions |-> [m \in Mappings |->
            IF <<v, m>> \in batch THEN "redacted" ELSE content[v][m]]]
    BY <1>6 DEF PurgeExpired
  <2>2. content' \in ContentRows
    BY <1>0, <2>1 DEF ContentRows, TypeOK
  <2> QED BY <1>0, <1>6, <2>2 DEF PurgeExpired, TypeOK, MappingsInOrder, ContentRows
<1>7. CASE HourPasses
  <2>1. age' = [v \in Versions |-> IF age[v] # None /\ age[v] < MaxHours THEN age[v] + 1 ELSE age[v]]
    BY <1>7 DEF HourPasses
  <2>2. age \in AgeRows
    BY <1>0 DEF TypeOK, AgeRows
  <2>3. \A v \in Versions : age[v] # None => age[v] \in Nat /\ age[v] + 1 \in Nat
    BY <2>2 DEF AgeRows
  <2>4. age' \in AgeRows
    BY <2>1, <2>2, <2>3 DEF AgeRows
  <2> QED BY <1>0, <1>7, <2>4 DEF HourPasses, TypeOK, MappingsInOrder, AgeRows
<1>8. CASE UNCHANGED vars
  BY <1>0, <1>8 DEF vars, TypeOK, MappingsInOrder
<1> QED BY <1>1, <1>2, <1>3, <1>4, <1>5, <1>6, <1>7, <1>8, Steps

\* Configurations and receipts are never rewritten, only followed by others.
HistoryKept ==
  /\ source.config \in Nat /\ source'.config \in Nat /\ source.config <= source'.config
  /\ DOMAIN receipts \subseteq DOMAIN receipts'
  /\ \A i \in DOMAIN receipts : receipts'[i] = receipts[i]
  /\ DOMAIN configs = 1 .. source.config
  /\ \A i \in DOMAIN configs : configs'[i] = configs[i]

LEMMA HistoryIsKept == ASSUME Calls, [Next]_vars PROVE HistoryKept
<1>0. /\ TypeOK /\ source \in SourceRows /\ source.config \in Nat
      /\ source.config = Len(configs) /\ configs \in Seq(ConfigRows)
  BY ConfigTyped DEF Calls, Shape, TypeOK
<1>1. DOMAIN configs = 1 .. source.config
  BY <1>0
<1>2. ASSUME NEW s \in Sessions, NEW q \in Requests, Committed(s, q) PROVE HistoryKept
  <2>1. source'.config = source.config
    <3>1. Moved(q) /\ q.kind \in Kinds
      BY <1>2 DEF Committed, Requests
    <3>2. CASE q.kind \notin Transitions
      BY <3>1, <3>2 DEF Moved
    <3>3. CASE q.kind = "SYNC_RESET"
      <4>1. source' = [source EXCEPT !.cursor = @ + 1, !.generation = @ + 1, !.state = "READY"]
        BY <3>1, <3>3 DEF Moved
      <4> QED BY <1>0, <4>1 DEF SourceRows
    <3>4. CASE q.kind = "CONNECTOR_PAGE"
      <4>1. source' = [source EXCEPT
              !.cursor = @ + 1, !.state = IF q.terminal THEN "TERMINAL" ELSE "READY"]
        BY <3>1, <3>4 DEF Moved
      <4> QED BY <1>0, <4>1 DEF SourceRows
    <3> QED BY <3>2, <3>3, <3>4 DEF Transitions
  <2>2. configs' = configs
    BY <1>2 DEF Committed
  <2>3. PICK n \in Nat : Follows(n, s, q)
    BY <1>0, <1>2, CommitFollows
  <2>4. DOMAIN receipts \subseteq DOMAIN receipts' /\ \A i \in DOMAIN receipts : receipts'[i] = receipts[i]
    BY <2>3 DEF Follows
  <2> QED BY <1>0, <1>1, <2>1, <2>2, <2>4 DEF HistoryKept
<1>3. CASE Configure
  <2>1. receipts' = receipts /\ source' = [source EXCEPT !.config = @ + 1, !.state = "RESET_REQUIRED"]
    BY <1>3 DEF Configure
  <2>2. \E row : configs' = Append(configs, row)
    BY <1>3 DEF Configure
  <2>3. \A i \in DOMAIN configs : configs'[i] = configs[i]
    BY <1>0, <2>2
  <2>4. source'.config = source.config + 1
    BY <1>0, <2>1 DEF SourceRows
  <2> QED BY <1>0, <1>1, <2>1, <2>3, <2>4 DEF HistoryKept
<1>4. CASE Spoken \/ ChangeGrant \/ SetRetention \/ PurgeExpired \/ HourPasses \/ UNCHANGED vars
  <2>1. source' = source /\ configs' = configs /\ receipts' = receipts
    BY <1>4 DEF Spoken, ChangeGrant, SetRetention, PurgeExpired, HourPasses, vars
  <2> QED BY <1>0, <1>1, <2>1 DEF HistoryKept
<1> QED BY Steps, <1>2, <1>3, <1>4

\* RequestSound, of a request in the next state.
SoundThen(request) ==
  /\ request.config \in 0 .. source'.config
  /\ request.kind = "SYNC_RESET" => request.rows = {} /\ ~request.terminal
  /\ request.kind = "CSV_REVIEWED_IMPORT" =>
       /\ request.parent \in DOMAIN receipts'
       /\ receipts'[request.parent].request.kind = "CSV_PREVIEW"
       /\ request.rows \subseteq receipts'[request.parent].request.rows

LEMMA SoundStaysSound ==
  ASSUME HistoryKept, NEW q, RequestSound(q)
  PROVE  SoundThen(q)
BY DEF HistoryKept, RequestSound, SoundThen

LEMMA RequestsKept == ASSUME Calls, [Next]_vars PROVE RequestsSound'
<1>0. TypeOK /\ session \in [Sessions -> SessionRows] /\ HistoryKept /\ IdleSound
  BY HistoryIsKept, IdleIsSound DEF Calls, Shape, TypeOK
<1>1. \A s \in Sessions : RequestSound(session[s].request)
  BY DEF Calls, RequestsSound, Request
<1>a. (\A s \in Sessions : RequestSound(session'[s].request)) => RequestsSound'
  <2>1. SUFFICES ASSUME NEW s \in Sessions, RequestSound(session'[s].request)
                 PROVE  RequestSound(Request(s))'
    BY DEF RequestsSound
  <2>2. SoundThen(session'[s].request)
    BY <1>0, <2>1, SoundStaysSound
  <2> QED BY <2>2 DEF RequestSound, SoundThen, Request
<1>2. ASSUME NEW s \in Sessions, NEW row, session' = [session EXCEPT ![s] = row],
             RequestSound(row.request)
      PROVE  RequestsSound'
  <2>1. ASSUME NEW t \in Sessions PROVE RequestSound(session'[t].request)
    <3>1. CASE t = s
      <4>1. session'[t] = row
        BY <1>0, <1>2, <3>1
      <4> QED BY <1>2, <4>1
    <3>2. CASE t # s
      <4>1. session'[t] = session[t]
        BY <1>0, <1>2, <3>2
      <4> QED BY <1>1, <4>1
    <3> QED BY <3>1, <3>2
  <2> QED BY <1>a, <2>1
<1>3. CASE session' = session
  BY <1>a, <1>1, <1>3
<1>4. ASSUME NEW s \in Sessions, NEW q \in Requests, Committed(s, q) PROVE RequestsSound'
  BY <1>0, <1>2, <1>4 DEF Committed, Done, IdleSound
<1>5. CASE Spoken
  BY <1>2, <1>5 DEF Spoken
<1>6. CASE Configure \/ ChangeGrant \/ SetRetention \/ PurgeExpired \/ HourPasses \/ UNCHANGED vars
  BY <1>3, <1>6 DEF Configure, ChangeGrant, SetRetention, PurgeExpired, HourPasses, vars
<1> QED BY Steps, <1>4, <1>5, <1>6

LEMMA DatesKept == ASSUME Calls, [Next]_vars PROVE ReceiptsDated'
<1>0. TypeOK /\ ReceiptsDated /\ HistoryKept
  BY HistoryIsKept DEF Calls, Shape
<1>1. ASSUME NEW s \in Sessions, NEW q \in Requests, Committed(s, q) PROVE ReceiptsDated'
  <2>1. q.config = source.config /\ source.config \in Nat \ {0}
    BY <1>0, <1>1, ConfigTyped DEF Committed, SameCommand, Entitled, IsCurrent
  <2>2. PICK n \in Nat : Follows(n, s, q)
    BY <1>0, <1>1, CommitFollows
  <2>3. ASSUME NEW i \in DOMAIN receipts' PROVE receipts'[i].request.config \in 1 .. source'.config
    <3>1. CASE i = n
      BY <1>0, <2>1, <2>2, <3>1 DEF Follows, HistoryKept
    <3>2. CASE i # n
      <4>1. i \in DOMAIN receipts /\ receipts'[i] = receipts[i]
        BY <2>2, <3>2 DEF Follows
      <4> QED BY <1>0, <4>1 DEF ReceiptsDated, HistoryKept
    <3> QED BY <3>1, <3>2
  <2> QED BY <2>3 DEF ReceiptsDated
<1>2. CASE receipts' = receipts
  BY <1>0, <1>2 DEF ReceiptsDated, HistoryKept
<1> QED BY <1>1, <1>2, ReceiptSteps

LEMMA CallsKept == ASSUME Calls, [Next]_vars PROVE Calls'
BY ShapeKept, RequestsKept, DatesKept DEF Calls

-----------------------------------------------------------------------------
(* Receipts *)

LEMMA OneReceiptKept ==
  ASSUME Calls, OneReceiptPerCommand, [Next]_vars PROVE OneReceiptPerCommand'
<1>1. ASSUME NEW s \in Sessions, NEW q \in Requests, Committed(s, q)
      PROVE  OneReceiptPerCommand'
  <2>a. PICK n \in Nat : Follows(n, s, q)
    BY <1>1, CommitFollows DEF Calls, Shape
  <2>0. /\ n \in Nat /\ n - 1 = Len(receipts) /\ DOMAIN receipts = 1 .. (n - 1)
        /\ DOMAIN receipts' = 1 .. n
        /\ \A i \in DOMAIN receipts : receipts'[i] = receipts[i]
        /\ receipts'[n].subject = Subject(s) /\ receipts'[n].request = q
    BY <2>a DEF Follows
  <2>1. ASSUME NEW r \in Receipts PROVE r \notin Earlier(Subject(s), Request(s))
    BY <1>1 DEF Committed
  <2>2. ASSUME NEW i \in DOMAIN receipts, Subject(s) # Runtime,
               receipts[i].request.kind = q.kind
        PROVE  /\ ~(receipts[i].subject = Subject(s) /\ receipts[i].request.key = q.key)
               /\ ~(q.event # None /\ receipts[i].request.event = q.event)
    <3>1. receipts[i] \in Receipts
      BY DEF Receipts
    <3>2. receipts[i] \notin Earlier(Subject(s), Request(s))
      BY <2>1, <3>1
    <3> QED BY <1>1, <2>2, <3>1, <3>2 DEF Earlier, Committed, SameCommand
  <2> SUFFICES ASSUME NEW i \in DOMAIN receipts', NEW j \in DOMAIN receipts', i < j,
                      receipts'[i].subject # Runtime, receipts'[j].subject # Runtime,
                      receipts'[i].request.kind = receipts'[j].request.kind
               PROVE  /\ ~(/\ receipts'[i].subject = receipts'[j].subject
                           /\ receipts'[i].request.key = receipts'[j].request.key)
                      /\ ~(/\ receipts'[i].request.event # None
                           /\ receipts'[i].request.event = receipts'[j].request.event)
    BY DEF OneReceiptPerCommand
  <2>3. i \in DOMAIN receipts /\ receipts'[i] = receipts[i]
    BY <2>0
  <2>4. CASE j = n
    BY <2>0, <2>2, <2>3, <2>4
  <2>5. CASE j # n
    <3>1. j \in DOMAIN receipts /\ receipts'[j] = receipts[j]
      BY <2>0, <2>5
    <3> QED BY <2>3, <3>1 DEF OneReceiptPerCommand
  <2> QED BY <2>4, <2>5
<1>2. CASE receipts' = receipts
  BY <1>2 DEF OneReceiptPerCommand
<1> QED BY <1>1, <1>2, ReceiptSteps

LEMMA ImportedOnceKept == ASSUME Calls, ImportedOnce, [Next]_vars PROVE ImportedOnce'
<1>1. ASSUME NEW s \in Sessions, NEW q \in Requests, Committed(s, q) PROVE ImportedOnce'
  <2>a. PICK n \in Nat : Follows(n, s, q)
    BY <1>1, CommitFollows DEF Calls, Shape
  <2>0. /\ n \in Nat /\ n - 1 = Len(receipts) /\ DOMAIN receipts = 1 .. (n - 1)
        /\ DOMAIN receipts' = 1 .. n
        /\ \A i \in DOMAIN receipts : receipts'[i] = receipts[i]
        /\ receipts'[n].subject = Subject(s) /\ receipts'[n].request = q
    BY <2>a DEF Follows
  <2>1. ASSUME NEW i \in DOMAIN receipts, IsImport(receipts[i]), q.kind = "CSV_REVIEWED_IMPORT"
        PROVE  receipts[i].request.parent # q.parent
    BY <1>1, <2>1 DEF Committed, FirstImport, Receipts
  <2> SUFFICES ASSUME NEW i \in DOMAIN receipts', NEW j \in DOMAIN receipts',
                      receipts'[i].request.kind = "CSV_REVIEWED_IMPORT",
                      receipts'[j].request.kind = "CSV_REVIEWED_IMPORT",
                      receipts'[i].request.parent = receipts'[j].request.parent
               PROVE  i = j
    BY DEF ImportedOnce, IsImport
  <2>2. CASE i # n /\ j # n
    <3>1. i \in DOMAIN receipts /\ j \in DOMAIN receipts
      BY <2>0, <2>2
    <3> QED BY <2>0, <3>1 DEF ImportedOnce, IsImport
  <2>3. CASE i = n /\ j # n
    <3>1. j \in DOMAIN receipts
      BY <2>0, <2>3
    <3> QED BY <2>0, <2>1, <2>3, <3>1 DEF IsImport
  <2>4. CASE i # n /\ j = n
    <3>1. i \in DOMAIN receipts
      BY <2>0, <2>4
    <3> QED BY <2>0, <2>1, <2>4, <3>1 DEF IsImport
  <2> QED BY <2>2, <2>3, <2>4
<1>2. CASE receipts' = receipts
  BY <1>2 DEF ImportedOnce, IsImport
<1> QED BY <1>1, <1>2, ReceiptSteps

LEMMA ImportsFaithfulKept == ASSUME Calls, ImportsFaithful, [Next]_vars PROVE ImportsFaithful'
<1> DEFINE Faithful(n) ==
      receipts[n].request.kind = "CSV_REVIEWED_IMPORT" =>
        /\ receipts[n].request.parent \in 1 .. (n - 1)
        /\ receipts[receipts[n].request.parent].request.kind = "CSV_PREVIEW"
        /\ receipts[receipts[n].request.parent].request.config = receipts[n].request.config
        /\ receipts[n].request.rows \subseteq receipts[receipts[n].request.parent].request.rows
<1>0. (ImportsFaithful <=> \A n \in DOMAIN receipts : Faithful(n))
      /\ (ImportsFaithful' <=> \A n \in DOMAIN receipts' : Faithful(n)')
  BY DEF ImportsFaithful, IsImport
<1>1. ASSUME NEW s \in Sessions, NEW q \in Requests, Committed(s, q) PROVE ImportsFaithful'
  <2>a. PICK n \in Nat : Follows(n, s, q)
    BY <1>1, CommitFollows DEF Calls, Shape
  <2>0. /\ n \in Nat /\ n - 1 = Len(receipts) /\ DOMAIN receipts = 1 .. (n - 1)
        /\ DOMAIN receipts' = 1 .. n
        /\ \A i \in DOMAIN receipts : receipts'[i] = receipts[i]
        /\ receipts'[n].subject = Subject(s) /\ receipts'[n].request = q
    BY <2>a DEF Follows
  <2>1. /\ SameCommand(q, Request(s)) /\ q.config = source.config
        /\ q.kind = "CSV_REVIEWED_IMPORT" => FirstImport(q)
    BY <1>1 DEF Committed, SameCommand, Entitled, IsCurrent
  <2>2. q.kind = "CSV_REVIEWED_IMPORT" =>
          /\ q.parent \in DOMAIN receipts
          /\ receipts[q.parent].request.kind = "CSV_PREVIEW"
          /\ q.rows \subseteq receipts[q.parent].request.rows
    BY <2>1 DEF Calls, RequestsSound, RequestSound, SameCommand
  <2>3. Faithful(n)'
    BY <2>0, <2>1, <2>2 DEF FirstImport
  <2>4. ASSUME NEW i \in DOMAIN receipts PROVE Faithful(i)'
    <3>1. Faithful(i) /\ i \in 1 .. (n - 1)
      BY <1>0, <2>0
    <3>2. receipts'[i] = receipts[i]
      BY <2>0
    <3>3. receipts[i].request.kind = "CSV_REVIEWED_IMPORT" =>
            receipts'[receipts[i].request.parent] = receipts[receipts[i].request.parent]
      BY <2>0, <3>1
    <3> QED BY <3>1, <3>2, <3>3
  <2> QED BY <1>0, <2>0, <2>3, <2>4
<1>2. CASE receipts' = receipts
  BY <1>0, <1>2
<1> QED BY <1>1, <1>2, ReceiptSteps

-----------------------------------------------------------------------------
(* Content *)

\* What a step may do to content: it is born of versions that have not
\* expired and redacted of versions that have.
ContentKept ==
  \A v \in Versions, m \in Mappings :
    content'[v][m] # content[v][m] =>
      \/ Born(v, m)
      \/ /\ content[v][m] = "live" /\ content'[v][m] = "redacted"
         /\ policy.revision > 0 /\ Expired(v)

LEMMA ContentIsKept == ASSUME Calls, [Next]_vars PROVE ContentKept
<1>1. ASSUME NEW s \in Sessions, NEW q \in Requests, Committed(s, q) PROVE ContentKept
  BY <1>1 DEF Committed, Filled, ContentKept
<1>2. CASE PurgeExpired
  <2>1. PICK batch \in SUBSET Redactable : content' = [v \in Versions |-> [m \in Mappings |->
            IF <<v, m>> \in batch THEN "redacted" ELSE content[v][m]]]
    BY <1>2 DEF PurgeExpired
  <2>2. policy.revision > 0
    BY <1>2 DEF PurgeExpired
  <2>3. ASSUME NEW v \in Versions, NEW m \in Mappings, content'[v][m] # content[v][m]
        PROVE  content[v][m] = "live" /\ content'[v][m] = "redacted" /\ Expired(v)
    <3>1. content'[v][m] = IF <<v, m>> \in batch THEN "redacted" ELSE content[v][m]
      BY <2>1
    <3>2. <<v, m>> \in Redactable /\ content'[v][m] = "redacted"
      BY <2>3, <3>1
    <3>3. content[v][m] = "live" /\ Expired(v)
      BY <3>2 DEF Redactable
    <3> QED BY <3>2, <3>3
  <2> QED BY <2>2, <2>3 DEF ContentKept
<1>3. CASE Spoken \/ Configure \/ ChangeGrant \/ SetRetention \/ HourPasses \/ UNCHANGED vars
  BY <1>3 DEF Spoken, Configure, ChangeGrant, SetRetention, HourPasses, vars, ContentKept
<1> QED BY Steps, <1>1, <1>2, <1>3

LEMMA BackedKept == ASSUME Calls, ReceiptsBacked, [Next]_vars PROVE ReceiptsBacked'
<1>a. TypeOK /\ ReceiptsDated /\ HistoryKept /\ ContentKept
  BY HistoryIsKept, ContentIsKept DEF Calls, Shape
<1>b. configs \in Seq(ConfigRows) /\ receipts \in Seq(ReceiptRows)
  BY <1>a DEF TypeOK
<1>c. \A i \in DOMAIN configs : configs[i].mapping \in Mappings
  <2>1. ASSUME NEW i \in DOMAIN configs PROVE configs[i] \in ConfigRows
    BY <1>b
  <2> QED BY <2>1 DEF ConfigRows
<1>d. \A i \in DOMAIN receipts : receipts[i].request.rows \subseteq Versions
  <2>1. ASSUME NEW i \in DOMAIN receipts PROVE receipts[i] \in ReceiptRows
    BY <1>b
  <2> QED BY <2>1 DEF ReceiptRows, Requests
<1>0. /\ TypeOK /\ ReceiptsDated /\ HistoryKept /\ ContentKept
      /\ \A i \in DOMAIN configs : configs[i].mapping \in Mappings
      /\ \A i \in DOMAIN receipts : receipts[i].request.rows \subseteq Versions
  BY <1>a, <1>c, <1>d
<1>1. ASSUME NEW i \in DOMAIN receipts PROVE RowsBacked(i)'
  <2> DEFINE c == receipts[i].request.config
  <2>1. c \in DOMAIN configs /\ configs'[c] = configs[c] /\ receipts'[i] = receipts[i]
    BY <1>0 DEF ReceiptsDated, HistoryKept
  <2>2. ASSUME NEW v \in receipts[i].request.rows
        PROVE  content'[v][configs[c].mapping] # "none"
    <3>1. v \in Versions /\ configs[c].mapping \in Mappings
      BY <1>0, <2>1
    <3>2. content[v][configs[c].mapping] # "none"
      BY DEF ReceiptsBacked, RowsBacked
    <3> QED BY <1>0, <3>1, <3>2 DEF ContentKept, Born
  <2> QED BY <2>1, <2>2 DEF RowsBacked
<1>2. CASE receipts' = receipts
  BY <1>1, <1>2 DEF ReceiptsBacked
<1>3. ASSUME NEW s \in Sessions, NEW q \in Requests, Committed(s, q) PROVE ReceiptsBacked'
  <2>1. PICK n \in Nat : Follows(n, s, q)
    BY <1>0, <1>3, CommitFollows
  <2>2. /\ \A v \in q.rows : content'[v][configs[source.config].mapping] # "none"
        /\ q.config = source.config /\ configs' = configs
    BY <1>3 DEF Committed, Filled, Config, SameCommand, Entitled, IsCurrent
  <2>3. RowsBacked(n)'
    BY <2>1, <2>2 DEF RowsBacked, Follows
  <2>4. ASSUME NEW i \in DOMAIN receipts' PROVE RowsBacked(i)'
    <3>1. i = n \/ i \in DOMAIN receipts
      BY <2>1 DEF Follows
    <3> QED BY <1>1, <2>3, <3>1
  <2> QED BY <2>4 DEF ReceiptsBacked
<1> QED BY <1>2, <1>3, ReceiptSteps

LEMMA ExpiredStays ==
  ASSUME Calls, policy.audit = policy.revision, [Next]_vars
  PROVE  /\ (policy.audit = policy.revision)'
         /\ policy.revision > 0 => /\ policy'.revision > 0
                                   /\ \A v \in Versions : Expired(v) => Expired(v)'
<1>0. /\ policy \in PolicyRows /\ age \in [Versions -> Nat \cup {None}] /\ None \notin Nat
      /\ policy.revision \in Nat /\ policy.hours \in Nat /\ MaxHours \in Nat
  BY IngestionAssumption DEF Calls, Shape, TypeOK, PolicyRows
<1>1. ASSUME NEW s \in Sessions, NEW q \in Requests, Committed(s, q)
      PROVE  policy' = policy /\ \A v \in Versions : age[v] # None => age'[v] = age[v]
  BY <1>1 DEF Committed, Filled
<1>2. CASE SetRetention
  <2>1. PICK hours \in 1 .. MaxHours :
          /\ policy.revision > 0 => RetentionGuardAccepts(policy, NewPolicy(hours))
          /\ policy' = NewPolicy(hours)
    BY <1>2 DEF SetRetention
  <2>2. ~(policy.revision > 0)
    BY <1>0, <2>1 DEF RetentionGuardAccepts, NewPolicy
  <2> QED BY <2>1, <2>2 DEF NewPolicy
<1>3. CASE HourPasses
  <2>1. age' = [v \in Versions |-> IF age[v] # None /\ age[v] < MaxHours THEN age[v] + 1 ELSE age[v]]
        /\ policy' = policy
    BY <1>3 DEF HourPasses
  <2>2. ASSUME NEW v \in Versions, age[v] # None
        PROVE  age'[v] # None /\ (age[v] >= policy.hours => age'[v] >= policy.hours)
    <3>1. age[v] \in Nat /\ age[v] + 1 \in Nat /\ age[v] + 1 # None
      BY <1>0, <2>2
    <3> QED BY <1>0, <2>1, <2>2, <3>1
  <2> QED BY <2>1, <2>2 DEF Expired
<1>4. CASE Spoken \/ Configure \/ ChangeGrant \/ PurgeExpired \/ UNCHANGED vars
  <2>1. policy' = policy /\ age' = age
    BY <1>4 DEF Spoken, Configure, ChangeGrant, PurgeExpired, vars
  <2> QED BY <2>1 DEF Expired
<1>5. CASE \E s \in Sessions, q \in Requests : Committed(s, q)
  BY <1>1, <1>5 DEF Expired
<1> QED BY Steps, <1>2, <1>3, <1>4, <1>5

LEMMA PurgedKept == ASSUME Calls, PurgedIsExpired, [Next]_vars PROVE PurgedIsExpired'
<1>1. ContentKept /\ policy.audit = policy.revision
  BY ContentIsKept DEF PurgedIsExpired
<1>2. ASSUME NEW v \in Versions, NEW m \in Mappings, content'[v][m] = "redacted"
      PROVE  policy.revision > 0 /\ Expired(v)
  <2>1. CASE content[v][m] = "redacted"
    BY <2>1 DEF PurgedIsExpired
  <2>2. CASE content[v][m] # "redacted"
    BY <1>1, <1>2, <2>2 DEF ContentKept, Born
  <2> QED BY <2>1, <2>2
<1>3. ASSUME NEW v \in Versions, NEW m \in Mappings, content'[v][m] = "redacted"
      PROVE  policy'.revision > 0 /\ Expired(v)'
  BY <1>1, <1>2, <1>3, ExpiredStays
<1>4. (policy.audit = policy.revision)'
  BY <1>1, ExpiredStays
<1> QED BY <1>3, <1>4 DEF PurgedIsExpired

-----------------------------------------------------------------------------
(* The chain of cursors *)

LEMMA MovesFinite ==
  ASSUME TypeOK
  PROVE  /\ IsFiniteSet(Moves) /\ IsFiniteSet(ResetsIn(Moves))
         /\ Cardinality(Moves) \in Nat /\ Cardinality(ResetsIn(Moves)) \in Nat
<1>1. receipts \in Seq(ReceiptRows) /\ Len(receipts) \in Nat
  BY ConfigTyped DEF TypeOK
<1>2. IsFiniteSet(1 .. Len(receipts))
  BY <1>1, FS_Interval
<1>3. Moves \subseteq 1 .. Len(receipts) /\ ResetsIn(Moves) \subseteq Moves
  BY <1>1 DEF Moves, ResetsIn
<1>4. IsFiniteSet(Moves)
  BY <1>2, <1>3, FS_Subset
<1>5. IsFiniteSet(ResetsIn(Moves))
  BY <1>3, <1>4, FS_Subset
<1> QED BY <1>4, <1>5, FS_CardinalityType

\* CursorChain of one move, and of the row.
LinkAt(n, cursor, generation) ==
  /\ receipts[n].request.cursor = cursor
  /\ receipts[n].request.generation = generation
  /\ receipts[n].request.kind = "CONNECTOR_PAGE" =>
       \E p \in MovesBefore(n) : Continues(p, n)

Link(n) ==
  LinkAt(n, Cardinality(MovesBefore(n)), 1 + Cardinality(ResetsIn(MovesBefore(n))))

Counted ==
  /\ source.cursor = Cardinality(Moves)
  /\ source.generation = 1 + Cardinality(ResetsIn(Moves))

LEMMA ChainHasLinks == ASSUME CursorChain PROVE Counted /\ \A n \in Moves : Link(n)
BY DEF CursorChain, Counted, Link, LinkAt

LEMMA LinksMakeChain ==
  ASSUME Counted', \A n \in Moves' : Link(n)' PROVE CursorChain'
BY DEF CursorChain, Counted, Link, LinkAt

LEMMA OldLinks ==
  ASSUME Calls, NEW s \in Sessions, NEW q \in Requests, Committed(s, q),
         NEW n \in Nat, Follows(n, s, q), NEW i \in Moves, Link(i)
  PROVE  Link(i)'
<1>1. /\ Moves \subseteq DOMAIN receipts /\ i \in Nat /\ i < n
      /\ DOMAIN receipts \subseteq Nat
      /\ \A j \in DOMAIN receipts : receipts'[j] = receipts[j]
  BY DEF Follows, Moves
<1>2. MovesBefore(i)' = MovesBefore(i)
  BY <1>1 DEF Follows, Moves, MovesBefore
<1>3. MovesBefore(i) \subseteq DOMAIN receipts
  BY <1>1 DEF MovesBefore
<1>4. ResetsIn(MovesBefore(i))' = ResetsIn(MovesBefore(i))
  BY <1>1, <1>2, <1>3 DEF ResetsIn
<1>5. ASSUME NEW p \in MovesBefore(i), Continues(p, i) PROVE Continues(p, i)'
  BY <1>1, <1>2, <1>3, <1>5 DEF Continues
<1>6. receipts'[i] = receipts[i]
  BY <1>1
<1> QED BY <1>2, <1>4, <1>5, <1>6 DEF Link, LinkAt

LEMMA ChainKept ==
  ASSUME Calls, CursorChain, CursorHead, [Next]_vars PROVE CursorChain' /\ CursorHead'
<1>0. TypeOK /\ source \in SourceRows /\ Counted /\ \A i \in Moves : Link(i)
  BY ChainHasLinks DEF Calls, Shape, TypeOK
<1>1. ASSUME NEW s \in Sessions, NEW q \in Requests, Committed(s, q)
      PROVE  CursorChain' /\ CursorHead'
  <2>1. PICK n \in Nat : Follows(n, s, q)
    BY <1>0, <1>1, CommitFollows
  <2>2. /\ DOMAIN receipts = 1 .. (n - 1) /\ DOMAIN receipts' = 1 .. n
        /\ \A i \in DOMAIN receipts : receipts'[i] = receipts[i]
        /\ receipts'[n].request = q
    BY <2>1 DEF Follows
  <2>3. Moves \subseteq 1 .. (n - 1) /\ n \notin Moves
    BY <2>2 DEF Moves
  <2>4. \A i \in Moves : Link(i)'
    BY <1>0, <1>1, <2>1, OldLinks
  <2>5. /\ Moved(q) /\ q.config = source.config /\ q.terminal \in BOOLEAN
        /\ q.kind = "SYNC_RESET" => ~q.terminal
    <3>1. SameCommand(q, Request(s)) /\ Request(s).config = source.config
      BY <1>1 DEF Committed, Entitled, IsCurrent
    <3>2. RequestSound(Request(s))
      BY DEF Calls, RequestsSound
    <3> QED BY <1>1, <3>1, <3>2 DEF Committed, SameCommand, RequestSound, Requests
  <2>6. CASE q.kind \notin Transitions
    <3>1. Moves' = Moves
      BY <2>2, <2>3, <2>6 DEF Moves
    <3>2. ResetsIn(Moves)' = ResetsIn(Moves)
      BY <2>2, <2>3, <3>1 DEF ResetsIn
    <3>3. source' = source
      BY <2>5, <2>6 DEF Moved
    <3>4. CursorChain'
      <4>1. Counted'
        BY <1>0, <3>1, <3>2, <3>3 DEF Counted
      <4>2. \A i \in Moves' : Link(i)'
        BY <2>4, <3>1
      <4> QED BY <4>1, <4>2, LinksMakeChain
    <3>5. CursorHead'
      BY <2>2, <2>3, <3>1, <3>3 DEF CursorHead, LastMove
    <3> QED BY <3>4, <3>5
  <2>7. CASE q.kind \in Transitions
    <3>1. Moves' = Moves \cup {n}
      <4>1. Moves' = {i \in 1 .. n : receipts'[i].request.kind \in Transitions}
        BY <2>2 DEF Moves
      <4>2. ASSUME NEW i \in 1 .. n, i # n PROVE i \in Moves' <=> i \in Moves
        <5>1. i \in DOMAIN receipts /\ receipts'[i] = receipts[i]
          BY <2>2, <4>2
        <5> QED BY <4>1, <5>1 DEF Moves
      <4>3. n \in Moves'
        <5>1. n \in 1 .. n
          BY <2>1 DEF Follows
        <5> QED BY <2>2, <2>7, <4>1, <5>1
      <4>4. Moves \subseteq 1 .. n
        BY <2>3
      <4>5. Moves' \subseteq 1 .. n
        BY <4>1
      <4>6. ASSUME NEW i PROVE i \in Moves' <=> i \in Moves \/ i = n
        BY <4>2, <4>3, <4>4, <4>5
      <4> QED BY <4>6
    <3>2. ResetsIn(Moves)' = IF q.kind = "SYNC_RESET" THEN ResetsIn(Moves) \cup {n}
                             ELSE ResetsIn(Moves)
      BY <2>2, <2>3, <3>1 DEF ResetsIn
    <3>3. /\ IsFiniteSet(Moves) /\ IsFiniteSet(ResetsIn(Moves))
          /\ Cardinality(Moves) \in Nat /\ Cardinality(ResetsIn(Moves)) \in Nat
          /\ n \notin ResetsIn(Moves)
      BY <1>0, <2>3, MovesFinite DEF ResetsIn
    <3>4. Cardinality(Moves') = Cardinality(Moves) + 1
      BY <2>3, <3>1, <3>3, FS_AddElement
    <3>5. Cardinality(ResetsIn(Moves) \cup {n}) = Cardinality(ResetsIn(Moves)) + 1
      BY <3>3, FS_AddElement
    <3>6. MovesBefore(n)' = Moves /\ ResetsIn(MovesBefore(n))' = ResetsIn(Moves)
      <4>1. MovesBefore(n)' = {i \in Moves \cup {n} : i < n}
        BY <3>1 DEF MovesBefore
      <4>2. \A i \in Moves : i < n
        BY <2>3
      <4>3. MovesBefore(n)' = Moves
        BY <4>1, <4>2
      <4> QED BY <2>2, <2>3, <4>3 DEF ResetsIn
    <3>7. q.cursor = Cardinality(Moves) /\ q.generation = 1 + Cardinality(ResetsIn(Moves))
      BY <1>0, <2>5, <2>7 DEF Moved, Counted
    <3>8. q.kind = "CONNECTOR_PAGE" => \E p \in MovesBefore(n)' : Continues(p, n)'
      <4>1. SUFFICES ASSUME q.kind = "CONNECTOR_PAGE"
                     PROVE  \E p \in Moves : Continues(p, n)'
        BY <3>6
      <4>2. PICK p \in Moves : /\ \A i \in Moves : i <= p
                               /\ ~receipts[p].request.terminal
                               /\ receipts[p].request.config = source.config
        BY <2>5, <4>1 DEF Moved, CursorHead, LastMove
      <4>3. p < n /\ p \in DOMAIN receipts /\ receipts'[p] = receipts[p]
        BY <2>2, <2>3
      <4>4. Continues(p, n)'
        BY <2>2, <2>5, <3>6, <4>2, <4>3 DEF Continues
      <4> QED BY <4>4
    <3>9. Link(n)'
      BY <2>2, <3>6, <3>7, <3>8 DEF Link, LinkAt
    <3>10. Counted'
      <4>1. CASE q.kind = "SYNC_RESET"
        <5>1. source' = [source EXCEPT !.cursor = @ + 1, !.generation = @ + 1, !.state = "READY"]
          BY <2>5, <4>1 DEF Moved
        <5>2. source'.cursor = source.cursor + 1 /\ source'.generation = source.generation + 1
          BY <1>0, <5>1 DEF SourceRows
        <5> QED BY <1>0, <3>2, <3>3, <3>4, <3>5, <4>1, <5>2 DEF Counted
      <4>2. CASE q.kind = "CONNECTOR_PAGE"
        <5>1. source' = [source EXCEPT
                !.cursor = @ + 1, !.state = IF q.terminal THEN "TERMINAL" ELSE "READY"]
          BY <2>5, <4>2 DEF Moved
        <5>2. source'.cursor = source.cursor + 1 /\ source'.generation = source.generation
          BY <1>0, <5>1 DEF SourceRows
        <5> QED BY <1>0, <3>2, <3>3, <3>4, <4>2, <5>2 DEF Counted
      <4> QED BY <2>7, <4>1, <4>2 DEF Transitions
    <3>11. CursorChain'
      <4>1. \A i \in Moves' : Link(i)'
        BY <2>4, <3>1, <3>9
      <4> QED BY <3>10, <4>1, LinksMakeChain
    <3>12. CursorHead'
      <4>1. SUFFICES ASSUME source'.state = "READY"
                     PROVE  ~q.terminal /\ q.config = source'.config
        BY <2>2, <2>3, <3>1 DEF CursorHead, LastMove
      <4>2. CASE q.kind = "SYNC_RESET"
        <5>1. source' = [source EXCEPT !.cursor = @ + 1, !.generation = @ + 1, !.state = "READY"]
          BY <2>5, <4>2 DEF Moved
        <5> QED BY <1>0, <2>5, <4>2, <5>1 DEF SourceRows
      <4>3. CASE q.kind = "CONNECTOR_PAGE"
        <5>1. source' = [source EXCEPT
                !.cursor = @ + 1, !.state = IF q.terminal THEN "TERMINAL" ELSE "READY"]
          BY <2>5, <4>3 DEF Moved
        <5>2. source'.config = source.config
          BY <1>0, <5>1 DEF SourceRows
        <5>3. source'.state = IF q.terminal THEN "TERMINAL" ELSE "READY"
          BY <1>0, <5>1 DEF SourceRows
        <5> QED BY <2>5, <4>1, <5>2, <5>3
      <4> QED BY <2>7, <4>2, <4>3 DEF Transitions
    <3> QED BY <3>11, <3>12
  <2> QED BY <2>6, <2>7
<1>2. ASSUME receipts' = receipts, source'.cursor = source.cursor,
             source'.generation = source.generation
      PROVE  CursorChain'
  <2>1. Counted' /\ Moves' = Moves
    BY <1>0, <1>2 DEF Counted, Moves, ResetsIn
  <2>2. \A i \in Moves : Link(i)'
    BY <1>0, <1>2 DEF Link, LinkAt, MovesBefore, Moves, ResetsIn, Continues
  <2>3. \A i \in Moves' : Link(i)'
    BY <2>1, <2>2
  <2>4. Counted'
    BY <2>1
  <2> QED BY <2>3, <2>4, LinksMakeChain
<1>3. CASE Configure
  <2>1. source' = [source EXCEPT !.config = @ + 1, !.state = "RESET_REQUIRED"]
        /\ receipts' = receipts
    BY <1>3 DEF Configure
  <2>2. /\ source'.state = "RESET_REQUIRED" /\ source'.cursor = source.cursor
        /\ source'.generation = source.generation
    BY <1>0, <2>1 DEF SourceRows
  <2> QED BY <1>2, <2>1, <2>2 DEF CursorHead
<1>4. CASE Spoken \/ ChangeGrant \/ SetRetention \/ PurgeExpired \/ HourPasses \/ UNCHANGED vars
  <2>1. source' = source /\ receipts' = receipts
    BY <1>4 DEF Spoken, ChangeGrant, SetRetention, PurgeExpired, HourPasses, vars
  <2> QED BY <1>2, <2>1 DEF CursorHead, LastMove, Moves
<1> QED BY Steps, <1>1, <1>3, <1>4

-----------------------------------------------------------------------------
(* The theorems *)

LEMMA Initially == ASSUME Init PROVE IInv
<1>1. PICK kind \in MappingKinds :
        configs = <<[kind |-> kind, mapping |-> 1, readers |-> Subjects]>>
  BY DEF Init
<1>2. /\ source = [config |-> 1, cursor |-> 0, generation |-> 1, state |-> "RESET_REQUIRED"]
      /\ granted = Subjects /\ policy = [hours |-> 0, revision |-> 0, audit |-> 0]
      /\ age = [v \in Versions |-> None]
      /\ content = [v \in Versions |-> [m \in Mappings |-> "none"]]
      /\ receipts = <<>> /\ session = [s \in Sessions |-> Idle]
  BY DEF Init
<1>3. MaxConfig \in Nat \ {0} /\ 1 \in Mappings
  BY IngestionAssumption DEF Mappings
<1>4. configs \in Seq(ConfigRows) /\ Len(configs) = 1 /\ DOMAIN configs = {1}
  BY <1>1, <1>3 DEF ConfigRows
<1>5. NoRequest \in Requests /\ Idle \in SessionRows
  BY DEF NoRequest, Requests, Kinds, CsvKinds, Idle, SessionRows
<1>6. receipts \in Seq(ReceiptRows) /\ DOMAIN receipts = {} /\ Moves = {} /\ ResetsIn(Moves) = {}
  BY <1>2 DEF Moves, ResetsIn
<1>7. source \in SourceRows /\ source.config = 1
  BY <1>2 DEF SourceRows
<1>8. TypeOK
  <2>1. policy \in PolicyRows /\ age \in [Versions -> Nat \cup {None}] /\ granted \subseteq Subjects
    BY <1>2 DEF PolicyRows
  <2>2. content \in [Versions -> [Mappings -> {"none", "live", "redacted"}]]
    BY <1>2
  <2>3. session \in [Sessions -> SessionRows]
    BY <1>2, <1>5
  <2> QED BY <1>3, <1>4, <1>6, <1>7, <2>1, <2>2, <2>3 DEF TypeOK
<1>9. MappingsInOrder
  BY <1>1, <1>4 DEF MappingsInOrder
<1>10. RequestsSound /\ ReceiptsDated
  <2>1. RequestSound(NoRequest)
    BY <1>7 DEF RequestSound, NoRequest
  <2> QED BY <1>2, <1>6, <2>1 DEF RequestsSound, ReceiptsDated, Request, Idle
<1>11. OneReceiptPerCommand /\ ImportedOnce /\ ImportsFaithful /\ ReceiptsBacked
  BY <1>6 DEF OneReceiptPerCommand, ImportedOnce, ImportsFaithful, ReceiptsBacked
<1>12. PurgedIsExpired
  BY <1>2 DEF PurgedIsExpired
<1>13. CursorChain /\ CursorHead
  <2>1. Cardinality({}) = 0
    BY FS_EmptySet
  <2>2. source.cursor = 0 /\ source.generation = 1 /\ source.state = "RESET_REQUIRED"
    BY <1>2
  <2>3. Cardinality(Moves) = 0 /\ Cardinality(ResetsIn(Moves)) = 0
    BY <1>6, <2>1
  <2>4. CursorHead
    BY <2>2 DEF CursorHead
  <2> QED BY <1>6, <2>2, <2>3, <2>4 DEF CursorChain
<1> QED BY <1>8, <1>9, <1>10, <1>11, <1>12, <1>13 DEF IInv, Calls, Shape

LEMMA Inductive == ASSUME IInv, [Next]_vars PROVE IInv'
BY CallsKept, OneReceiptKept, ImportedOnceKept, ImportsFaithfulKept, BackedKept, PurgedKept,
   ChainKept DEF IInv

\* The invariant that the other theorems rest on.
THEOREM InvariantHolds == Spec => []IInv
<1>1. Init => IInv
  BY Initially
<1>2. IInv /\ [Next]_vars => IInv'
  BY Inductive
<1> QED BY <1>1, <1>2, PTL DEF Spec

\* The rows keep their types (IngestionSource, IngestionConfigurationRevision,
\* IngestionRetentionPolicy, IngestionOperationReceipt), whatever calls are
\* in flight.
THEOREM TypesKept == Spec => []TypeOK
<1>1. IInv => TypeOK
  BY DEF IInv, Calls, Shape
<1> QED BY <1>1, InvariantHolds, PTL

\* A command and an event leave one receipt, however the calls of any number
\* of operators overlap.
THEOREM CommandsOnce == Spec => []OneReceiptPerCommand
<1>1. IInv => OneReceiptPerCommand
  BY DEF IInv
<1> QED BY <1>1, InvariantHolds, PTL

\* A preview is imported at most once, whoever retries it.
THEOREM PreviewsImportedOnce == Spec => []ImportedOnce
<1>1. IInv => ImportedOnce
  BY DEF IInv
<1> QED BY <1>1, InvariantHolds, PTL

\* An import is of the rows that were reviewed, under the configuration they
\* were reviewed with, however the source is remapped in between.
THEOREM ImportsOfReviewedRows == Spec => []ImportsFaithful
<1>1. IInv => ImportsFaithful
  BY DEF IInv
<1> QED BY <1>1, InvariantHolds, PTL

\* No upload, reconfiguration or purge takes away the content row of a row that a
\* receipt accepted.
THEOREM ReceiptsStayBacked == Spec => []ReceiptsBacked
<1>1. IInv => ReceiptsBacked
  BY DEF IInv
<1> QED BY <1>1, InvariantHolds, PTL

\* The pages and resets of a source are one unbroken chain of cursors that
\* ends at the source row.
THEOREM CursorsChained == Spec => []CursorChain
<1>1. IInv => CursorChain
  BY DEF IInv
<1> QED BY <1>1, InvariantHolds, PTL

\* A version that was purged never gets content again, for any hours of
\* retention and any order of uploads, remappings and purges.
THEOREM PurgedForGood == Spec => NoResurrection
<1>1. ASSUME IInv, [Next]_vars
      PROVE  [\A v \in Versions :
               (\E m \in Mappings : content[v][m] = "redacted") =>
                 \A m \in Mappings : content'[v][m] = "live" => content[v][m] = "live"]_vars
  <2>1. ContentKept /\ PurgedIsExpired
    BY <1>1, ContentIsKept DEF IInv
  <2>2. ASSUME NEW v \in Versions, NEW m \in Mappings, content[v][m] = "redacted",
               NEW n \in Mappings, content'[v][n] = "live"
        PROVE  content[v][n] = "live"
    <3>1. Expired(v)
      BY <2>1, <2>2 DEF PurgedIsExpired
    <3> QED BY <2>1, <2>2, <3>1 DEF ContentKept, Born
  <2> QED BY <2>2
<1> QED BY <1>1, InvariantHolds, PTL DEF Spec, NoResurrection

\* A receipt is written for a subject that may write when it is written,
\* whatever was revoked or configured since preflight.
THEOREM WritersAuthorized == Spec => CommitsUnderAuthority
<1>1. ASSUME IInv, [Next]_vars
      PROVE  [\A n \in DOMAIN receipts' \ DOMAIN receipts :
                Authorized(receipts'[n].subject)]_vars
  <2>0. Calls /\ TypeOK
    BY <1>1 DEF IInv, Calls, Shape
  <2>1. CASE receipts' = receipts
    BY <2>1
  <2>2. ASSUME NEW s \in Sessions, NEW q \in Requests, Committed(s, q)
        PROVE  \A n \in DOMAIN receipts' \ DOMAIN receipts : Authorized(receipts'[n].subject)
    <3>1. PICK n \in Nat : Follows(n, s, q)
      BY <2>0, <2>2, CommitFollows
    <3>2. \A i \in DOMAIN receipts' \ DOMAIN receipts : i = n
      BY <3>1 DEF Follows
    <3>3. Authorized(Subject(s))
      BY <2>2 DEF Committed, Entitled
    <3> QED BY <3>1, <3>2, <3>3 DEF Follows
  <2> QED BY <1>1, <2>0, <2>1, <2>2, ReceiptSteps
<1> QED BY <1>1, InvariantHolds, PTL DEF Spec, CommitsUnderAuthority

=============================================================================
