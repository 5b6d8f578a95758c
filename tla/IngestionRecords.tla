-------------------------- MODULE IngestionRecords --------------------------
(***************************************************************************)
(* What an ingestion source remembers: the operator's commands on it and   *)
(* the pages of the Jira runtime, the content they proposed and its        *)
(* retention (DatabaseIngestionRepository,                                 *)
(* packages/data/src/ingestion-persistence.ts, with the row guards of      *)
(* migrations 202609230001 and 202609250001).                              *)
(*                                                                         *)
(* A command is two transactions.  preflight reads the configuration; what *)
(* follows (parsing a file, validating a page) happens outside any lock;   *)
(* the second transaction locks the projects and the source row, checks    *)
(* everything again and commits a receipt.  The second is one action here  *)
(* because every writer of the source holds that row.  A page or a reset   *)
(* of the runtime is the same pair without an operator.                    *)
(*                                                                         *)
(* A version is one revision of one external record, as its content hash   *)
(* and clocks identify it; two versions are of different records.  The     *)
(* accepted rows of a preview and the records of a page are sets of        *)
(* versions.  A caller naming another configuration than the one preflight *)
(* reads is always refused, so a request carries the one that was read.    *)
(***************************************************************************)
EXTENDS Naturals, Sequences, FiniteSets

CONSTANTS
  Sessions,     \* calls that may be in flight at the same time
  Subjects,     \* operators
  Runtime,      \* the subject of the Jira runtime
  Offered,      \* kinds of command operators send (the API offers CSV kinds)
  Keys,         \* command keys
  Events,       \* ids of connector events
  Versions,     \* revisions of external records
  Uploads,      \* what one file or one page may contain
  ReaderLists,  \* readers a configuration may name
  None,         \* no key, no event, not received
  MaxReceipts,  \* bound: receipts
  MaxConfig,    \* bound: configuration revisions
  MaxHours,     \* bound: hours of a retention policy
  PurgeLimit    \* 1000: contents one purge redacts

ASSUME IngestionAssumption ==
  /\ None \notin Keys /\ None \notin Events /\ None \notin Nat
  /\ Runtime \notin Subjects
  /\ Uploads \subseteq SUBSET Versions
  /\ ReaderLists \subseteq SUBSET Subjects
  /\ MaxReceipts \in Nat /\ MaxConfig \in Nat \ {0} /\ MaxHours \in Nat \ {0}
  /\ PurgeLimit \in Nat \ {0}

VARIABLES
  source,    \* the IngestionSource row
  configs,   \* IngestionConfigurationRevision rows, by revision
  granted,   \* operators whose project grant lets them write
  policy,    \* the IngestionRetentionPolicy row; revision 0: there is none
  age,       \* hours since a version was received; None: it was not
  content,   \* the content of a version's projection under a mapping
  receipts,  \* IngestionOperationReceipt rows, in the order they committed
  session    \* the calls in flight

vars == <<source, configs, granted, policy, age, content, receipts, session>>

CsvKinds == {"CSV_PREVIEW", "CSV_REVIEWED_IMPORT"}
ConnectorKinds == {"CONNECTOR_PAGE", "CONNECTOR_EVENT", "SYNC_RESET"}
Transitions == {"CONNECTOR_PAGE", "SYNC_RESET"}
Kinds == CsvKinds \cup ConnectorKinds
MappingKinds == {"CSV", "CONNECTOR"}
Mappings == 1 .. MaxConfig

SourceRows ==
  [config : Nat, cursor : Nat, generation : Nat,
   state : {"READY", "TERMINAL", "RESET_REQUIRED"}]

ConfigRows == [kind : MappingKinds, mapping : Mappings, readers : SUBSET Subjects]

PolicyRows == [hours : Nat, revision : Nat, audit : Nat]

\* key and event are None where a kind has none, parent is 0, rows is {}.
Requests ==
  [kind : Kinds, key : Keys \cup {None}, config : Nat, rows : SUBSET Versions,
   event : Events \cup {None}, parent : Nat,
   cursor : Nat, generation : Nat, terminal : BOOLEAN]

ReceiptRows == [subject : Subjects \cup {Runtime}, request : Requests]

NoRequest ==
  [kind |-> "CSV_PREVIEW", key |-> None, config |-> 0, rows |-> {},
   event |-> None, parent |-> 0, cursor |-> 0, generation |-> 0,
   terminal |-> FALSE]

Idle == [active |-> FALSE, subject |-> Runtime, request |-> NoRequest]

SessionRows ==
  [active : BOOLEAN, subject : Subjects \cup {Runtime}, request : Requests]

TypeOK ==
  /\ source \in SourceRows
  /\ configs \in Seq(ConfigRows)
  /\ source.config = Len(configs) /\ source.config \in Mappings
  /\ granted \subseteq Subjects
  /\ policy \in PolicyRows
  /\ age \in [Versions -> Nat \cup {None}]
  /\ content \in [Versions -> [Mappings -> {"none", "live", "redacted"}]]
  /\ receipts \in Seq(ReceiptRows)
  /\ session \in [Sessions -> SessionRows]

\* A source somebody has configured; everybody may read and write.
Init ==
  /\ \E kind \in MappingKinds :
       configs = <<[kind |-> kind, mapping |-> 1, readers |-> Subjects]>>
  /\ source = [config |-> 1, cursor |-> 0, generation |-> 1,
               state |-> "RESET_REQUIRED"]
  /\ granted = Subjects
  /\ policy = [hours |-> 0, revision |-> 0, audit |-> 0]
  /\ age = [v \in Versions |-> None]
  /\ content = [v \in Versions |-> [m \in Mappings |-> "none"]]
  /\ receipts = <<>>
  /\ session = [s \in Sessions |-> Idle]

-----------------------------------------------------------------------------
(* Helpers *)

Config == configs[source.config]
Request(s) == session[s].request
Subject(s) == session[s].subject
Done(s) == session' = [session EXCEPT ![s] = Idle]
IsImport(receipt) == receipt.request.kind = "CSV_REVIEWED_IMPORT"
Receipts == {receipts[n] : n \in DOMAIN receipts}

\* Grants and the reader list of the current configuration; the sync grants
\* of the runtime are those configure writes with the configuration.
Authorized(subject) ==
  subject = Runtime \/ (subject \in granted /\ subject \in Config.readers)

Supports(mappingKind, kind) ==
  kind \in (IF mappingKind = "CSV" THEN CsvKinds ELSE ConnectorKinds)

\* Nothing was configured since preflight.
IsCurrent(s) == Request(s).config = source.config

Expired(v) == age[v] # None /\ age[v] >= policy.hours

\* The requestHash, which leaves out who sent the command under which key.
Hash(request) == [request EXCEPT !.key = None]

\* Mutant: an event is looked up under its key only.
EarlierByKey(subject, request) ==
  {r \in Receipts :
     /\ subject # Runtime
     /\ r.request.kind = request.kind
     /\ r.subject = subject /\ r.request.key = request.key}

\* The receipts a command repeats: the one under its key, and the one of its
\* event whoever recorded it.  A job of the runtime completes with its receipt.
Earlier(subject, request) ==
  {r \in Receipts :
     /\ subject # Runtime
     /\ r.request.kind = request.kind
     /\ \/ r.subject = subject /\ r.request.key = request.key
        \/ request.event # None /\ r.request.event = request.event}

\* Mutant: only a version seen for the first time.
BirthsOfNew(rows, m) == {v \in rows : age[v] = None}

\* The versions that get content: those without a projection under mapping m.
Births(rows, m) == {v \in rows : content[v][m] = "none"}

\* Mutant: an expired version may get content again.
ProjectableAnyTime(rows) == policy.revision > 0

\* retention, and guard_ingestion_content on every birth.
Projectable(rows) ==
  /\ policy.revision > 0
  /\ \A v \in Births(rows, Config.mapping) : ~Expired(v)

\* prepareRecords: a known revision keeps the time it was first received.
PrepareRecords(rows) ==
  LET m == Config.mapping IN
  /\ age' = [v \in Versions |-> IF v \in rows /\ age[v] = None THEN 0 ELSE age[v]]
  /\ content' = [v \in Versions |->
       IF v \in Births(rows, m) THEN [content[v] EXCEPT ![m] = "live"]
       ELSE content[v]]

\* createReceipt and createSyncReceipt.
CreateReceipt(s) ==
  /\ Len(receipts) < MaxReceipts
  /\ receipts' = Append(receipts, [subject |-> Subject(s), request |-> Request(s)])
  /\ Done(s)

-----------------------------------------------------------------------------
(* What a caller sends after preflight *)

\* The page or reset is the caller's answer to the cursor it read.
Composed(kind, key, rows, event, parent, terminal) ==
  [kind |-> kind, key |-> key, config |-> source.config, rows |-> rows,
   event |-> event, parent |-> parent, cursor |-> source.cursor,
   generation |-> source.generation, terminal |-> terminal]

\* Only pages and resets are about a cursor.
Cursorless(request) == [request EXCEPT !.cursor = 0, !.generation = 0]

Previews(key) ==
  {Cursorless(Composed("CSV_PREVIEW", key, rows, None, 0, FALSE)) : rows \in Uploads}

\* The rows a reviewer picks from a preview.
Imports(key) ==
  UNION {{Cursorless(Composed("CSV_REVIEWED_IMPORT", key, rows, None, n, FALSE))
            : rows \in (SUBSET receipts[n].request.rows) \ {{}}}
           : n \in {n \in DOMAIN receipts : receipts[n].request.kind = "CSV_PREVIEW"}}

ConnectorPages(key) ==
  {Composed("CONNECTOR_PAGE", key, rows, None, 0, terminal)
     : rows \in Uploads, terminal \in BOOLEAN}

ConnectorEvents(key) ==
  UNION {{Cursorless(Composed("CONNECTOR_EVENT", key, {v}, event, 0, FALSE))
            : v \in Versions} : event \in Events}

Resets(key) == {Composed("SYNC_RESET", key, {}, None, 0, FALSE)}

Commands(subject) ==
  IF subject = Runtime THEN ConnectorPages(None) \cup Resets(None)
  ELSE {request \in UNION {(Previews(key) \cup Imports(key)) \cup
              (ConnectorPages(key) \cup ConnectorEvents(key) \cup Resets(key))
                : key \in Keys} : request.kind \in Offered}

\* preflight, or readConnectorSyncSnapshot of the runtime.
Preflight(s) ==
  /\ ~session[s].active
  /\ \E subject \in Subjects \cup {Runtime} :
       /\ Authorized(subject)
       /\ \E request \in Commands(subject) :
            /\ Supports(Config.kind, request.kind)
            /\ session' = [session EXCEPT
                 ![s] = [active |-> TRUE, subject |-> subject, request |-> request]]
  /\ UNCHANGED <<source, configs, granted, policy, age, content, receipts>>

-----------------------------------------------------------------------------
(* The second transaction *)

\* Mutant: the authority preflight found is not looked at again.
EntitledOnce(s, kind) ==
  session[s].active /\ Request(s).kind = kind /\ IsCurrent(s)

\* lockAuthorizedSource and the comparison with the preflight.
Entitled(s, kind) ==
  /\ session[s].active /\ Request(s).kind = kind
  /\ IsCurrent(s) /\ Authorized(Subject(s))

\* Of valid_ingestion_receipt the conjunct about rows: each row the n-th receipt
\* accepted has its content row under the mapping of the receipt's configuration.
\* Of a preview, the only receipt the code asks about, what is left out (project
\* scope, audit event, counts) never changes once it is written.
RowsBacked(n) ==
  \A v \in receipts[n].request.rows :
    content[v][configs[receipts[n].request.config].mapping] # "none"

CanPreview(s) ==
  /\ Entitled(s, "CSV_PREVIEW")
  /\ Earlier(Subject(s), Request(s)) = {}
  /\ Projectable(Request(s).rows)

\* Mutant: a preview of an older configuration will do.
CanImportOlder(s) ==
  /\ Entitled(s, "CSV_REVIEWED_IMPORT")
  /\ RowsBacked(Request(s).parent)
  /\ Earlier(Subject(s), Request(s)) = {}
  /\ \A r \in Receipts :
       ~(IsImport(r) /\ r.request.parent = Request(s).parent)
  /\ policy.revision > 0
  /\ \A v \in Request(s).rows : content[v][Config.mapping] = "live" /\ ~Expired(v)

\* Mutant: the reviewed preview may have been imported before.
CanImportTwice(s) ==
  /\ Entitled(s, "CSV_REVIEWED_IMPORT")
  /\ RowsBacked(Request(s).parent)
  /\ receipts[Request(s).parent].request.config = source.config
  /\ Earlier(Subject(s), Request(s)) = {}
  /\ policy.revision > 0
  /\ \A v \in Request(s).rows : content[v][Config.mapping] = "live" /\ ~Expired(v)

CanImport(s) ==
  LET parent == Request(s).parent IN
  /\ Entitled(s, "CSV_REVIEWED_IMPORT")
  /\ RowsBacked(parent) /\ receipts[parent].request.config = source.config
  /\ Earlier(Subject(s), Request(s)) = {}
  /\ \A r \in Receipts :
       ~(IsImport(r) /\ r.request.parent = parent)
  /\ policy.revision > 0
  /\ \A v \in Request(s).rows : content[v][Config.mapping] = "live" /\ ~Expired(v)

\* Mutant: the generation is not compared.
AtRevision(s) == source.cursor = Request(s).cursor \/ source.generation # Request(s).generation

\* The cursor is where the caller read it.
AtCursor(s) ==
  source.cursor = Request(s).cursor /\ source.generation = Request(s).generation

CanPage(s) ==
  /\ Entitled(s, "CONNECTOR_PAGE")
  /\ Earlier(Subject(s), Request(s)) = {}
  /\ AtCursor(s) /\ source.state = "READY"
  /\ Projectable(Request(s).rows)

CanRecordEvent(s) ==
  /\ Entitled(s, "CONNECTOR_EVENT")
  /\ Earlier(Subject(s), Request(s)) = {}
  /\ Projectable(Request(s).rows)

\* The runtime resets whatever cursor it finds.
CanReset(s) ==
  /\ Entitled(s, "SYNC_RESET")
  /\ Earlier(Subject(s), Request(s)) = {}
  /\ Subject(s) = Runtime \/ AtCursor(s)

PersistCsvPreview(s) ==
  /\ CanPreview(s)
  /\ PrepareRecords(Request(s).rows)
  /\ CreateReceipt(s)
  /\ UNCHANGED <<source, configs, granted, policy>>

CommitCsvReviewedImport(s) ==
  /\ CanImport(s)
  /\ CreateReceipt(s)
  /\ UNCHANGED <<source, configs, granted, policy, age, content>>

\* persistConnectorPage and persistConnectorPageForJob.
PersistConnectorPage(s) ==
  /\ CanPage(s)
  /\ PrepareRecords(Request(s).rows)
  /\ CreateReceipt(s)
  /\ source' = [source EXCEPT
       !.cursor = @ + 1, !.state = IF Request(s).terminal THEN "TERMINAL" ELSE "READY"]
  /\ UNCHANGED <<configs, granted, policy>>

PersistConnectorEvent(s) ==
  /\ CanRecordEvent(s)
  /\ PrepareRecords(Request(s).rows)
  /\ CreateReceipt(s)
  /\ UNCHANGED <<source, configs, granted, policy>>

\* resetSync and resetConnectorCursorForJob, whose receipt names the cursor
\* the locked row had.
ResetSync(s) ==
  /\ CanReset(s)
  /\ Len(receipts) < MaxReceipts
  /\ receipts' = Append(receipts,
       [subject |-> Subject(s),
        request |-> [Request(s) EXCEPT !.cursor = source.cursor,
                                       !.generation = source.generation]])
  /\ source' = [source EXCEPT
       !.cursor = @ + 1, !.generation = @ + 1, !.state = "READY"]
  /\ Done(s)
  /\ UNCHANGED <<configs, granted, policy, age, content>>

\* The same command again: its receipt is the answer.
Replay(s) ==
  /\ Entitled(s, Request(s).kind)
  /\ \E r \in Earlier(Subject(s), Request(s)) : Hash(r.request) = Hash(Request(s))
  /\ Done(s)
  /\ UNCHANGED <<source, configs, granted, policy, age, content, receipts>>

\* DENIED, STALE_CONFIGURATION, CONFLICT, CURSOR_CONFLICT, INVALID_PREVIEW,
\* RETENTION_REQUIRED or an error of a row guard: nothing is written.
Refuse(s) ==
  /\ session[s].active
  /\ ~(CanPreview(s) \/ CanImport(s))
  /\ ~(CanPage(s) \/ CanRecordEvent(s) \/ CanReset(s))
  /\ Done(s)
  /\ UNCHANGED <<source, configs, granted, policy, age, content, receipts>>

\* The process or the connection is lost before the second transaction.
Stop(s) ==
  /\ session[s].active
  /\ Done(s)
  /\ UNCHANGED <<source, configs, granted, policy, age, content, receipts>>

-----------------------------------------------------------------------------
(* Operators and time *)

\* Mutant: the cursor is not fenced.
ConfigureUnfenced ==
  /\ source.config < MaxConfig
  /\ \E kind \in MappingKinds, remapped \in BOOLEAN, readers \in ReaderLists :
       /\ kind # Config.kind => remapped
       /\ configs' = Append(configs,
            [kind |-> kind, readers |-> readers,
             mapping |-> Config.mapping + IF remapped THEN 1 ELSE 0])
  /\ source' = [source EXCEPT !.config = @ + 1]
  /\ UNCHANGED <<granted, policy, age, content, receipts, session>>

\* configure: a revision per call, a mapping revision only when the mapping
\* differs, and the cursor fenced.
Configure ==
  /\ source.config < MaxConfig
  /\ \E kind \in MappingKinds, remapped \in BOOLEAN, readers \in ReaderLists :
       /\ kind # Config.kind => remapped
       /\ configs' = Append(configs,
            [kind |-> kind, readers |-> readers,
             mapping |-> Config.mapping + IF remapped THEN 1 ELSE 0])
  /\ source' = [source EXCEPT !.config = @ + 1, !.state = "RESET_REQUIRED"]
  /\ UNCHANGED <<granted, policy, age, content, receipts, session>>

\* An access grant is revoked or given.
ChangeGrant ==
  /\ \E u \in Subjects :
       granted' = IF u \in granted THEN granted \ {u} ELSE granted \cup {u}
  /\ UNCHANGED <<source, configs, policy, age, content, receipts, session>>

\* guard_ingestion_retention: columns other than the hours, the revision and
\* who changed them when may not change, and the audit event is one of those.
RetentionGuardAccepts(old, new) ==
  new.audit = old.audit /\ new.revision = old.revision + 1

\* Every change of the policy has an audit event of its own.
NewPolicy(hours) ==
  [hours |-> hours, revision |-> policy.revision + 1, audit |-> policy.revision + 1]

\* setRetention: an INSERT the first time, an UPDATE after that.
SetRetention ==
  /\ \E hours \in 1 .. MaxHours :
       /\ policy.revision > 0 => RetentionGuardAccepts(policy, NewPolicy(hours))
       /\ policy' = NewPolicy(hours)
  /\ UNCHANGED <<source, configs, granted, age, content, receipts, session>>

\* The content of version v under mapping m that may be redacted.
Redactable ==
  {c \in Versions \X Mappings : content[c[1]][c[2]] = "live" /\ Expired(c[1])}

\* Mutant: the row goes with its content.
PurgeDeletes ==
  /\ policy.revision > 0
  /\ \E c \in Redactable :
       content' = [content EXCEPT ![c[1]][c[2]] = "deleted"]
  /\ UNCHANGED <<source, configs, granted, policy, age, receipts, session>>

\* purgeExpired: a batch of expired contents, in no order that matters.
PurgeExpired ==
  /\ policy.revision > 0
  /\ \E batch \in SUBSET Redactable :
       /\ batch # {}
       /\ Cardinality(batch) <= PurgeLimit
       /\ batch # Redactable => Cardinality(batch) = PurgeLimit
       /\ content' = [v \in Versions |-> [m \in Mappings |->
            IF <<v, m>> \in batch THEN "redacted" ELSE content[v][m]]]
  /\ UNCHANGED <<source, configs, granted, policy, age, receipts, session>>

\* Nothing tells more than MaxHours hours apart.
HourPasses ==
  /\ \E v \in Versions : age[v] # None /\ age[v] < MaxHours
  /\ age' = [v \in Versions |->
       IF age[v] # None /\ age[v] < MaxHours THEN age[v] + 1 ELSE age[v]]
  /\ UNCHANGED <<source, configs, granted, policy, content, receipts, session>>

Next ==
  \/ \E s \in Sessions :
       \/ Preflight(s)
       \/ PersistCsvPreview(s) \/ CommitCsvReviewedImport(s)
       \/ PersistConnectorPage(s) \/ PersistConnectorEvent(s) \/ ResetSync(s)
       \/ Replay(s) \/ Refuse(s) \/ Stop(s)
  \/ Configure \/ ChangeGrant \/ SetRetention \/ PurgeExpired \/ HourPasses

Spec == Init /\ [][Next]_vars

-----------------------------------------------------------------------------
(* Properties *)

\* However calls with one key or one event id overlap, a command and an event
\* leave one receipt: the second finds the first and never collides with it
\* on the unique indexes of IngestionOperationReceipt.
OneReceiptPerCommand ==
  \A i, j \in DOMAIN receipts :
    /\ i < j
    /\ receipts[i].subject # Runtime /\ receipts[j].subject # Runtime
    /\ receipts[i].request.kind = receipts[j].request.kind
    => /\ ~(/\ receipts[i].subject = receipts[j].subject
            /\ receipts[i].request.key = receipts[j].request.key)
       /\ ~(/\ receipts[i].request.event # None
            /\ receipts[i].request.event = receipts[j].request.event)

\* A preview is imported at most once, though two reviewers may submit it
\* under keys of their own at the same time.
ImportedOnce ==
  \A i, j \in DOMAIN receipts :
    /\ IsImport(receipts[i]) /\ IsImport(receipts[j])
    /\ receipts[i].request.parent = receipts[j].request.parent
    => i = j

\* An import refers to an earlier preview of the configuration it was
\* committed under and to rows of that preview: a reconfiguration between the
\* review and the commit never reinterprets reviewed rows.
ImportsFaithful ==
  \A n \in DOMAIN receipts :
    IsImport(receipts[n]) =>
      LET parent == receipts[n].request.parent IN
      /\ parent \in 1 .. (n - 1)
      /\ receipts[parent].request.kind = "CSV_PREVIEW"
      /\ receipts[parent].request.config = receipts[n].request.config
      /\ receipts[n].request.rows \subseteq receipts[parent].request.rows

\* The rows of a receipt stay backed (one conjunct of valid_ingestion_receipt, which
\* restore.ts:208 counts): whatever is uploaded, remapped or purged later, each row a
\* receipt accepted keeps a content row under the mapping of its configuration,
\* redacted or not.  The receipt of a reset has no rows.  Whether the receipt of a
\* job is valid as a whole depends on the job too (ResetReceiptsValid of JiraRuntime).
ReceiptsBacked == \A n \in DOMAIN receipts : RowsBacked(n)

Moves == {n \in DOMAIN receipts : receipts[n].request.kind \in Transitions}
MovesBefore(n) == {i \in Moves : i < n}
ResetsIn(moves) == {n \in moves : receipts[n].request.kind = "SYNC_RESET"}

\* The page n continues the move p.
Continues(p, n) ==
  /\ p < n
  /\ \A i \in MovesBefore(n) : i <= p
  /\ ~receipts[p].request.terminal
  /\ receipts[p].request.config = receipts[n].request.config

\* Pages and resets, of operators and of the runtime, form one chain of
\* cursors that ends at the source row, and every page continues the page or
\* the reset before it under the same configuration
\* (guard_ingestion_cursor_transition, require_ingestion_cursor_applied).
CursorChain ==
  /\ source.cursor = Cardinality(Moves)
  /\ source.generation = 1 + Cardinality(ResetsIn(Moves))
  /\ \A n \in Moves :
       /\ receipts[n].request.cursor = Cardinality(MovesBefore(n))
       /\ receipts[n].request.generation = 1 + Cardinality(ResetsIn(MovesBefore(n)))
       /\ receipts[n].request.kind = "CONNECTOR_PAGE" =>
            \E p \in MovesBefore(n) : Continues(p, n)

\* Once any content of a version was purged, no mapping gives the version
\* content again: not a remapping, not another upload of the same row, not a
\* page the runtime reads again (EXEC-009-read-only-ingestion.md:243).
NoResurrection ==
  [][\A v \in Versions :
       (\E m \in Mappings : content[v][m] = "redacted") =>
         \A m \in Mappings : content'[v][m] = "live" => content[v][m] = "live"]_vars

\* Authority lost between the preflight and the commit stops the commit: a
\* receipt is only written for a subject that may write at that moment.
CommitsUnderAuthority ==
  [][\A n \in DOMAIN receipts' \ DOMAIN receipts : Authorized(receipts'[n].subject)]_vars
=============================================================================
