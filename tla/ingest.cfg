CONSTANTS
  None = None
  Runtime = runtime
  Offered = {"CSV_PREVIEW", "CSV_REVIEWED_IMPORT", "CONNECTOR_EVENT"}
  Sessions = {s1, s2}
  Subjects = {u1}
  Keys = {k1, k2}
  Events = {e1}
  Versions = {v1, v2}
  Uploads = {{v1, v2}}
  ReaderLists = {{u1}}
  MaxReceipts = 3
  MaxConfig = 2
  MaxHours = 1
  PurgeLimit = 1
SPECIFICATION Spec
SYMMETRY Symmetric
INVARIANTS TypeOK OneReceiptPerCommand ImportedOnce ImportsFaithful ReceiptsBacked CursorChain
PROPERTIES NoResurrection CommitsUnderAuthority
