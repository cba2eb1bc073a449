SPECIFICATION FairSpec
CONSTANTS
  Views = {"list", "list_pages", "list_resume", "list_drafts", "editor", "editor_saves", "history", "history_two", "import", "pool", "pool_runs", "form_rows", "form_drag", "form_source", "form", "macro_yaml", "macro_json", "samples", "late", "ingest", "dash_counts", "dash_order", "dash_late", "dash_covers", "executions", "exec_late", "exec_pages"}
  None = None
  Failed = Failed
  Bad = Bad
CHECK_DEADLOCK FALSE
INVARIANTS TypeOK 
PROPERTIES WritesAreMeant RequestsEnd
