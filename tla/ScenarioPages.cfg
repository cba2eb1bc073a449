SPECIFICATION FairSpec
CONSTANTS
  Views = {"registry", "reg_items", "reg_jobs", "reg_rows", "reg_runs", "picks", "picks_load", "picks_none", "edges", "names", "starts", "arranged", "suggestions", "text", "text_known", "text_field", "channel", "channel_case", "channel_vars", "sources", "previews", "makers", "case_moves", "case_names", "case_generates", "stream", "result", "result_late", "batch", "bodies"}
  None = None
  Cut = Cut
  Wrong = Wrong
  Template = Template
  Literal = Literal
  Std = Std
  Blank = Blank
  Mine = Mine
  Yours = Yours
  Legacy = Legacy
  Token = Token
  Full = Full
  Family = Family
  Middle = Middle
  Null = Null
  Undef = Undef
  X = X
  Y = Y
  List = List
  Scn = Scn
  Total = 3
  NL = NL
CHECK_DEADLOCK FALSE
INVARIANTS TypesOK ShownIsChosen RecordsHold
PROPERTIES SentIsMeant ShowsProgress RequestsEnd
