SPECIFICATION FairSpec
CONSTANTS
  Absent = Absent
  n = n
  g = g
  h = h
  chatgpt = chatgpt
  openai = openai
  Models = {n, g, h}
  Upstreams = {chatgpt, openai}
  Requests = {r1, r2}
  Publisher = Publisher
  Pickers <- MCPickers
  Allowlists <- MCAllowlists
INVARIANTS SnapshotCurrent PickerServed
PROPERTIES ImplementsTable PublicationEnds RequestsProceed
