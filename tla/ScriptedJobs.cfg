\* One endpoint with headers and a script.
SPECIFICATION Spec
CONSTANTS
  Workers = {"w1", "w2"}
  Endpoints = {"login", "plain"}
  Names = {"Authorization", "Trace"}
  HasHeaders = {"login"}
  HasScript = {"login"}
INVARIANTS NoHeaderRace
