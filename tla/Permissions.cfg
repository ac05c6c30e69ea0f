\* Files of up to three lines about two resources.
CONSTANTS
  Resource = {"a", "b"}
  Role = {"R", "S"}
  Segment = {"a", "b", ":id", ""}
  Method = {"GET", "PUT"}
  Get = {"GET"}
  Files <- MCFiles
  MaxLines = 3
SPECIFICATION Spec
INVARIANTS TypeOK MapMatchesPolicy
