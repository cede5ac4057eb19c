SPECIFICATION Spec
CONSTANTS
  Units <- Forms
  Names = {"a", "c"}
  Namespaces = {"main", "apps"}
  Versions = {1, 2}
  Unnamed = Unnamed
  KubeDefault = "main"
  Absent = Absent
INVARIANTS
  TypeOK
  Deployed
  NothingLeftBehind
