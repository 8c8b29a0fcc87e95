CONSTANTS
  PackageNames = {p}
  TypeNames = {c}
  OtherNames = {x}
  Anon = anon
  Qualified = qualified
  New = new
  Keyword = begin
  Null = none
  Places = 4
  Ids <- MCIds
  Keys <- MCKeys
  MaxDepth = 3
SPECIFICATION ScopesSpec
INVARIANTS
  ParseTypeOK
  OpenScopesOnStack
  ScopesStayAlive
  TokenTablesLive
  ScopesMirrorSource
  ObjofFound
  NoInternalError
