SPECIFICATION FairSpec
CONSTANTS
  None = None
  Malformed = Malformed
  amd64 = amd64
  arm64 = arm64
  realm1 = realm1
  realm2 = realm2
  an_index = an_index
  bare_index = bare_index
  twice = twice
  wrong_size = wrong_size
  wrong_type = wrong_type
  nested = nested
  broken = broken
  manifest = manifest
  bare_manifest = bare_manifest
  variant_manifest = variant_manifest
  garbage = garbage
  blob = blob
  Machines <- MCMachines
  Bodies <- MCBodies
  Document <- MCDocument
  Requested <- MCRequested
  Wishes <- MCWishes
  Responses <- AnyResponses
  Realms = {realm1}
  Services = {}
  Scopes = {"push"}
INVARIANTS
  AnswerIsUnique
  RequestsAreBounded
  TokenAnswersChallenge
PROPERTIES
  KeepsPromise
  OnlyASenderBlocks
CHECK_DEADLOCK FALSE
