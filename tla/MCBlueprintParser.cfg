CONSTANTS
  Contents <- MCContents
  Manifests <- MCManifests
  Hint <- MCHint
  Files <- MCFiles
  MaxAttempts = {0, 2, 3, 5}
SPECIFICATION ParserSpec
INVARIANTS ReturnedWasCompiled EachShimOnce ProvidersFirst AcceptedIsBuildable
\* The commands have run, the glue compiles or does not.
CHECK_DEADLOCK FALSE
