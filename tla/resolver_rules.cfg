\* Resolution against spec 4.1 for unset, absolute and relative
\* server.path, both modes, with and without a workspace, on both platforms.
SPECIFICATION Spec
CONSTANTS
  Files <- MCFiles
  ServerPaths <- MCServerPaths
  PathValues <- MCPathValues
INVARIANT ResolverMatchesSpec
INVARIANT PickLaunched
