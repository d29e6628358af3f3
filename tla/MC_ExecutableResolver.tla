------------------------ MODULE MC_ExecutableResolver ------------------------
(* Bounds for model checking ExecutableResolver.                           *)
EXTENDS ExecutableResolver

F(d, s, e) == [dir |-> d, stem |-> s, ext |-> e]

\* Binaries in every searched place: both workspace build directories,
\* two PATH entries (one with a Windows .exe), and the directories an
\* explicit server.path points into.
MCFiles ==
  { F("wsCompiler", "parusc", ""), F("wsBuild", "parusc", ""),
    F("wsBuild", "parusd", ""), F("p1", "parusd", ".exe"),
    F("p2", "parusc", ""), F("p2", "parusd", ""),
    F("abs", "tool", ""), F("wsRel", "parusd", ""), F("cwd", "parusd", "") }

SP(k, s, e) == [kind |-> k, dir |-> IF k = "abs" THEN "abs" ELSE "none", stem |-> s, ext |-> e]

\* Unset, absolute, relative; the bare-name setting is in MCServerPathsBare.
MCServerPaths == {SP("unset", "none", ""), SP("abs", "tool", ""), SP("rel", "parusd", "")}
MCServerPathsBare == MCServerPaths \cup {SP("bare", "parusd", "")}

MCPathValues == {<<>>, <<"p1", "p2">>, <<"p2", "p1", "p2">>}
====
