------------------------- MODULE MC_ConfigRaceGuard -------------------------
(* Model checking ConfigRaceGuard: the bounds are set in the cfg files.     *)
EXTENDS ConfigRaceGuard

\* Invocations of Configure Server Path: one at a time, or two overlapping.
MCOneCmd == {1}
MCTwoCmds == {1, 2}

\* Numeric settings as settings.json may hold them: below, at and above
\* both ranges, fractions, an overflowing literal, numeric and other
\* strings, a boolean and null.
MCSettingValues ==
  {Json("number", -1, TRUE), Json("number", 0, FALSE), Json("number", 2, TRUE),
   Json("number", 3600, TRUE), Json("number", 5000, FALSE), Json("number", 5001, FALSE),
   JsonInfinity(1), JsonInfinity(-1), Json("numericString", 300, FALSE),
   Json("string", 0, FALSE), Json("bool", 1, FALSE), Json("null", 0, FALSE)}
====
