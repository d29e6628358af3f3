--------------------------- MODULE ConfigSnapshot ---------------------------
(***************************************************************************)
(* readConfig and clampNumber of src/tools/vscode-parus/src/extension.ts   *)
(* (801-816, 1309-1314): the snapshot every handler reads.  A setting is   *)
(* whatever JSON settings.json holds, which the user may edit by hand: a   *)
(* number (JSON has no NaN, and a literal too large for a double parses    *)
(* as an infinity), a string, which may or may not read as a number, a     *)
(* boolean or null.  A number is n or n + 1/2, so that Math.floor shows.   *)
(* A string is abstracted to how String.prototype.trim and the JavaScript  *)
(* conversion to number see it.                                            *)
(***************************************************************************)
EXTENDS Integers

CONSTANT SettingValues   \* JSON values tried for each numeric setting

\* JSON values of a setting; `n`/`half` is the value a number has or a
\* numeric string converts to.
Json(kind, n, half) == [kind |-> kind, n |-> n, half |-> half]
JsonInfinity(sign) == Json("infinity", sign, FALSE)

\* Numbers as JavaScript computes them: finite (n + 1/2 if half), an
\* infinity (n is its sign) or NaN.
Fin(n, half) == [k |-> "fin", n |-> n, half |-> half]
NaN == [k |-> "nan", n |-> 0, half |-> FALSE]
Inf(sign) == [k |-> "inf", n |-> sign, half |-> FALSE]

\* The conversion to number that Math.max applies to its arguments.
ToNumber(v) ==
  CASE v.kind = "number"                   -> Fin(v.n, v.half)
    [] v.kind = "numericString"            -> Fin(v.n, v.half)
    [] v.kind = "infinity"                 -> Inf(v.n)
    [] v.kind = "string"                   -> NaN
    [] v.kind = "bool"                     -> Fin(v.n, FALSE)
    [] v.kind = "null"                     -> Fin(0, FALSE)

\* x > the integer b, and x < b, for a number x.
Above(x, b) == (x.k = "inf" /\ x.n = 1) \/ (x.k = "fin" /\ (x.n > b \/ (x.n = b /\ x.half)))
Below(x, b) == (x.k = "inf" /\ x.n = -1) \/ (x.k = "fin" /\ x.n < b)

\* Math.max(lo, x) and Math.min(hi, x) for an integer bound: NaN wins.
MathMax(lo, x) == IF x.k = "nan" \/ Above(x, lo) THEN x ELSE Fin(lo, FALSE)
MathMin(hi, x) == IF x.k = "nan" \/ Below(x, hi) THEN x ELSE Fin(hi, FALSE)

\* Mutant of ClampNumber (SnapshotWithinSpec): the clampNumber of the
\* unwired core/config.ts, which tests Number.isNaN, does not floor and
\* lets Math.max convert the value.  No JSON value is NaN, so its early
\* return never fires.
ClampNumberRefactored(value, min, max) ==
  MathMin(max, MathMax(min, ToNumber(value)))

\* clampNumber: a value that is not a finite number is the minimum;
\* otherwise its floor, clamped.
ClampNumber(value, min, max) ==
  IF value.kind # "number" THEN Fin(min, FALSE)
  ELSE MathMin(max, MathMax(min, Fin(value.n, FALSE)))

\* String settings: `text` is what trim() keeps, `padded` whether it drops
\* surrounding whitespace.
Str(text, padded) == [kind |-> "text", text |-> text, padded |-> padded]

\* readConfig: the cfg.get defaults stand for unset settings; server.path
\* is trimmed, an unknown mode is driver, an unknown trace level is off.
ReadConfig(s) ==
  [serverPath            |-> s.path.text,
   serverMode            |-> IF s.mode = "direct" THEN "direct" ELSE "driver",
   traceServer           |-> IF s.trace \in {"messages", "verbose"} THEN s.trace ELSE "off",
   diagnosticsDebounceMs |-> ClampNumber(s.debounceMs, 0, 5000),
   idleTimeoutSec        |-> ClampNumber(s.idleTimeoutSec, 0, 3600)]

-----------------------------------------------------------------------------
(* Properties.                                                             *)

\* What spec 2 (ConfigSnapshot) promises of a setting v clamped to lo..hi
\* and read as r: an integer in the range, whatever settings.json holds; a
\* number within the range moves by less than one, one below it is the
\* minimum and one above it the maximum.
NumberWithinSpec(v, r, lo, hi) ==
  /\ r.k = "fin" /\ ~r.half /\ r.n \in lo..hi
  /\ v.kind = "number" =>
       CASE Below(ToNumber(v), lo) -> r.n = lo
         [] Above(ToNumber(v), hi) -> r.n = hi
         [] OTHER                  -> r.n = v.n \/ (v.half /\ r.n = v.n + 1)

\* Settings files: every tried number for each numeric setting, with a
\* padded path and a mode and trace level the code does not know.
Settings ==
  [path : {Str("parusd", TRUE)}, mode : {"Direct"}, trace : {"loud"},
   debounceMs : SettingValues, idleTimeoutSec : SettingValues]

\* A snapshot read from a settings file keeps that promise for both.
SnapshotOf(settings, snapshot) ==
  /\ NumberWithinSpec(settings.debounceMs, snapshot.diagnosticsDebounceMs, 0, 5000)
  /\ NumberWithinSpec(settings.idleTimeoutSec, snapshot.idleTimeoutSec, 0, 3600)
====
