------------------------- MODULE DiagnosticAnnotator -------------------------
(***************************************************************************)
(* The handleDiagnostics middleware of src/tools/vscode-parus/src/        *)
(* extension.ts: enhanceDiagnostics (1096-1133), normalizeDiagnosticRange  *)
(* (1135-1155), diagnosticCodeToString (1157-1170) and                     *)
(* inferDiagnosticCategory (1172-1208).  One document: its text is a       *)
(* sequence of line lengths that the user edits, and it may be closed.     *)
(* The server publishes a diagnostic for the text it has seen, which may   *)
(* be older than the text when the middleware annotates it.                *)
(*                                                                         *)
(* A code is abstracted to what the rules look at: its text (which the     *)
(* prefix repeats), whether it starts with C_, L_ or B_, which lookup      *)
(* table holds it, and which of the four keyword patterns it matches.  A   *)
(* message is a sequence of pieces, so that "starts with the prefix" is    *)
(* "its first piece is the prefix".                                        *)
(*                                                                         *)
(* The handler also caches the document's parusd diagnostics               *)
(* (cacheParusDiagnostics, 1210-1219), from which the lint status bar      *)
(* item is rendered for the active editor (refreshLintStatusBar,           *)
(* 1221-1275); the cache and the item are changed by closing the document, *)
(* by a change of the active editor and by a server stop as well.  The     *)
(* cache keeps only what the item looks at: the severities.                *)
(***************************************************************************)
EXTENDS Naturals, Sequences, FiniteSets

CONSTANTS
  Codes,      \* diagnostic codes: [text, prefix, table, words]
  NoCode,     \* model value: diagnostic.code is undefined
  Texts,      \* texts the document may have (sequences of line lengths)
  Messages,   \* messages the server may send (sequences of pieces)
  Severities  \* severities the server may report

NoCategory == "none"

VARIABLES
  lines,      \* the document text: line lengths, line l is lines[l + 1]
  open,       \* the document is in vscode.workspace.textDocuments
  published,  \* diagnostics published and not yet annotated
  shown,      \* the annotated diagnostics passed on to next()
  shownOn,    \* the text they were annotated against
  cached,     \* parusDiagnosticsByUri for the document: the severities
  active,     \* the active editor: "doc" (this document) or "other"
  bar         \* the lint status bar item: [kind, counts]

vars == <<lines, open, published, shown, shownOn, cached, active, bar>>

-----------------------------------------------------------------------------
(* The code, one operator per function.                                    *)

\* diagnosticCodeToString: a string, number or {value} code as its text.
DiagnosticCodeToString(code) == IF code = NoCode THEN NoCode ELSE code.text

\* inferDiagnosticCategory: the ordered rules; an absent or empty code has
\* no category.
InferDiagnosticCategory(code) ==
  IF code = NoCode \/ code.text = "" THEN NoCategory
  ELSE CASE code.prefix = "C_"              -> "syntax"
         [] code.table = "name"             -> "name"
         [] code.table = "type"             -> "type"
         [] code.prefix \in {"L_", "B_"}    -> "lint"
         [] "cap" \in code.words            -> "cap"
         [] "type" \in code.words           -> "type"
         [] "name" \in code.words           -> "name"
         [] "syntax" \in code.words         -> "syntax"
         [] OTHER                           -> "lint"

\* `[category/code] `, `[category] ` or `[code] `, or "" with neither.
Prefix(code) ==
  LET cat  == InferDiagnosticCategory(code)
      text == IF DiagnosticCodeToString(code) = NoCode THEN "" ELSE code.text
  IN CASE cat # NoCategory /\ text # "" -> "[" \o cat \o "/" \o text \o "] "
       [] cat # NoCategory              -> "[" \o cat \o "] "
       [] text # ""                     -> "[" \o text \o "] "
       [] OTHER                         -> ""

StartsWith(msg, p) == p = "" \/ (msg # <<>> /\ msg[1] = p)

\* clampNumber on integers: Math.min(max, Math.max(min, value)).
Clamp(v, lo, hi) == IF v < lo THEN lo ELSE IF v > hi THEN hi ELSE v

\* Mutant of NormalizeDiagnosticRange (NormalizedRangeVisible): the
\* character is clamped to the line length instead of its last character.
NormalizeDiagnosticRangeToEnd(r, text, isOpen) ==
  IF r.sl # r.el \/ r.sc # r.ec \/ ~isOpen \/ text = <<>> THEN r
  ELSE LET line == Clamp(r.sl, 0, Len(text) - 1)
           len  == text[line + 1]
       IN IF len = 0 THEN [sl |-> line, sc |-> 0, el |-> line, ec |-> 0]
          ELSE LET sc == Clamp(r.sc, 0, len)
               IN [sl |-> line, sc |-> sc, el |-> line,
                   ec |-> IF len < sc + 1 THEN len ELSE sc + 1]

\* normalizeDiagnosticRange: a zero-width range on an open, non-empty
\* document is moved to an existing line and widened to one character;
\* on an empty line it becomes (line, 0); anything else is unchanged.
NormalizeDiagnosticRange(r, text, isOpen) ==
  IF r.sl # r.el \/ r.sc # r.ec \/ ~isOpen \/ text = <<>> THEN r
  ELSE LET line == Clamp(r.sl, 0, Len(text) - 1)
           len  == text[line + 1]
       IN IF len = 0 THEN [sl |-> line, sc |-> 0, el |-> line, ec |-> 0]
          ELSE LET sc == Clamp(r.sc, 0, len - 1)
               IN [sl |-> line, sc |-> sc, el |-> line,
                   ec |-> IF len < sc + 1 THEN len ELSE sc + 1]

\* enhanceOneDiagnostic: only parusd diagnostics change; code, source,
\* severity, tags and related information are copied unchanged.
EnhanceOneDiagnostic(d, text, isOpen) ==
  IF d.source # "parusd" THEN d
  ELSE [d EXCEPT !.message = IF StartsWith(@, Prefix(d.code)) THEN @
                             ELSE <<Prefix(d.code)>> \o @,
                 !.range = NormalizeDiagnosticRange(@, text, isOpen)]

\* enhanceDiagnostics: the list, element by element, in order.
EnhanceDiagnostics(ds, text, isOpen) ==
  [i \in DOMAIN ds |-> EnhanceOneDiagnostic(ds[i], text, isOpen)]

\* cacheParusDiagnostics: the parusd diagnostics of the list; none
\* deletes the entry.
CacheParusDiagnostics(ds) ==
  LET parusd == SelectSeq(ds, LAMBDA d : d.source = "parusd")
  IN [i \in DOMAIN parusd |-> parusd[i].severity]

\* The active editor shows the document, or something else (no editor or
\* another language: the item hides for both).
Editors == {"doc", "other"}

NoCounts == [sev \in Severities |-> 0]

\* refreshLintStatusBar: hidden unless the active editor shows the
\* document; "clean" when nothing is cached; else a count per severity.
RefreshLintStatusBar(editor, diags) ==
  CASE editor # "doc" -> [kind |-> "hidden", counts |-> NoCounts]
    [] diags = <<>>   -> [kind |-> "clean", counts |-> NoCounts]
    [] OTHER          -> [kind |-> "counts",
                          counts |-> [sev \in Severities |->
                                        Cardinality({i \in DOMAIN diags : diags[i] = sev})]]

-----------------------------------------------------------------------------
(* The document, the server and the middleware.                            *)

\* Ranges the server may report against text: a zero-width range at any
\* position of an existing line (the end of a line included), or the
\* first character of the first line.
ServerRanges(text) ==
  LET Zero(l, c) == [sl |-> l, sc |-> c, el |-> l, ec |-> c]
      Cols(l) == 0..(IF text = <<>> THEN 0 ELSE text[l + 1])
  IN UNION {{Zero(l, c) : c \in Cols(l)} :
              l \in 0..(IF text = <<>> THEN 0 ELSE Len(text) - 1)}
     \cup {[sl |-> 0, sc |-> 0, el |-> 0, ec |-> 1]}

Diagnostics(text) ==
  [source : {"parusd"}, code : Codes \cup {NoCode}, message : Messages,
   range : ServerRanges(text), severity : Severities]
  \cup [source : {"other"}, code : {NoCode}, message : Messages,
        range : ServerRanges(text), severity : Severities]

Init ==
  /\ lines \in Texts
  /\ open \in BOOLEAN
  /\ published = <<>>
  /\ shown = <<>>
  /\ shownOn = [text |-> <<>>, open |-> FALSE, from |-> <<>>]
  /\ cached = <<>>
  /\ active \in Editors
  /\ active = "doc" => open
  /\ bar = RefreshLintStatusBar(active, cached)

\* The server publishes diagnostics computed on the current text.
Publish ==
  /\ published = <<>>
  /\ \E d \in Diagnostics(lines) : published' = <<d>>
  /\ UNCHANGED <<lines, open, shown, shownOn, cached, active, bar>>

\* The user edits the document, or it is closed or opened, while the
\* notification is on its way.
Edit ==
  /\ \E t \in Texts \ {lines} : lines' = t
  /\ UNCHANGED <<open, published, shown, shownOn, cached, active, bar>>

\* onDidOpenTextDocument only reports activity.
DocOpen ==
  /\ ~open
  /\ open' = TRUE
  /\ UNCHANGED <<lines, published, shown, shownOn, cached, active, bar>>

\* onDidCloseTextDocument deletes the document's entry and refreshes the
\* item; its editor is no longer the active one by then.
DocClose ==
  /\ open
  /\ active # "doc"
  /\ open' = FALSE
  /\ cached' = <<>>
  /\ bar' = RefreshLintStatusBar(active, <<>>)
  /\ UNCHANGED <<lines, published, shown, shownOn, active>>

\* onDidChangeActiveTextEditor refreshes the item.
ActiveEditor(editor) ==
  /\ editor # active
  /\ editor = "doc" => open
  /\ active' = editor
  /\ bar' = RefreshLintStatusBar(editor, cached)
  /\ UNCHANGED <<lines, open, published, shown, shownOn, cached>>

\* A server stop (stopLanguageClient) clears every entry and refreshes.
StopClearsCache ==
  /\ cached # <<>>
  /\ cached' = <<>>
  /\ bar' = RefreshLintStatusBar(active, <<>>)
  /\ UNCHANGED <<lines, open, published, shown, shownOn, active>>

\* Mutant of HandleDiagnostics (LintBarShowsCache): the cache is written
\* but the item is not refreshed.
HandleDiagnosticsNoRefresh ==
  /\ published # <<>>
  /\ shown' = EnhanceDiagnostics(published, lines, open)
  /\ shownOn' = [text |-> lines, open |-> open, from |-> published]
  /\ cached' = CacheParusDiagnostics(shown')
  /\ published' = <<>>
  /\ UNCHANGED <<lines, open, active, bar>>

\* handleDiagnostics: enhanceDiagnostics against the text of the document
\* at that moment, cacheParusDiagnostics (which refreshes the item), then
\* next(uri, enhanced).
HandleDiagnostics ==
  /\ published # <<>>
  /\ shown' = EnhanceDiagnostics(published, lines, open)
  /\ shownOn' = [text |-> lines, open |-> open, from |-> published]
  /\ cached' = CacheParusDiagnostics(shown')
  /\ bar' = RefreshLintStatusBar(active, cached')
  /\ published' = <<>>
  /\ UNCHANGED <<lines, open, active>>

Next ==
  \/ Publish \/ Edit \/ DocOpen \/ DocClose \/ StopClearsCache
  \/ \E editor \in Editors : ActiveEditor(editor)
  \/ HandleDiagnostics

Spec == Init /\ [][Next]_vars

-----------------------------------------------------------------------------
(* Properties.                                                             *)

IsZeroWidth(r) == r.sl = r.el /\ r.sc = r.ec

\* normalizeDiagnosticRange (spec 4.5): a zero-width parusd range on an
\* open, non-empty document, however stale its position, ends on a line
\* of the document; on a non-empty line it covers exactly one character
\* of it, at the reported column or the last one, and on an empty line it
\* is (line, 0).  A range of width is passed on unchanged.
NormalizedRangeVisible ==
  \A i \in DOMAIN shown :
    LET r0   == shownOn.from[i].range
        r    == shown[i].range
        text == shownOn.text
    IN IF shownOn.from[i].source = "parusd" /\ IsZeroWidth(r0)
          /\ shownOn.open /\ text # <<>>
       THEN /\ r.sl = r.el /\ r.sl < Len(text)
            /\ IF text[r.sl + 1] = 0 THEN r.sc = 0 /\ r.ec = 0
               ELSE /\ r.ec = r.sc + 1 /\ r.ec <= text[r.sl + 1]
                    /\ r.sc = Clamp(r0.sc, 0, text[r.sl + 1] - 1)
       ELSE r = r0

\* The lint item sums up what is cached for the active editor's document
\* (the handleDiagnostics comment: code and source are reflected "in the
\* message and the status-bar summary"), after any sequence of
\* publications, editor switches, closes and stops: shown exactly when
\* the document is active, "clean" exactly when nothing is cached, and
\* each count the number of cached diagnostics of its severity.
LintBarShowsCache ==
  /\ (bar.kind = "hidden") <=> (active # "doc")
  /\ active = "doc" =>
       /\ (bar.kind = "clean") <=> (cached = <<>>)
       /\ \A sev \in Severities :
            bar.counts[sev] = Cardinality({i \in DOMAIN cached : cached[i] = sev})
=============================================================================
