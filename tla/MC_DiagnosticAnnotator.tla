----------------------- MODULE MC_DiagnosticAnnotator -----------------------
EXTENDS DiagnosticAnnotator

C(t, p, tb, w) == [text |-> t, prefix |-> p, table |-> tb, words |-> w]

\* Codes of each rule: C_ prefix, the name table, an L_ code in no table,
\* a keyword match of "Borrow"/"Move" and of "Type", and the empty code.
MCCodes == {C("C_UNEXPECTED_TOKEN", "C_", "none", {"syntax"}),
            C("L_IMPORT_CYCLE", "L_", "name", {}),
            C("L_UNUSED_LOCAL", "L_", "none", {}),
            C("BorrowAfterMove", "", "none", {"cap"}),
            C("ReturnTypeMismatch", "", "none", {"type"}),
            C("", "", "none", {})}

\* Texts: one line of 2 characters, an empty line after a line of 1, and
\* an empty document (one empty line).
MCTexts == {<<2>>, <<1, 0>>, <<0>>}

\* A plain message, and one the server already prefixed.
MCMessages == {<<"cycle detected">>, <<"[name/L_IMPORT_CYCLE] ", "cycle detected">>}
\* Two severities, so that the counts tell them apart.
MCSeverities == {"error", "hint"}
====
