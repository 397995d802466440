----------------------------- MODULE MCRawCache -----------------------------
\* Two spellings of one sheet's URL, a "-1" re-upload that may carry the same
\* bytes, and a sheet the source may edit in place.
EXTENDS RawCache, TLC

CONSTANTS f1, f2, sheet, sheetUpper, reupload, u1, u2, b1, b2

MCCanon == (sheet :> u1) @@ (sheetUpper :> u1) @@ (reupload :> u2)

\* The source edits u1 in place; the re-upload repeats the first bytes.
MCServes == (u1 :> {b1, b2}) @@ (u2 :> {b1})
=============================================================================
