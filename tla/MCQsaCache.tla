------------------------------ MODULE MCQsaCache ------------------------------
(* Small instances of QsaCache for TLC: token streams that part early, late *)
(* or never, so that requests share pages, diverge and retrace one another. *)
EXTENDS QsaCache, TLC

CONSTANTS a, b

\* Two prompts that share their first page.
TwoStreams == {<<a, a, a, a>>, <<a, a, b, b>>}

\* Prompts that part at the end of a page of four tokens, inside the next one.
MidStreams == {<<a, a, a, a, a, a>>, <<a, a, a, a, b, b>>}

\* Room for two verify windows of four behind a short prompt.
VerifyStreams == {<<a, a, a, a, a, a, a, a, a, a>>, <<a, a, b, b, b, b, b, b, b, b>>}
=============================================================================
