------------------------------ MODULE MCShell ------------------------------
(***************************************************************************)
(* An instance of module Shell for TLC.                                    *)
(***************************************************************************)
EXTENDS Shell

CONSTANTS a, b, p

MCCharacters == {a, b, p, Space, Newline, Backspace}
MCLetters == {a}
MCBanner == <<Newline>>
MCPrompt == <<p>>
MCStrings == {<<b, Newline>>, <<Backspace>>}

=============================================================================
