----------------------------- MODULE MCConsole -----------------------------
(* Small instance of Console: a 2 x 2 screen for any bytes, 4 x 2 for the
   console, with a prompt of one character and lines of up to two. *)
EXTENDS Console

MCPrompt == <<">">>
MCOutputs == {<<>>, <<"y", "NL">>}
MCAnySize == <<2, 2>>
MCShellSize == <<4, 2>>
=============================================================================
