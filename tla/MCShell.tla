------------------------------ MODULE MCShell -------------------------------
(* Command lines that nest pipes, lists, background commands and           *)
(* redirections, and all short strings for the text algorithms.            *)
EXTENDS Shell
CmdLines ==
    {<<"e", "|", "c", ">", "f">>,
     <<"(", "e", ";", "c", "<", "f", ")", "|", "c">>,
     <<"e", "|", "c", "|", "c">>,
     <<"e", "&", ";", "c", "<", "x">>,
     <<"(", "e", "&", ")", "|", "x">>,
     <<"e", "e", "e">>,
     <<"c", "d", " ", "f">>}
AllSeqs(C, n) == UNION {[1..k -> C] : k \in 1..n}
Strings == AllSeqs({"a", " ", "<", "|", ">", "&", ";", "(", ")"}, 4)
             \cup AllSeqs({"a", " ", ">"}, 6)
             \cup AllSeqs({"a", "/"}, 6) \cup AllSeqs({"a", ".", "*", "^", "$"}, 4)
             \cup AllSeqs({"a", "%", "c", "d", "s", "x"}, 3) \cup AllSeqs({"%", "d"}, 5)
=============================================================================
