------------------------------ MODULE MCFiles ------------------------------
(* Instances of Files for TLC.                                               *)
EXTENDS Files

Rel(s) == [abs |-> FALSE, elems |-> s]
Abs(s) == [abs |-> TRUE, elems |-> s]

CONSTANTS p1, p2

a  == Rel(<<"a">>)
b  == Rel(<<"b">>)
aa == Rel(<<"a", "a">>)
up == Rel(<<"..", "a">>)

\* A directory that comes and goes, entered by one process while the other makes
\* and removes a file in it.
Directory ==
  p1 :> {<<"create", a, "dir">>, <<"unlink", a>>, <<"chdir", a>>, <<"fork">>}
  @@ p2 :> {<<"create", aa, "file">>, <<"link", aa, b>>, <<"unlink", aa>>,
            <<"open", aa, TRUE>>, <<"close">>, <<"exit">>}

\* A file with two names, unlinked and closed by both.
OneFile ==
  p1 :> {<<"create", a, "file">>, <<"write", 2>>, <<"unlink", a>>, <<"fork">>}
  @@ p2 :> {<<"link", a, b>>, <<"unlink", b>>, <<"open", b, TRUE>>, <<"open", Rel(<<"..">>), TRUE>>,
            <<"read">>, <<"fstat">>, <<"exec", b>>, <<"exit">>}

\* Nested directories, the inner one a working directory that is removed.
Nested ==
  p1 :> {<<"create", a, "dir">>, <<"create", aa, "dir">>, <<"unlink", aa>>, <<"unlink", Abs(<<"a">>)>>,
         <<"chdir", a>>, <<"chdir", Rel(<<"..">>)>>, <<"fork">>}
  @@ p2 :> {<<"create", up, "dev">>, <<"unlink", up>>, <<"chdir", Abs(<<>>)>>, <<"exec", up>>, <<"exit">>}

AllPrograms == {Directory, OneFile, Nested}

\* Stop after something the properties make an exception for.
Explore == quirks = {}
=============================================================================
