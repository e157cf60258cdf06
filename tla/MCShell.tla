------------------------------ MODULE MCShell ------------------------------
(* Scripts for Shell: two lines each, words separated by blanks.           *)
EXTENDS Shell

Line(ws) == FlattenSeq([i \in 1..Len(ws) |-> <<ws[i], " ">>]) \o <<"\n">>

Commands == {
  <<"ls">>, <<"nx">>, <<"ls", "&">>, <<"&", "ls">>, <<"ls", "&", "|", "cat">>,
  <<"yes", "|", "ls">>, <<"yes", "|", "nx">>, <<"ls", "|", "cat", "|", "cat">>,
  <<"ls", "|", "nx", "|", "cat">>, <<"|", "ls">>, <<"ls", "|">>,
  <<"cat", "a", "<", "f">>, <<"cat", "<">>, <<"cat", "<", "g">>, <<"<", "f">>,
  <<"ls", ">", "f", "<", "f">>, <<"cat", "<", "f", ">", "f">>, <<"ls", "|", "cat", ">", "f">>,
  <<"ls", ">", "/nx">>}

Builtins == {
  <<"cd", "/">>, <<"cd">>, <<"pwd">>, <<"quit">>, <<"id">>, <<"hostname">>,
  <<"builtin">>, <<"builtin", "ls">>, <<"echo">>, <<"echo", "a", "b">>, <<"echo", "-n">>,
  <<"echo", "-n", "1", "a">>, <<"echo", "-n", "2", "a">>, <<"echo", "-n", "2", "a", "b">>,
  <<"echo", "-n", "x", "a">>}

\* A job in the background with a command behind it, and lines of every kind,
\* one of them empty and one too long for the buffer.
MCScripts ==
  {Line(a) \o Line(b) : a \in {<<"ls", "&">>, <<"nx", "|", "ls", "&">>, <<>>}, b \in Commands}
  \cup {Line(b) \o Line(<<"ls">>) : b \in Builtins}
  \cup {Line(<<"ls", "|", "cat", "a", "a", "a", "|", "cat">>)}
=============================================================================
