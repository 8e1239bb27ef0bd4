----------------------------- MODULE MCBuildSql -----------------------------
(* Instance of BuildSql for TLC. *)
EXTENDS BuildSql

MCChar == {"a", "b", ".", ";", Slash, QI, QL}

\* No name, a plain one, and each place a delimiter can have in one.
MCNames == {<<>>, <<"a">>, <<QI>>, <<QL, ";">>, <<QI, QI>>, <<"a", QI, QL>>}

\* No path, and paths with no folder, one and two, absolute, with a repeated and with a
\* last slash, with delimiters, and one a character too long.
MCPaths ==
    {<<>>, <<"a">>, <<"a", "/">>, <<"a", "/", "/", "b">>, <<"/", QI, "/", "a">>,
     <<"a", "/", "b", "/", QL>>, <<"a", "/", "b", "/", "/", QL>>}
=============================================================================
