---------------------------- MODULE MCLineClient ----------------------------
(***************************************************************************)
(* A finite instance of LineClient: every line that is a command, whole or *)
(* in part, well or badly separated, with whitespace around it.            *)
(***************************************************************************)
EXTENDS LineClient

MCBlanks == {" ", "\t", "\r"}
Words    == [GET |-> "get", Set |-> "set", SET |-> "set", DEL |-> "del", QUIT |-> "quit", Exit |-> "exit"]
MCLower(token) == IF token \in DOMAIN Words THEN Words[token] ELSE token

Around     == {<<>>, <<" ">>, <<"\t">>, <<" ", "\r">>}
Separators == {<<>>, <<" ">>, <<"\t">>, <<" ", " ">>, <<" ", "\t">>}
Commands   == {"GET", "Set", "delete", "Exit"}
Keys       == {<<>>, <<"k">>, <<"k", "\t", "k">>}
Arguments  == {<<>>, <<" ", "v">>, <<" ", " ", "v">>, <<" ", "v", " ", "v">>, <<"\t", " ", "v">>}

MCLines ==
  {before \o after : before, after \in Around}
    \cup {before \o <<command>> \o separator \o key \o argument \o after :
            before, after \in Around, command \in Commands, separator \in Separators,
            key \in Keys, argument \in Arguments}
MCValues == {<<"v">>, <<"v", "\r", "w">>}
=============================================================================
