------------------------------ MODULE MCConfig ------------------------------
(***************************************************************************)
(* Config for TLC: one numeric setting, every file of at most two lines    *)
(* and two that mention everything, so that fetch_config stops before the  *)
(* last line.                                                              *)
(***************************************************************************)
EXTENDS Config

L(name, value) == [name |-> name, value |-> value]

Lines ==
    {L("THMAX", n) : n \in 0..2} \cup {L("BBFILE", v) : v \in {NoValue, "f"}}
    \cup {L("PEERS", v) : v \in {<<>>, <<NoColon, "p">>, <<"p", NoColon>>}}
    \cup {L("DAEMON", b) : b \in BOOLEAN}
    \cup {L("DEBUG", TRUE), L("other", NoValue)}

Everything ==
    <<L("THMAX", 1), L("BBFILE", "f"), L("PEERS", <<>>), L("PEERS", <<"p">>),
      L("DAEMON", FALSE), L("DEBUG", TRUE), L("THMAX", 2)>>

(* fetch_config stops before the line with a name for the board file. *)
NameUnread ==
    <<L("THMAX", 1), L("BBFILE", NoValue), L("PEERS", <<>>), L("PEERS", <<"p">>),
      L("DAEMON", FALSE), L("DEBUG", TRUE), L("BBFILE", "f")>>

ShortFiles ==
    {<<>>} \cup {<<a>> : a \in Lines} \cup {<<a, b>> : a \in Lines, b \in Lines}
    \cup {Everything, NameUnread}

Defaults == [s \in {"THMAX"} |-> 20]

CommandLines ==
    {[THMAX |-> T, b |-> b, f |-> f, d |-> f, peers |-> ps] :
        T \in {NoValue, 0}, b \in {NoValue, "g"}, f \in BOOLEAN,
        ps \in {<<>>, <<"q", "q">>, <<NoColon, "q">>}}
=============================================================================
