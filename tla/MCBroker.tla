------------------------------ MODULE MCBroker ------------------------------
(***************************************************************************)
(* Command lines for model-checking Broker.                                *)
(***************************************************************************)
EXTENDS Broker

CONSTANT Any   \* a connection

\* A command with options, the last of which count, that is too large for the
\* session; one whose message overruns the client's buffer or is cut to one
\* byte; one whose last word counts as a word though it is an option without a
\* value; one with a word too few; and no command.
AnyLines ==
    {<<"push", "t", "0", "60k", "--port", "1", "--port", "73616">>,
     <<"delete", "t", "0", "64k", "--host", "elsewhere", "--host", "127.0.0.1">>,
     <<"pull", "t", "0", "--port">>,
     <<"push", "t", "0", "m">>,
     <<"pull">>}

\* One client is started with anything, the others push.
Lines == [c \in Connections |-> IF c = Any THEN AnyLines ELSE {<<"push", "t", "0", "m", "--port">>}]

Words == UNION {UNION {{a[i] : i \in 1..Len(a)} : a \in Lines[c]} : c \in Connections}
         \cup {"8080"}

MCAtoi == [w \in Words |-> CASE w = "1" -> 1 [] w = "8080" -> 8080 [] w = "73616" -> 73616
                             [] OTHER -> 0]

MCLength == [w \in Words |-> CASE w = "60k" -> 65525 [] w = "64k" -> 65537 [] OTHER -> 1]
=============================================================================
