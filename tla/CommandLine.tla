----------------------------- MODULE CommandLine -----------------------------
(***************************************************************************)
(* What the command-line client makes of its arguments                     *)
(* (src/rpc-client.cpp) and how it puts a request on the wire              *)
(* (src/rpc/rpc-client.h).                                                 *)
(*                                                                         *)
(* A command line is the sequence argv[1], argv[2], ... of its words.  Of  *)
(* a word the code uses its text, its length and its value as a number.    *)
(***************************************************************************)
EXTENDS Integers, Sequences, FiniteSets, FiniteSetsExt

CONSTANTS CommandLines,   \* CommandLines[c]: what client c may be started with
          Atoi,      \* Atoi[w]: std::atoi of word w
          Length     \* Length[w]: its length

ASSUME CommandLineAssumption ==
    \A c \in DOMAIN CommandLines : \A a \in CommandLines[c] : \A i \in 1..Len(a) :
        Atoi[a[i]] \in Int /\ Length[a[i]] \in Nat

\* Conversion to uint16_t.
Uint16(n) == n % 65536

argc(a) == Len(a) + 1

\* The help text is printed and nothing is done.
OnlyHelp(a) == argc(a) < 3

\* The words from argv[2] on that the scan for options takes for one: the
\* value of an option is skipped, and an option without a value is none.
OptionAt(a) ==
    LET option[i \in 1..Len(a)] ==
            /\ i >= 2 /\ i + 1 < argc(a)
            /\ a[i] \in {"--host", "--port"}
            /\ ~option[i - 1]
    IN  {i \in 1..Len(a) : option[i]}

\* The value of the last such option.
OptionValue(a, option, default) ==
    LET given == {i \in OptionAt(a) : a[i] = option}
    IN  IF given = {} THEN default ELSE a[Max(given) + 1]

Host(a) == OptionValue(a, "--host", "127.0.0.1")
Port(a) == Uint16(Atoi[OptionValue(a, "--port", "8080")])

\* The least argc that each command accepts.
ArgcOf == [push |-> 6, pull |-> 5, delete |-> 6]

\* The command is known and has enough words.
Usable(a) == a[1] \in DOMAIN ArgcOf /\ argc(a) >= ArgcOf[a[1]]

\* The lengths of the name and of the message as std::string has them.
NameLength(a)    == Length[a[2]]
MessageLength(a) == IF a[1] = "pull" THEN 0 ELSE Length[a[4]]

\* send_request: the header's fields have 16 bits each.
Request(a) ==
    [opcode       |-> [push |-> "PUSH", pull |-> "PULL", delete |-> "DELETE"][a[1]],
     topic_name   |-> Uint16(NameLength(a)),
     partition_id |-> Uint16(Atoi[a[3]]),
     message      |-> Uint16(MessageLength(a))]

\* The buffer is as large as the header says; all of the name and of the
\* message is copied into it.
Overruns(a) ==
    NameLength(a) + MessageLength(a) > Request(a).topic_name + Request(a).message
=============================================================================
