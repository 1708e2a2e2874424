--------------------------- MODULE MCPop3Session ---------------------------
(***************************************************************************)
(* Model-checking instances of Pop3Session: the tokens int() accepts, and  *)
(* the command lines a client sends, as small sets.                        *)
(***************************************************************************)
EXTENDS Pop3Session, TLC

CONSTANTS s1, s2

\* int() on the argument tokens the command sets use; "x" is not a number.
MCNumeral == "0" :> 0 @@ "1" :> 1 @@ "2" :> 2 @@ "3" :> 3 @@ "4" :> 4

C(v, a) == [verb |-> v, args |-> a]

\* Logging in, and a failed attempt of each kind.
LoginCommands ==
    {C("USER", <<"user">>), C("USER", <<"bob">>), C("PASS", <<"pass">>),
     C("PASS", <<"guess">>)}

\* One command of every kind, in the forms the handlers tell apart.
MCCommandsFull ==
    LoginCommands \cup
    {C("QUIT", <<>>), C("STAT", <<>>), C("LIST", <<>>), C("LIST", <<"1">>),
     C("LIST", <<"x">>), C("UIDL", <<"4">>), C("RETR", <<"3">>),
     C("RETR", <<"1">>), C("TOP", <<"1", "0">>), C("TOP", <<"3", "0">>),
     C("TOP", <<"4", "0">>), C("TOP", <<"1">>), C("DELE", <<"0">>),
     C("DELE", <<"1">>), C("DELE", <<"3">>), C("DELE", <<"4">>),
     C("DELE", <<>>), C("RETR", <<>>), C("NOOP", <<>>), C("RSET", <<>>),
     C("XTND", <<>>)}

\* Well-formed commands only: what a client needs to mark and commit.
MCCommandsWellFormed ==
    LoginCommands \cup
    {C("QUIT", <<>>), C("STAT", <<>>), C("LIST", <<"1">>), C("RETR", <<"1">>),
     C("DELE", <<"1">>), C("DELE", <<"2">>), C("RSET", <<>>)}

\* Two sessions: logging in with the right credentials and marking.
MCCommandsTwo ==
    {C("USER", <<"user">>), C("PASS", <<"pass">>), C("PASS", <<"guess">>),
     C("DELE", <<"0">>), C("DELE", <<"1">>), C("DELE", <<"2">>),
     C("STAT", <<>>), C("LIST", <<"1">>), C("QUIT", <<>>)}

\* Sessions are interchangeable: the listener accepts them in any order.
SessionSymmetry == Permutations(Session)

=============================================================================
