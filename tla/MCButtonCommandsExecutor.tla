---------------------- MODULE MCButtonCommandsExecutor ----------------------
(* Two threads of a button: the one winding down and its successor.  Their  *)
(* lists are what the parser makes of programs.                            *)
EXTENDS ButtonCommandsExecutor, ButtonCommandsParser

CONSTANTS t1, t2

AllCases == BOOLEAN
SomeWaits == {-1, 500, 1200}

Does(line) == Statement(line, <<>>)
ShortPrograms == {<<>>,
    <<Does(WaitFor(300)), Does(Text(1))>>,
    <<Does(Text(1)), Statement(RepeatStart(1), <<Does(WaitFor(500))>>), Does(ToPort(2))>>}

Kinds(commands) == [i \in DOMAIN commands |-> commands[i].kind]
ShortLists == {Kinds(processStrings(TextOf(p))) : p \in ShortPrograms}

\* The button's list is what the text in its dialog says, whenever that was
\* parsed; and so it would be for every program considered.
ListIsMeant ==
    ProgramsRun /\ m_commands \in {Kinds(Meant(p)) : p \in ShortPrograms}
=============================================================================
