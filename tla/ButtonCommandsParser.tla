------------------------ MODULE ButtonCommandsParser ------------------------
(***************************************************************************)
(* How the text of a user button becomes a list of commands                *)
(* (src/sw/MainApplication/include/ButtonCommandsParser.hpp): loops are    *)
(* unrolled by searching the lines for their ends, long waits are cut into *)
(* pieces, after each of which an abort can take effect.                   *)
(*                                                                         *)
(* A line is [kind, arg, says].  kind is what processStrings() recognises  *)
(* at its beginning; arg the number in it (or names the text); says which  *)
(* of the words "__repeat_start" and "__repeat_end" occur anywhere in it,  *)
(* which is all that findRepeatEnd() looks for.                            *)
(***************************************************************************)
EXTENDS Integers, Sequences, FiniteSets

LOCAL INSTANCE SequencesExt
LOCAL INSTANCE FiniteSetsExt

CONSTANTS
    Messages, \* bound: the texts sent, as numbers, in the programs considered
    Waits,    \* bound: the arguments of __wait in them
    Counts,   \* bound: the arguments of __repeat_start in them
    Depth     \* bound: how deep their loops are nested

ASSUME ParserAssumption == Messages \union Waits \union Counts \subseteq Int /\ Depth \in Nat

Line(k, n, words) == [kind |-> k, arg |-> n, says |-> words]
Text(n) == Line("text", n, {})
ToPort(n) == Line("port", n, {})
WaitFor(n) == Line("wait", n, {})
RepeatStart(n) == Line("start", n, {"__repeat_start"})
RepeatEnd == Line("special", 0, {"__repeat_end"})

MAXIMUM_WAIT_TIME == 500
DEFAULT_PORT_ID == -1

\* The commands made of lines: to sleep, and to write a line to a port.
Sleeps(time) == [kind |-> "wait", time |-> time]
Writes(line) ==
    [kind |-> "send", line |-> line,
     port |-> IF line.kind = "port" THEN line.arg ELSE DEFAULT_PORT_ID]

RECURSIVE prepareWaitCommand(_)
prepareWaitCommand(time) ==
    LET timeout == IF time < MAXIMUM_WAIT_TIME THEN time ELSE MAXIMUM_WAIT_TIME
    IN  IF time = 0 THEN <<>>
        ELSE <<Sleeps(timeout)>> \o prepareWaitCommand(time - timeout)

Saying(lines, i, word) == Cardinality({j \in 2 .. i : word \in lines[j].says})

SlipFindRepeatEnd(lines) ==
    LET Ends == {i \in 2 .. Len(lines) : "__repeat_end" \in lines[i].says}
    IN  IF Ends = {} THEN Len(lines) + 1 ELSE Min(Ends)

\* The first end behind lines[1] that no inner loop has used up.
findRepeatEnd(lines) ==
    LET Ends == {i \in 2 .. Len(lines) :
                    Saying(lines, i, "__repeat_start") < Saying(lines, i, "__repeat_end")}
    IN  IF Ends = {} THEN Len(lines) + 1 ELSE Min(Ends)

\* A loop that is not closed, or not to be repeated, leaves its lines to be
\* used as they are; so does an end without a loop.
RECURSIVE processStrings(_)
processStrings(lines) ==
    IF lines = <<>> THEN <<>> ELSE
    LET line == Head(lines)
        end  == findRepeatEnd(lines)
    IN  CASE line.kind \in {"text", "port"} ->
               <<Writes(line)>> \o processStrings(Tail(lines))
          [] line.kind = "wait" /\ line.arg > 0 ->
               prepareWaitCommand(line.arg) \o processStrings(Tail(lines))
          [] line.kind = "start" /\ line.arg > 0 /\ end <= Len(lines) ->
               LET body == processStrings(SubSeq(lines, 2, end - 1))
               IN  FlattenSeq([i \in 1 .. line.arg |-> body])
                       \o processStrings(SubSeq(lines, end + 1, Len(lines)))
          [] OTHER -> processStrings(Tail(lines))

---------------------------------------------------------------------------
(* Programs: what a user means by a text.  A statement is a line and, for a *)
(* __repeat_start, the body of its loop.                                   *)

Statement(line, body) == [line |-> line, body |-> body]
IsLoop(s) == s.line.kind = "start"

Simple == {Statement(l, <<>>) :
              l \in {Text(n) : n \in Messages} \union {ToPort(n) : n \in Messages}
                    \union {WaitFor(n) : n \in Waits}}

RECURSIVE Statements(_)
Statements(depth) ==
    IF depth = 0 THEN Simple
    ELSE Simple \union {Statement(RepeatStart(n), body) :
            n \in Counts, body \in BoundedSeq(Statements(depth - 1), 2)}

RECURSIVE TextOf(_)
TextOf(program) ==
    FlattenSeq([i \in DOMAIN program |->
        <<program[i].line>> \o
            IF IsLoop(program[i]) THEN TextOf(program[i].body) \o <<RepeatEnd>>
                                  ELSE <<>>])

\* What a program asks for: its simple statements, loops executed.
RECURSIVE Executed(_)
Executed(program) ==
    FlattenSeq([i \in DOMAIN program |->
        LET s == program[i] IN
        IF IsLoop(s)
        THEN FlattenSeq([n \in 1 .. Max({1, s.line.arg}) |-> Executed(s.body)])
        ELSE <<s.line>>])

\* When a command is written, in milliseconds of waiting, and the wait in all.
Waited(commands, n) ==
    MapThenSumSet(LAMBDA i : commands[i].time,
                  {i \in 1 .. n : commands[i].kind = "wait"})

Schedule(commands) ==
    LET writes == SelectSeq([i \in DOMAIN commands |-> i],
                            LAMBDA i : commands[i].kind = "send")
    IN  [sent  |-> [k \in DOMAIN writes |->
                       <<Waited(commands, writes[k]), commands[writes[k]]>>],
         total |-> Waited(commands, Len(commands))]

Plain(line) == IF line.kind = "wait" THEN Sleeps(Max({0, line.arg})) ELSE Writes(line)

Meant(program) ==
    LET lines == Executed(program) IN [i \in DOMAIN lines |-> Plain(lines[i])]

---------------------------------------------------------------------------
(* Correctness of the parser, for the programs considered.                 *)

\* Loops within loops, beside one another, empty or not to be repeated, and
\* waits of any length: what the button does is what the text says, at the
\* times it says, and no piece of a wait is longer than an abort may take.
ProgramsRun ==
    \A s \in Statements(Depth) :
        LET program  == <<s, Statement(Text(0), <<>>)>>
            commands == processStrings(TextOf(program))
        IN  /\ Schedule(commands) = Schedule(Meant(program))
            /\ \A i \in DOMAIN commands :
                   commands[i].kind = "wait" => commands[i].time \in 1 .. MAXIMUM_WAIT_TIME
=============================================================================
