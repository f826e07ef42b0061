---------------------------- MODULE Persistence ----------------------------
(***************************************************************************)
(* The settings and the command history across runs of the application     *)
(* (src/sw/Utilities/source/Persistence.cpp, and what MainApplication does *)
(* with it when it is constructed and destroyed), with crashes.            *)
(*                                                                         *)
(* One port has a history.  A command is the sequence of its parts between *)
(* colons: the history is saved with a colon behind every command.         *)
(***************************************************************************)
EXTENDS Integers, Sequences, SequencesExt

CONSTANTS
    Listeners,  \* the modules with settings, in the order they register
    Values,     \* values of a module's settings; 0 is the default
    Unreadable, \* <<module, value>>: what the module saves, and throws at when
                \* it reads it: the text of a filter that is no regular
                \* expression, a number of SETTINGS that is no int
    Commands,   \* what is sent to the port
    MaxHistory, \* MAX_COMMANDS_HISTORY_ITEMS
    Envs        \* the environments considered, see Env

Env == [gentle : BOOLEAN, \* the application does not crash while it saves
        apart  : BOOLEAN, \* a button does not send while the GUI thread works
                          \* on the history
        plain  : BOOLEAN, \* no command contains a colon
        read   : BOOLEAN] \* the user enters nothing that is Unreadable

Module == ToSet(Listeners) \ {"MAIN_APPLICATION"}

ASSUME PersistenceAssumption ==
    /\ Listeners \in Seq(STRING) /\ Len(Listeners) > 1
    /\ Listeners[1] = "MAIN_APPLICATION" /\ Listeners[2] = "SETTINGS"
    /\ Values \subseteq Nat /\ 0 \in Values
    /\ Unreadable \subseteq Module \X (Values \ {0})
    /\ Commands \subseteq Seq(STRING) \ {<<>>}
    /\ MaxHistory \in Nat \ {0}
    /\ Envs \subseteq Env

Senders == {"gui", "button"}

VARIABLES
    env,      \* the environment of this behaviour, never changed
    pc,       \* what the GUI thread is doing
    at,       \* how many modules have registered, or have been asked
    file,     \* the file: absent, cut short, or what it holds
    json,     \* g_jsonFile, or the one save() collects; absent if empty
    settings, \* each module's settings
    history,  \* m_commands_history
    adding,   \* the command each sender is in the middle of adding
    last,     \* history: what the last save() collected
    touched,  \* history: something was changed in this run
    failed    \* history: a start with this file has ended in an exception

persistenceVars ==
    <<env, pc, at, file, json, settings, history, adding, last, touched, failed>>

Absent == [is |-> "absent"]
Cut == [is |-> "cut"]
Content(s, h) == [is |-> "whole", settings |-> s, history |-> h]

Defaults == [m \in Module |-> 0]
NoCommand == <<>>
Idle == [s \in Senders |-> NoCommand]

PersistenceInit ==
    /\ env \in Envs
    /\ pc = "off"
    /\ at = 0
    /\ file = Absent
    /\ json = Absent
    /\ settings = Defaults
    /\ history = <<>>
    /\ adding = Idle
    /\ last = Absent
    /\ touched = FALSE
    /\ failed = FALSE

---------------------------------------------------------------------------
(* The constructor *)

\* loadFile(): without a file there is nothing to restore; a file that cannot
\* be parsed throws, and nobody catches it.
Load ==
    /\ pc = "off"
    /\ pc' = IF file = Cut THEN "off" ELSE "registering"
    /\ json' = IF file = Cut THEN Absent ELSE file
    /\ at' = 0
    /\ settings' = Defaults
    /\ history' = <<>>
    /\ touched' = FALSE
    /\ failed' = (failed \/ file = Cut)
    /\ UNCHANGED <<env, file, adding, last>>

\* What the object held is gone.
Gone ==
    /\ pc' = "off"
    /\ at' = 0
    /\ json' = Absent
    /\ settings' = Defaults
    /\ history' = <<>>
    /\ adding' = Idle
    /\ touched' = FALSE

Saved(m) == IF json = Absent THEN settings[m] ELSE json.settings[m]

Reads(m) == json # Absent => <<m, json.settings[m]>> \notin Unreadable

\* A module throws at what it reads; nobody catches that either.
Throw == Gone /\ failed' = TRUE /\ UNCHANGED <<env, file, last>>

\* The next module is constructed and added; SETTINGS restores itself at once.
Register ==
    /\ pc = "registering" /\ at < Len(Listeners)
    /\ Listeners[at + 1] = "SETTINGS" => Reads("SETTINGS")
    /\ at' = at + 1
    /\ settings' = IF Listeners[at'] = "SETTINGS"
                   THEN [settings EXCEPT !["SETTINGS"] = Saved("SETTINGS")]
                   ELSE settings
    /\ UNCHANGED <<env, pc, file, json, history, adding, last, touched, failed>>

RegisterThrows ==
    /\ pc = "registering" /\ at < Len(Listeners)
    /\ Listeners[at + 1] = "SETTINGS" /\ ~Reads("SETTINGS")
    /\ Throw

Registered == {Listeners[k] : k \in 1 .. at}

\* What is read back from a history: its commands, split at their colons.
Split(h) == FlattenSeq([i \in DOMAIN h |-> [j \in DOMAIN h[i] |-> <<h[i][j]>>]])

SlipRestored == Registered \ {Last(Listeners)}
Restored == Registered

SlipClear == json
clearFile == Absent

\* restore(), then clearFile().
Restore ==
    /\ pc = "registering" /\ at = Len(Listeners)
    /\ \A m \in Restored \intersect Module : Reads(m)
    /\ pc' = "up"
    /\ settings' = [m \in Module |-> IF m \in Restored THEN Saved(m) ELSE settings[m]]
    /\ history' = history \o (IF json = Absent THEN <<>> ELSE Split(json.history))
    /\ json' = clearFile
    /\ UNCHANGED <<env, at, file, adding, last, touched, failed>>

RestoreThrows ==
    /\ pc = "registering" /\ at = Len(Listeners)
    /\ \E m \in Restored \intersect Module : ~Reads(m)
    /\ Throw

---------------------------------------------------------------------------
(* The application runs *)

\* A dialog or a button changes settings.
Change ==
    /\ pc = "up" /\ adding["gui"] = NoCommand
    /\ \E m \in Module, v \in Values :
           /\ env.read => <<m, v>> \notin Unreadable
           /\ settings' = [settings EXCEPT ![m] = v]
    /\ touched' = TRUE
    /\ UNCHANGED <<env, pc, at, file, json, history, adding, last, failed>>

MaySend(s) ==
    /\ pc = "up" \/ (s = "button" /\ pc = "saving")
    /\ adding[s] = NoCommand
    /\ env.apart => adding = Idle /\ (pc = "saving" => at > 0)

SlipDuplicates(h, c) == h
removeCommandHistoryDuplicates(h, c) ==
    FlattenSeq([i \in DOMAIN h |-> IF h[i] = c THEN <<>> ELSE <<h[i]>>])

\* sendToPort() has written a command: addToCommandHistory() begins.
Send(s) ==
    /\ MaySend(s)
    /\ \E c \in Commands :
           /\ env.plain => Len(c) = 1
           /\ adding' = [adding EXCEPT ![s] = c]
           /\ history' = removeCommandHistoryDuplicates(history, c)
    /\ touched' = TRUE
    /\ UNCHANGED <<env, pc, at, file, json, settings, last, failed>>

SlipTrim(h) == IF Len(h) > MaxHistory THEN SubSeq(h, Len(h) - MaxHistory + 1, Len(h)) ELSE h
Trim(h) == IF Len(h) >= MaxHistory THEN SubSeq(h, Len(h) - MaxHistory + 2, Len(h)) ELSE h

\* push_back, and the oldest are erased.
Push(s) ==
    /\ pc \in {"up", "saving"} /\ adding[s] # NoCommand
    /\ history' = Trim(Append(history, adding[s]))
    /\ adding' = [adding EXCEPT ![s] = NoCommand]
    /\ UNCHANGED <<env, pc, at, file, json, settings, last, touched, failed>>

---------------------------------------------------------------------------
(* The destructor *)

\* save() opens the file, and empties it; or cannot.
Save ==
    /\ pc = "up" /\ adding["gui"] = NoCommand
    /\ env.apart => adding = Idle
    /\ \/ /\ pc' = "saving"
          /\ file' = Cut
          /\ json' = Content(Defaults, <<>>)
       \/ pc' = "closing" /\ UNCHANGED <<file, json>>
    /\ at' = 0
    /\ UNCHANGED <<env, settings, history, adding, last, touched, failed>>

\* The next module is asked for its settings.
Gather ==
    /\ pc = "saving" /\ at < Len(Listeners)
    /\ at' = at + 1
    /\ json' = IF Listeners[at'] = "MAIN_APPLICATION"
               THEN [json EXCEPT !.history = history]
               ELSE [json EXCEPT !.settings[Listeners[at']] = settings[Listeners[at']]]
    /\ UNCHANGED <<env, pc, file, settings, history, adding, last, touched, failed>>

SlipStored == Cut
Stored == json

Write ==
    /\ pc = "saving" /\ at = Len(Listeners)
    /\ pc' = "closing"
    /\ file' = Stored
    /\ last' = json
    /\ json' = Absent
    /\ UNCHANGED <<env, at, settings, history, adding, touched, failed>>

\* The rest of the destructor.
Close == pc = "closing" /\ Gone /\ UNCHANGED <<env, file, last, failed>>

---------------------------------------------------------------------------
\* The application is killed, or the machine stops.
Crash ==
    /\ pc # "off"
    /\ env.gentle => pc # "saving"
    /\ Gone
    /\ UNCHANGED <<env, file, last, failed>>

\* The user deletes the file.
Delete ==
    /\ pc = "off"
    /\ file' = Absent /\ last' = Absent /\ failed' = FALSE
    /\ UNCHANGED <<env, pc, at, json, settings, history, adding, touched>>

PersistenceNext ==
    \/ Load \/ Register \/ RegisterThrows \/ Restore \/ RestoreThrows
    \/ Change \/ \E s \in Senders : Send(s) \/ Push(s)
    \/ Save \/ Gather \/ Write \/ Close
    \/ Crash \/ Delete

PersistenceSpec == PersistenceInit /\ [][PersistenceNext]_persistenceVars

---------------------------------------------------------------------------
(* Properties *)

Histories == Seq(Seq(STRING))

Contents(f) ==
    f.is = "whole" => f.settings \in [Module -> Values] /\ f.history \in Histories

\* Types; a save in progress has a file that is cut, and nothing else than
\* the start and a save have settings in g_jsonFile.
PersistenceTypes ==
    /\ env \in Env
    /\ pc \in {"off", "registering", "up", "saving", "closing"}
    /\ at \in 0 .. Len(Listeners)
    /\ \A f \in {file, json, last} : f.is \in {"absent", "cut", "whole"} /\ Contents(f)
    /\ pc = "saving" => file = Cut
    /\ json # Absent => pc \in {"registering", "saving"}
    /\ settings \in [Module -> Values]
    /\ history \in Histories
    /\ adding \in [Senders -> Seq(STRING)]
    /\ {touched, failed} \subseteq BOOLEAN

\* Unless the application dies while it saves, the file is what the last save
\* collected, whatever else happens.
GentleFileIsLastSave == env.gentle /\ pc # "saving" => file = last

\* What a run comes up with, if it does, is what was saved: every module's
\* settings, and the history if no command contains a colon.
PlainRoundTrip ==
    pc = "up" /\ ~touched /\ file.is = "whole" =>
        /\ settings = file.settings
        /\ env.plain => history = file.history

Broken(f) ==
    \/ f = Cut
    \/ f.is = "whole" /\ \E m \in Module : <<m, f.settings[m]>> \in Unreadable

\* No start fails if no save is cut by a crash and nothing Unreadable is
\* entered.  Once a start has failed, at a file with either, none succeeds
\* until the user deletes the file.
ReadStarts ==
    /\ env.gentle /\ env.read => ~failed
    /\ failed => Broken(file) /\ pc \in {"off", "registering"}

\* All three: what was there at the end of a run is there in the next one.
SettingsSurvive == GentleFileIsLastSave /\ PlainRoundTrip /\ ReadStarts

\* The history has no duplicates and does not exceed its limit.
PlainHistory ==
    env.apart /\ env.plain => IsInjective(history) /\ Len(history) < MaxHistory
=============================================================================
