---------------------------- MODULE CommandLine ----------------------------
(***************************************************************************)
(* From what the user types to what the daemon does with it: CliApp::run   *)
(* on the side of v2, CmdActor::dispatch and its handlers on the other.    *)
(*                                                                         *)
(* An argument is a name of one of the tables, an option, or one of three  *)
(* values: "val", "n=v" (a name and a value) and "a b" (a value with a     *)
(* blank).  A command is the sequence of the words in it, as dispatch      *)
(* splits it again.                                                        *)
(***************************************************************************)
EXTENDS Naturals, Sequences, FiniteSets, SequencesExt, FiniteSetsExt

\* The table that the help text is printed from: what each subcommand takes.
subCmds ==
    [actor   |-> [list |-> <<>>, enable |-> <<"name">>, disable |-> <<"name">>],
     wifi    |-> [scan |-> <<>>, list |-> <<>>, connect |-> <<"ssid", "password">>,
                  disconnect |-> <<>>, status |-> <<>>, autoconnect |-> <<"on|off">>],
     pmu     |-> [status |-> <<>>],
     metrics |-> [enable |-> <<>>, disable |-> <<>>, snapshot |-> <<>>, reset |-> <<>>]]

Options == {"-h", "-v", "-s", "-m", "-x"}     \* "-x": any other word with a dash

\* printHelp: the text of one subcommand, of all, or a complaint.
HelpFor(sub) == IF sub = "" THEN "all" ELSE IF sub \in DOMAIN subCmds THEN sub ELSE "unknown"

\* The arguments are looked at one after the other; an option that is obeyed at once
\* ends the run, and one the program does not know does so before a subcommand.
SubAt(line) ==
    LET words == {i \in DOMAIN line : line[i] \notin Options}
    IN  IF words = {} THEN Len(line) + 1 ELSE Min(words)

StopAt(line) ==
    LET stops == {i \in DOMAIN line : line[i] \in {"-v", "-s", "-m"} \/ (line[i] = "-x" /\ i < SubAt(line))}
    IN  IF stops = {} THEN 0 ELSE Min(stops)

Sub(line) == IF SubAt(line) > Len(line) THEN "" ELSE line[SubAt(line)]

\* Seeded fault: only the first argument after the subcommand is kept.
ArgsFirst(line) == SubSeq(line, SubAt(line) + 1, Min({Len(line), SubAt(line) + 1}))

\* Everything after the subcommand but the requests for help.
Args(line) == SelectSeq(SubSeq(line, SubAt(line) + 1, Len(line)), LAMBDA a : a # "-h")

\* `name=value' is sent as two words, and a blank separates words whoever typed it.
Words(arg) ==
    CASE arg = "n=v" -> <<"--n", "v">>
      [] arg = "a b" -> <<"a", "b">>
      [] OTHER       -> <<arg>>

Command(line) == <<Sub(line)>> \o FlattenSeq([i \in DOMAIN Args(line) |-> Words(Args(line)[i])])

\* What v2 does: "local" prints and leaves, "tui" becomes v2_tui, with the
\* connection it has made; "send" sends Command(line).
RunCli(line) ==
    CASE line = <<>> \/ line[1] = "help"                  -> "local"
      [] StopAt(line) # 0 /\ line[StopAt(line)] = "-m"    -> "tui"
      [] StopAt(line) # 0                                 -> "local"
      [] "-h" \in Range(line) \/ Sub(line) = ""           -> "local"
      [] Sub(line) \in {"version", "status"}              -> "local"
      [] Sub(line) = "monitor"                            -> "tui"
      [] OTHER                                            -> "send"

-----------------------------------------------------------------------------
(* CmdActor: the answer to a command; every handler has its own tests      *)

handleActor(args) ==
    CASE args = <<>>                                          -> "missing"
      [] args[1] = "list"                                     -> "done"
      [] args[1] \in {"enable", "disable"} /\ Len(args) >= 2  -> "done"
      [] OTHER                                                -> "unknown"

handlePmu(args) ==
    CASE args = <<>>          -> "missing"
      [] args[1] = "status"   -> "reading"
      [] OTHER                -> "unknown"

handleWifi(args) ==
    CASE args = <<>>                                                  -> "missing"
      [] args[1] \in {"scan", "list", "disconnect", "status"}         -> "done"
      [] args[1] \in {"connect", "autoconnect"} /\ Len(args) >= 2     -> "done"
      [] args[1] \in {"connect", "autoconnect"}                       -> "usage"
      [] OTHER                                                        -> "unknown"

handleMetrics(args) ==
    CASE args = <<>>                                            -> "missing"
      [] args[1] \in {"enable", "disable", "snapshot", "reset"} -> "done"
      [] OTHER                                                  -> "unknown"

\* The network a `wifi connect' asks for and the password it gives.
ConnectRequest(args) == [ssid |-> args[2], password |-> IF Len(args) >= 3 THEN args[3] ELSE ""]

Dispatch(command) ==
    LET args == Tail(command) IN
    CASE command[1] = "actor"   -> handleActor(args)
      [] command[1] = "pmu"     -> handlePmu(args)
      [] command[1] = "wifi"    -> handleWifi(args)
      [] command[1] = "metrics" -> handleMetrics(args)
      [] OTHER                  -> "unknown"

-----------------------------------------------------------------------------
\* What the help text offers, with a plain value for every argument it names, is sent
\* to the daemon and understood there, a help option anywhere in it is obeyed instead,
\* and a network's name and password arrive as they were given: two tables in two
\* programs agree (CliApp::subCmds_, CliApp::run, CmdActor::dispatch).
UsageIsServed ==
    \A sub \in DOMAIN subCmds : \A k \in DOMAIN subCmds[sub] :
        LET line == <<sub, k>> \o [i \in DOMAIN subCmds[sub][k] |-> IF i = 1 THEN "val" ELSE "val2"] IN
        /\ RunCli(line) = "send" /\ Dispatch(Command(line)) \in {"done", "reading"}
        /\ \A i \in 1 .. Len(line) + 1 : RunCli(InsertAt(line, i, "-h")) = "local"
        /\ HelpFor(sub) = sub
        /\ k = "connect" => ConnectRequest(Tail(Command(line))) = [ssid |-> "val", password |-> "val2"]
=============================================================================
