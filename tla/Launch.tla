------------------------------- MODULE Launch -------------------------------
(***************************************************************************)
(* Application start (src/gui/utils/launch.cpp): the command-line parser    *)
(* launch::CommandLineParser and the decisions of launch::main.  Pure      *)
(* operators.  An argument vector is a sequence of tokens; argv[0] of the  *)
(* C++ code is the first element.                                          *)
(***************************************************************************)
EXTENDS Naturals, Sequences, FiniteSets, TLC

(* The parser's fields after construction.                               *)
Parsed(exe, isUrl, isVersion, url) ==
    [executable |-> exe, isUrlCommand |-> isUrl, isVersionCommand |-> isVersion, urlCommand |-> url]

(* Mutant: the value after -urlcommand is not skipped, so it is examined *)
(* as an argument of its own.                                            *)
RECURSIVE ParseFrom_NoSkip(_, _, _, _)
ParseFrom_NoSkip(argv, i, windows, st) ==
    IF i > Len(argv) THEN st
    ELSE IF argv[i] = "-urlcommand"
         THEN IF i + 1 > Len(argv) THEN [st EXCEPT !.isUrlCommand = TRUE]
              ELSE ParseFrom_NoSkip(argv, i + 1, windows,
                                    [st EXCEPT !.isUrlCommand = TRUE, !.urlCommand = argv[i + 1]])
         ELSE IF ~windows /\ i = 2 /\ argv[i] = "--version"
              THEN [st EXCEPT !.isVersionCommand = TRUE]
              ELSE ParseFrom_NoSkip(argv, i + 1, windows, st)

(* The loop of CommandLineParser's constructor from C++ index i - 1:       *)
(* -urlcommand sets isUrlCommand_ and takes the next argument, if any, as  *)
(* the url command (stopping when there is none); --version as the first   *)
(* argument, except on Windows, sets isVersionCommand_ and stops.          *)
RECURSIVE ParseFrom(_, _, _, _)
ParseFrom(argv, i, windows, st) ==
    IF i > Len(argv) THEN st
    ELSE IF argv[i] = "-urlcommand"
         THEN IF i + 1 > Len(argv) THEN [st EXCEPT !.isUrlCommand = TRUE]
              ELSE ParseFrom(argv, i + 2, windows,
                             [st EXCEPT !.isUrlCommand = TRUE, !.urlCommand = argv[i + 1]])
         ELSE IF ~windows /\ i = 2 /\ argv[i] = "--version"
              THEN [st EXCEPT !.isVersionCommand = TRUE]
              ELSE ParseFrom(argv, i + 1, windows, st)

(* launch::CommandLineParser::CommandLineParser.                          *)
CommandLineParser(argv, windows) ==
    IF argv = <<>> THEN Parsed("", FALSE, FALSE, "")
    ELSE ParseFrom(argv, 2, windows, Parsed(argv[1], FALSE, FALSE, ""))

-----------------------------------------------------------------------------
(* launch::main up to the event loop.  The static isLaunched makes a      *)
(* second call return 0; an empty argv is refused with -1; Application is  *)
(* given argv[0] (all of argv in testing builds), every "/startup" (which  *)
(* also starts it minimized) and the custom arguments; then, in order:    *)
(* --version prints and returns 0; a second instance hands the command    *)
(* line to the running one; a pending update returns 0; a failed init     *)
(* returns 1; otherwise the event loop runs.  env holds the answers of     *)
(* Utils::Application and the build.                                       *)
LaunchMain(argv, env) ==
    LET cmd     == CommandLineParser(argv, env.windows)
        startup == {i \in 2..Len(argv) : argv[i] = "/startup"}
    IN  CASE env.launched                 -> [exit |-> "zero"]
          [] argv = <<>>                  -> [exit |-> "minus_one"]
          [] cmd.isVersionCommand         -> [exit |-> "zero", printed |-> TRUE]
          [] ~env.mainInstance            -> [exit |-> "switch_instance", cmd |-> cmd]
          [] env.updating                 -> [exit |-> "zero"]
          [] ~env.initOk                  -> [exit |-> "one"]
          [] OTHER -> [exit |-> "exec", cmd |-> cmd,
                       minimized |-> startup # {},
                       appArgs |-> (IF env.testing THEN argv ELSE <<argv[1]>>)
                                   \o [j \in 1..Cardinality(startup) |-> "/startup"] \o env.customArgs]

(* After the event loop: the dispatcher is destroyed, the argument copies  *)
(* freed, and a restart requested through the "restarting" property starts *)
(* the program again: on Linux execv with the original argv, elsewhere     *)
(* System::launchApplication with the first of the application's          *)
(* arguments, the program alone.                                          *)
AfterExec(argv, linux, restarting, result) ==
    [exit |-> result,
     relaunch |-> CASE ~restarting -> <<>>
                    [] linux       -> argv
                    [] OTHER       -> <<argv[1]>>]


-----------------------------------------------------------------------------
(***************************************************************************)
(* checkDesktopGl (Windows): probes OpenGL before Qt does, acquiring one   *)
(* thing per step and jumping to cleanup at the first step that fails.     *)
(* The version string read through glGetString can only set result to     *)
(* false, which it already is; glCreateShader decides, so the version is   *)
(* left out.                                                              *)
(***************************************************************************)
GlSteps == <<"LoadLibrary", "wglCreateContext", "wglDeleteContext", "wglMakeCurrent",
             "wglGetProcAddress", "RegisterClass", "CreateWindow", "GetDC",
             "ChoosePixelFormat", "SetPixelFormat", "CreateContext", "MakeCurrent">>

(* What a step that succeeded leaves for cleanup to look at.             *)
GlHandle == ("LoadLibrary" :> "lib") @@ ("wglMakeCurrent" :> "makeCurrentFn")
            @@ ("RegisterClass" :> "class") @@ ("CreateWindow" :> "wnd") @@ ("GetDC" :> "dc")
            @@ ("CreateContext" :> "context") @@ ("MakeCurrent" :> "current")

(* The handles held when step fail fails (0: every step succeeds).        *)
GlHeld(fail) ==
    LET done == IF fail = 0 THEN Len(GlSteps) ELSE fail - 1
    IN  {GlHandle[GlSteps[i]] : i \in {j \in 1..done : GlSteps[j] \in DOMAIN GlHandle}}

(* Mutant: the window is destroyed before its DC is released.            *)
CheckDesktopGl_DestroyFirst(fail, shader) ==
    LET held == GlHeld(fail)
    IN  [held    |-> held,
         cleanup |-> (IF "makeCurrentFn" \in held THEN <<"MakeCurrentNull">> ELSE <<>>)
                     \o (IF "context" \in held THEN <<"DeleteContext">> ELSE <<>>)
                     \o (IF "wnd" \in held THEN <<"DestroyWindow", "UnregisterClass">> ELSE <<>>)
                     \o (IF "dc" \in held /\ "wnd" \in held THEN <<"ReleaseDC">> ELSE <<>>),
         result  |-> fail = 0 /\ shader]

(* checkDesktopGl: the calls of the cleanup label, in order, and the     *)
(* result (true only when every step succeeded and wglGetProcAddress      *)
(* resolves glCreateShader).                                              *)
CheckDesktopGl(fail, shader) ==
    LET held == GlHeld(fail)
    IN  [held    |-> held,
         cleanup |-> (IF "makeCurrentFn" \in held THEN <<"MakeCurrentNull">> ELSE <<>>)
                     \o (IF "context" \in held THEN <<"DeleteContext">> ELSE <<>>)
                     \o (IF "dc" \in held /\ "wnd" \in held THEN <<"ReleaseDC">> ELSE <<>>)
                     \o (IF "wnd" \in held THEN <<"DestroyWindow", "UnregisterClass">> ELSE <<>>),
         result  |-> fail = 0 /\ shader]

=============================================================================
