------------------------------ MODULE ToolRun ------------------------------
(***************************************************************************)
(* run_tool: one tool call after another on a workspace that is a host     *)
(* directory or a container.  A call is served by a symbol search, by the  *)
(* host's file system, or by a command; what a command prints is compacted *)
(* and, when it is long, also stored in an artifact.                       *)
(*                                                                         *)
(* A file is its number of lines, a line one character of output, and a    *)
(* text its length.  A call that raises fails the activity, which is not   *)
(* retried, and with it the run.                                           *)
(***************************************************************************)
EXTENDS Integers, FiniteSetsExt

CONSTANTS
    Files,
    MaxCharacters, (* CONFIG.tool_output_max_characters                     *)
    HeadSize,      (* CONFIG.tool_output_compact_head_characters            *)
    TailSize,      (* CONFIG.tool_output_compact_tail_characters            *)
    MaxLines,      (* bound: lines of a file                                *)
    MaxOutput      (* bound: characters a command prints on one stream      *)

(* Settings are read from the environment and not validated; these are     *)
(* true of the defaults, 20000, 8000 and 4000.                             *)
ASSUME ToolRunAssumption ==
    /\ {MaxCharacters, HeadSize, MaxLines} \subseteq Nat
    /\ {TailSize, MaxOutput} \subseteq Nat \ {0}
    /\ HeadSize + TailSize <= MaxCharacters
    /\ Files # {}
    /\ MaxLines <= MaxOutput   (* of the bounds: a command can print a file *)

VARIABLES
    docker,    (* DockerWorkspace, else HostWorkspace                       *)
    at,        (* idle, dispatch, running, output, answered or raised       *)
    request,   (* ToolExecutionRequest                                      *)
    files,     (* the workspace: lines of each file, or Absent              *)
    hangs,     (* the command does not end by itself                        *)
    output,    (* CommandResult                                             *)
    result     (* ToolResult                                                *)

vars == <<docker, at, request, files, hangs, output, result>>

Absent == -1
None == MaxLines + 2
Contents == {Absent} \cup 0 .. MaxLines

(* The path validation tells only whether a path may leave the workspace.  *)
Searches == {"find_definition", "find_callers", "find_callees"}
Writes == {"write_file", "write_regression"}
Shells == {"run_shell", "run_tests", "apply_patch"}
Call == [tool : Searches \cup Writes \cup Shells \cup {"read_file"},
         file : Files, escapes : BOOLEAN, content : 0 .. MaxLines,
         start : Int, end : Int, limit : Nat, indexed : BOOLEAN]

Blank == [tool |-> "run_shell", file |-> CHOOSE f \in Files : TRUE,
          escapes |-> FALSE, content |-> 0, start |-> 1, end |-> None,
          limit |-> 1, indexed |-> TRUE]

(* Only what a tool reads of its arguments is varied. *)
SearchCall(t, b) == [Blank EXCEPT !.tool = t, !.indexed = b]
WriteCall(t, f, b, n) == [Blank EXCEPT !.tool = t, !.file = f, !.escapes = b, !.content = n]
ShellCall(t, b, n) == [Blank EXCEPT !.tool = t, !.escapes = b, !.limit = n]
ReadCall(f, b, m, n) == [Blank EXCEPT !.tool = "read_file", !.file = f, !.escapes = b,
                                      !.start = m, !.end = n]

Calls ==
    {SearchCall(t, b) : t \in Searches, b \in BOOLEAN}
    \cup {WriteCall(t, f, b, n) :
            t \in Writes, f \in Files, b \in BOOLEAN, n \in 0 .. MaxLines}
    \cup {ShellCall(t, b, n) : t \in Shells, b \in BOOLEAN, n \in 0 .. 1}
    \cup {ReadCall(f, b, m, n) :
            f \in Files, b \in BOOLEAN, m \in -1 .. MaxLines + 1, n \in -1 .. None}

NoOutput == [stdout |-> 0, stderr |-> 0, exit |-> 0]
Whole(n) == [head |-> n, tail |-> 0, omitted |-> 0]
NoResult == [stdout |-> Whole(0), stderr |-> Whole(0), exit |-> 0,
             lines |-> {}, truncated |-> FALSE, artifacts |-> {}]

Init ==
    /\ docker \in BOOLEAN
    /\ at = "idle"
    /\ request = Blank
    /\ files \in [Files -> Contents]
    /\ hangs = FALSE
    /\ output = NoOutput
    /\ result = NoResult

-----------------------------------------------------------------------------
(* Mutant: the omitted part is counted from the limit. *)
CompactFromLimit(n) ==
    IF n <= MaxCharacters THEN Whole(n)
    ELSE [head |-> HeadSize, tail |-> TailSize, omitted |-> n - MaxCharacters]

(* _compact_output.  output[-tail_size:] is all of it if tail_size is 0.    *)
Compact(n) ==
    IF n <= MaxCharacters THEN Whole(n)
    ELSE [head |-> Min({HeadSize, n}),
          tail |-> IF TailSize = 0 THEN n ELSE Min({TailSize, n}),
          omitted |-> n - HeadSize - TailSize]

(* Mutant: the head alone is shown. *)
ExcerptHead(lines) ==
    IF Cardinality(lines) <= MaxCharacters THEN lines
    ELSE {n \in lines : n < Min(lines) + HeadSize}

(* The lines that are left of a text of these when it is compacted.        *)
Excerpt(lines) ==
    IF Cardinality(lines) <= MaxCharacters THEN lines
    ELSE {n \in lines : n < Min(lines) + HeadSize \/ n > Max(lines) - TailSize}

(* The lines, counted from 1, of Python's lines[a:b] for n lines.           *)
Slice(n, a, b) ==
    LET bound(i) == IF i < 0 THEN Max({0, n + i}) ELSE Min({i, n})
    IN  bound(a) + 1 .. bound(b)

(* Mutant: a line range taken as a Python range. *)
HostLinesFromZero(n, start, end) ==
    Slice(n, start, IF end = None THEN n ELSE end)

(* _read_host_snippet_lines as _host_tool_result calls it: nothing is      *)
(* clamped here, a start of 0 means the last line.                         *)
HostLines(n, start, end) ==
    Slice(n, start - 1, IF end = None THEN n ELSE end)

(* _read_file_command: the start is clamped to 1, the end to the start as  *)
(* it was given.                                                           *)
ContainerLines(n, start, end) ==
    Slice(n, Max({1, start}) - 1,
          IF end = None THEN n ELSE Max({start, end}))

-----------------------------------------------------------------------------
Ask ==
    /\ at = "idle"
    /\ request' \in Calls
    /\ at' = "dispatch"
    /\ UNCHANGED <<docker, files, hangs, output, result>>

(* The agent has its answer; the workspace is all that stays. *)
Return ==
    /\ at = "answered"
    /\ at' = "idle"
    /\ request' = Blank
    /\ hangs' = FALSE
    /\ output' = NoOutput
    /\ result' = NoResult
    /\ UNCHANGED <<docker, files>>

Raise ==
    /\ at' = "raised"
    /\ UNCHANGED <<docker, request, hangs, output, result>>

Answer(exit, lines) ==
    /\ at' = "answered"
    /\ output' = [NoOutput EXCEPT !.stdout = Cardinality(lines), !.exit = exit]
    /\ result' = [NoResult EXCEPT !.exit = exit, !.lines = lines,
                                  !.stdout = Whole(Cardinality(lines))]
    /\ UNCHANGED <<docker, request, hangs>>

(* _indexed_tool_result: find_definition refuses other languages; without  *)
(* an index a search has no command either and command_for_tool raises.    *)
DispatchSearch ==
    /\ at = "dispatch" /\ request.tool \in Searches
    /\ UNCHANGED files
    /\ IF ~request.indexed THEN Raise
       ELSE \/ request.tool = "find_definition" /\ Answer(1, {})
            \/ /\ at' = "running"
               /\ hangs' \in BOOLEAN
               /\ UNCHANGED <<docker, request, output, result>>

(* The host's file system need not answer, of a pipe for instance; no time *)
(* limit applies.                                                          *)
HostFileHangs ==
    /\ at = "dispatch" /\ ~docker /\ request.tool \in Writes \cup {"read_file"}
    /\ ~request.escapes
    /\ at' = "running"
    /\ hangs' = TRUE
    /\ UNCHANGED <<docker, request, files, output, result>>

(* _host_tool_result: write_file and write_regression.                     *)
WriteOnHost ==
    /\ at = "dispatch" /\ ~docker /\ request.tool \in Writes
    /\ IF request.escapes
       THEN Raise /\ UNCHANGED files
       ELSE IF request.tool = "write_regression" /\ files[request.file] # Absent
            THEN Answer(1, {}) /\ UNCHANGED files
            ELSE /\ Answer(0, {})
                 /\ files' = [files EXCEPT ![request.file] = request.content]

(* _host_tool_result: read_file; a missing file raises.  The lines are not *)
(* compacted, however many they are.                                       *)
ReadOnHost ==
    /\ at = "dispatch" /\ ~docker /\ request.tool = "read_file"
    /\ UNCHANGED files
    /\ IF request.escapes \/ files[request.file] = Absent
       THEN Raise
       ELSE Answer(0, HostLines(files[request.file], request.start, request.end))

(* command_for_tool validates the paths of all but shell commands and      *)
(* patches; run_command then starts the command, which may block.          *)
StartCommand ==
    /\ at = "dispatch" /\ request.tool \notin Searches
    /\ docker \/ request.tool \in Shells
    /\ UNCHANGED files
    /\ IF request.escapes /\ request.tool \notin {"run_shell", "apply_patch"}
       THEN Raise
       ELSE /\ at' = "running"
            /\ hangs' \in BOOLEAN
            /\ UNCHANGED <<docker, request, output, result>>

(* The script for the container refuses an existing regression test. *)
Refused == request.tool = "write_regression" /\ files[request.file] # Absent

(* What the command leaves in the workspace when it ends with an exit code; *)
(* a write that fails may have begun the file.                             *)
Effect(exit) ==
    CASE request.tool \in Writes ->
            \/ exit = 0 /\ files' = [files EXCEPT ![request.file] = request.content]
            \/ exit # 0 /\ files' = files
            \/ /\ exit # 0 /\ ~Refused
               /\ \E n \in 0 .. request.content :
                    files' = [files EXCEPT ![request.file] = n]
      [] request.tool \in {"run_shell", "run_tests"} ->
            \E f \in Files, c \in Contents : files' = [files EXCEPT ![f] = c]
      [] request.tool = "apply_patch" ->
            IF exit = 0
            THEN \E f \in Files, c \in Contents : files' = [files EXCEPT ![f] = c]
            ELSE files' = files
      [] OTHER -> files' = files

(* Mutant: the container's shell script does not look before it writes. *)
ExitOfBlindly ==
    IF request.tool # "read_file" THEN 0 .. 1
    ELSE IF files[request.file] = Absent THEN {1} ELSE {0}

(* A file to read is there or not; anything else may fail. *)
ExitOf ==
    IF Refused THEN {1}
    ELSE IF request.tool # "read_file" THEN 0 .. 1
    ELSE IF files[request.file] = Absent THEN {1} ELSE {0}

LinesRead ==
    IF request.tool = "read_file" /\ files[request.file] # Absent
    THEN ContainerLines(files[request.file], request.start, request.end)
    ELSE {}

CommandEnds ==
    /\ at = "running" /\ ~hangs
    /\ \E exit \in ExitOf, out \in 0 .. MaxOutput, err \in {0, 1, MaxOutput} :
        /\ request.tool \in Writes => out = 0
        /\ request.tool = "read_file" => out = Cardinality(LinesRead)
        /\ output' = [stdout |-> out, stderr |-> err, exit |-> exit]
        /\ Effect(exit)
    /\ at' = "output"
    /\ UNCHANGED <<docker, request, hangs, result>>

(* _tool_timeout_seconds: tests and shell commands; searches have 30 s.    *)
Limited == request.tool \in {"run_shell", "run_tests"} \cup Searches

(* Mutant: the container's command gets no time limit. *)
TimesOutOnHost ==
    /\ at = "running" /\ Limited /\ ~docker
    /\ Raise /\ UNCHANGED files

(* subprocess.run raises; in a container timeout(1) ends the command with  *)
(* exit code 124, and never does for a limit of 0.                         *)
CommandTimesOut ==
    /\ at = "running" /\ Limited
    /\ IF docker
       THEN /\ request.limit > 0
            /\ \E out \in {0, MaxOutput} :
                output' = [stdout |-> out, stderr |-> 0, exit |-> 124]
            /\ at' = "output"
            /\ UNCHANGED <<docker, request, hangs, result>>
       ELSE Raise
    /\ IF request.tool \in Shells THEN Effect(124) ELSE UNCHANGED files

(* On the host output that is no UTF-8 raises too, a program that does not *)
(* exist, or one that cannot be executed; in a container bytes that do not *)
(* decode are replaced, but the container may be gone.                     *)
CommandRaises ==
    /\ at = "running"
    /\ Raise
    /\ Effect(1)

(* run_tool: long streams are stored whole, and shown compacted.           *)
StoreOutput ==
    /\ at = "output" /\ request.tool \notin Searches
    /\ at' = "answered"
    /\ LET long == {s \in {"stdout", "stderr"} : output[s] > MaxCharacters}
       IN  result' = [stdout |-> Compact(output.stdout),
                      stderr |-> Compact(output.stderr),
                      exit |-> output.exit, lines |-> Excerpt(LinesRead),
                      truncated |-> long # {}, artifacts |-> long]
    /\ UNCHANGED <<docker, request, files, hangs, output>>

(* _run_search_tool: compacted as well, but nothing is stored, and no      *)
(* match is no error.                                                      *)
AnswerSearch ==
    /\ at = "output" /\ request.tool \in Searches
    /\ at' = "answered"
    /\ result' = [NoResult EXCEPT !.stdout = Compact(output.stdout),
                                  !.stderr = Compact(output.stderr),
                                  !.exit = IF output.exit = 1 THEN 0 ELSE output.exit]
    /\ UNCHANGED <<docker, request, files, hangs, output>>

Steps ==
    \/ DispatchSearch \/ HostFileHangs \/ WriteOnHost \/ ReadOnHost \/ StartCommand
    \/ CommandEnds \/ CommandTimesOut \/ StoreOutput \/ AnswerSearch

(* A run that failed makes no further call. *)
Finished == at = "raised" /\ UNCHANGED vars

Next == Ask \/ Return \/ Steps \/ CommandRaises \/ Finished

Spec == Init /\ [][Next]_vars

(* A command that does not hang ends, and a time limit is enforced. *)
FairSpec == Spec /\ WF_vars(Steps)

-----------------------------------------------------------------------------
(* Properties.                                                             *)

TypeOK ==
    /\ docker \in BOOLEAN
    /\ at \in {"idle", "dispatch", "running", "output", "answered", "raised"}
    /\ request \in Calls \cup {Blank}
    /\ files \in [Files -> Contents]
    /\ hangs \in BOOLEAN
    /\ output \in [stdout : 0 .. MaxOutput, stderr : 0 .. MaxOutput,
                   exit : {0, 1, 124}]
    /\ result.exit \in {0, 1, 124}
    /\ result.lines \subseteq 1 .. MaxLines
    /\ result.artifacts \subseteq {"stdout", "stderr"}

(* The excerpts of a stream and what is said to be omitted make up the     *)
(* stream, without overlap, and what is omitted can be looked up.          *)
Accounted(stream) ==
    LET shown == result[stream]
    IN  /\ shown.head + shown.omitted + shown.tail = output[stream]
        /\ shown.omitted >= 0
        /\ shown.omitted > 0 => result.truncated /\ stream \in result.artifacts

(* run_tool: of the output of a command, or of a file read, nothing is     *)
(* lost without a trace.                                                   *)
OutputAccounted ==
    at = "answered" /\ request.tool \notin Searches =>
        Accounted("stdout") /\ Accounted("stderr")

(* Refuted: a search drops what it omits, and does not call it truncated.  *)
SearchOutputAccounted ==
    at = "answered" /\ request.tool \in Searches =>
        Accounted("stdout") /\ Accounted("stderr")

(* read_file reads the lines of a 1-based range, by Python's slices on the *)
(* host and by a script in the container, up to the end of the file.  The  *)
(* host shows them all, however many; of a long text from a container only *)
(* its first and last lines are shown, and the answer says so and names    *)
(* the artifact that holds the whole.                                      *)
ReadsRequestedLines ==
    at = "answered" /\ request.tool = "read_file" /\ result.exit = 0
    /\ request.start >= 1 /\ request.end >= request.start
    => LET last == Min({request.end, files[request.file]})
           asked == request.start .. last
       IN  IF docker /\ Cardinality(asked) > MaxCharacters
           THEN /\ result.lines = {n \in asked : \/ n < request.start + HeadSize
                                                \/ n > last - TailSize}
                /\ result.truncated /\ "stdout" \in result.artifacts
           ELSE result.lines = asked

(* The contract the reproducer's anchor and the test protection rest on: a *)
(* file that exists, also one an earlier command left, is not overwritten  *)
(* by write_regression, neither on the host nor by the container's script. *)
RegressionNotOverwritten ==
    [][request.tool = "write_regression" /\ files[request.file] # Absent
       => files' = files]_vars

(* A search, a shell command or a test run with a positive time limit is   *)
(* answered, or raises, whatever the command does: these are the tools a   *)
(* limit is enforced for.                                                  *)
CallEnds ==
    at \in {"dispatch", "running", "output"} /\ request.limit > 0 /\ Limited
        ~> at \in {"answered", "raised"}

(* Refuted: read_file has a time limit too, "Maximum seconds to allow the  *)
(* read", but nothing enforces it.                                         *)
ReadEnds ==
    at \in {"dispatch", "running", "output"} /\ request.limit > 0
        /\ request.tool = "read_file"
        ~> at \in {"answered", "raised"}
=============================================================================
