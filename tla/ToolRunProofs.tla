---------------------------- MODULE ToolRunProofs ----------------------------
(***************************************************************************)
(* Theorems about run_tool for every set of files, length of files and of  *)
(* outputs, and every limit and excerpt size that meet the assumption.     *)
(***************************************************************************)
EXTENDS ToolRun, FiniteSetTheorems, TLAPS

(* A command that reads a file runs in a container: the host's file system *)
(* answers at once or never.                                               *)
ReadRuns ==
    at = "running" /\ ~hangs /\ request.tool = "read_file" => docker

(* A command that read a file found it, and has printed the lines that are *)
(* still there.                                                            *)
ReadFound ==
    at = "output" /\ request.tool = "read_file" /\ output.exit = 0 =>
        docker /\ files[request.file] # Absent /\ output.stdout = Cardinality(LinesRead)

IndInv == TypeOK /\ ReadRuns /\ ReadFound /\ OutputAccounted /\ ReadsRequestedLines
-----------------------------------------------------------------------------
(* The operators *)

LEMMA Constants ==
    /\ MaxCharacters \in Nat /\ HeadSize \in Nat /\ TailSize \in Nat \ {0}
    /\ MaxLines \in Nat /\ MaxOutput \in Nat \ {0}
BY ToolRunAssumption

LEMMA MinOfTwo ==
    ASSUME NEW a \in Int, NEW b \in Int
    PROVE  Min({a, b}) = IF a <= b THEN a ELSE b
<1>1. \E m \in {a, b} : \A y \in {a, b} : m <= y
  OBVIOUS
<1>2. Min({a, b}) \in {a, b} /\ \A y \in {a, b} : Min({a, b}) <= y
  BY <1>1, Zenon DEF Min
<1> QED BY <1>2

LEMMA MaxOfTwo ==
    ASSUME NEW a \in Int, NEW b \in Int
    PROVE  Max({a, b}) = IF a >= b THEN a ELSE b
<1>1. \E m \in {a, b} : \A y \in {a, b} : m >= y
  OBVIOUS
<1>2. Max({a, b}) \in {a, b} /\ \A y \in {a, b} : Max({a, b}) >= y
  BY <1>1, Zenon DEF Max
<1> QED BY <1>2

LEMMA EndsOfInterval ==
    ASSUME NEW a \in Int, NEW b \in Int, a <= b
    PROVE  Min(a .. b) = a /\ Max(a .. b) = b
<1>1. /\ \E m \in a .. b : \A y \in a .. b : m <= y
      /\ \E m \in a .. b : \A y \in a .. b : m >= y
  OBVIOUS
<1>2. Min(a .. b) \in a .. b /\ \A y \in a .. b : Min(a .. b) <= y
  BY <1>1, Zenon DEF Min
<1>3. Max(a .. b) \in a .. b /\ \A y \in a .. b : Max(a .. b) >= y
  BY <1>1, Zenon DEF Max
<1> QED BY <1>2, <1>3

(* An excerpt and what it omits make up the text, whatever its length, and *)
(* only a text that is too long has something omitted.                     *)
LEMMA CompactAccounts ==
    ASSUME NEW n \in Nat
    PROVE  /\ Compact(n).head + Compact(n).omitted + Compact(n).tail = n
           /\ Compact(n).omitted >= 0
           /\ Compact(n).omitted > 0 => n > MaxCharacters
<1>1. CASE n <= MaxCharacters
  BY <1>1 DEF Compact, Whole
<1>2. CASE ~(n <= MaxCharacters)
  <2>1. HeadSize <= n /\ TailSize <= n /\ TailSize # 0 /\ n - HeadSize - TailSize >= 0
    BY <1>2, Constants, ToolRunAssumption
  <2>2. Min({HeadSize, n}) = HeadSize /\ Min({TailSize, n}) = TailSize
    BY <2>1, Constants, MinOfTwo
  <2>3. Compact(n) = [head |-> HeadSize, tail |-> TailSize,
                      omitted |-> n - HeadSize - TailSize]
    BY <1>2, <2>1, <2>2 DEF Compact
  <2> QED BY <1>2, <2>1, <2>3, Constants
<1> QED BY <1>1, <1>2

(* A slice is an interval within the file. *)
LEMMA SliceType ==
    ASSUME NEW n \in Nat, NEW a \in Int, NEW b \in Int
    PROVE  \E lo \in 0 .. n, hi \in 0 .. n : Slice(n, a, b) = lo + 1 .. hi
<1> DEFINE bound(i) == IF i < 0 THEN Max({0, n + i}) ELSE Min({i, n})
<1>1. ASSUME NEW i \in Int PROVE bound(i) \in 0 .. n
  <2>1. CASE i < 0
    BY <2>1, MaxOfTwo
  <2>2. CASE ~(i < 0)
    BY <2>2, MinOfTwo
  <2> QED BY <2>1, <2>2
<1>2. Slice(n, a, b) = bound(a) + 1 .. bound(b)
  BY DEF Slice
<1>3. bound(a) \in 0 .. n /\ bound(b) \in 0 .. n
  BY <1>1
<1> HIDE DEF bound
<1> QED BY <1>2, <1>3

(* A slice that starts and ends within or behind the file. *)
LEMMA SliceForward ==
    ASSUME NEW n \in Nat, NEW a \in Nat, NEW b \in Nat, a <= b
    PROVE  Slice(n, a, b) = a + 1 .. IF b <= n THEN b ELSE n
<1>1. Slice(n, a, b) = Min({a, n}) + 1 .. Min({b, n})
  BY DEF Slice
<1>2. /\ Min({a, n}) = IF a <= n THEN a ELSE n
      /\ Min({b, n}) = IF b <= n THEN b ELSE n
  BY MinOfTwo
<1>3. CASE a <= n
  BY <1>1, <1>2, <1>3
<1>4. CASE ~(a <= n)
  <2>1. n + 1 .. n = {} /\ a + 1 .. n = {}
    BY <1>4
  <2> QED BY <1>1, <1>2, <1>4, <2>1
<1> QED BY <1>3, <1>4

(* For a 1-based range the host's slice and the container's script read    *)
(* the same lines, those of the range that the file has.                   *)
LEMMA SameLines ==
    ASSUME NEW n \in 0 .. MaxLines, NEW start \in Nat \ {0}, NEW end \in Nat, start <= end
    PROVE  /\ HostLines(n, start, end) = start .. Min({end, n})
           /\ ContainerLines(n, start, end) = start .. Min({end, n})
<1>0. n \in Nat /\ None \in Nat /\ n < None
  BY Constants DEF None
<1> DEFINE last == IF end = None THEN n ELSE end
<1>1. Min({end, n}) = IF end <= n THEN end ELSE n
  BY <1>0, MinOfTwo
<1>2. Max({1, start}) = start /\ Max({start, end}) = end
  BY MaxOfTwo
<1>3. /\ HostLines(n, start, end) = Slice(n, start - 1, last)
      /\ ContainerLines(n, start, end) = Slice(n, start - 1, last)
  BY <1>2 DEF HostLines, ContainerLines
<1>4. CASE start - 1 <= last
  <2>1. /\ start - 1 \in Nat /\ last \in Nat /\ start - 1 + 1 = start
    BY <1>0
  <2>2. Slice(n, start - 1, last) = start - 1 + 1 .. IF last <= n THEN last ELSE n
    BY <1>0, <1>4, <2>1, SliceForward
  <2>3. (IF last <= n THEN last ELSE n) = IF end <= n THEN end ELSE n
    BY <1>0
  <2>4. Slice(n, start - 1, last) = start .. Min({end, n})
    <3> HIDE DEF last
    <3> QED BY <1>1, <2>1, <2>2, <2>3
  <2> HIDE DEF last
  <2> QED BY <1>3, <2>4
<1>5. CASE ~(start - 1 <= last)
  (* Only an open range can start behind the end of the file. *)
  <2>1. last = n /\ start - 1 > n /\ start - 1 \in Nat /\ end > n
    BY <1>0, <1>5
  <2>2. Slice(n, start - 1, n) = Min({start - 1, n}) + 1 .. Min({n, n})
    BY <1>0, <2>1 DEF Slice
  <2>3. Min({start - 1, n}) = n /\ Min({n, n}) = n
    BY <1>0, <2>1, MinOfTwo
  <2>4. n + 1 .. n = {} /\ start .. n = {}
    BY <1>0, <2>1
  <2>5. Slice(n, start - 1, last) = {}
    BY <2>1, <2>2, <2>3, <2>4
  <2>6. Min({end, n}) = n
    BY <1>0, <1>1, <2>1
  <2> HIDE DEF last
  <2> QED BY <1>3, <2>4, <2>5, <2>6
<1> QED BY <1>4, <1>5

(* What is read of a file are lines of it, as many as there are characters. *)
LEMMA LinesType ==
    ASSUME NEW n \in 0 .. MaxLines, NEW a \in Int, NEW b \in Int
    PROVE  /\ Slice(n, a, b) \subseteq 1 .. MaxLines
           /\ Cardinality(Slice(n, a, b)) \in 0 .. MaxLines
<1>1. n \in Nat
  BY Constants
<1>2. PICK lo \in 0 .. n, hi \in 0 .. n : Slice(n, a, b) = lo + 1 .. hi
  BY <1>1, SliceType
<1>3. Cardinality(lo + 1 .. hi) = IF lo + 1 > hi THEN 0 ELSE hi - (lo + 1) + 1
  BY <1>1, <1>2, FS_Interval
<1> QED BY <1>1, <1>2, <1>3, Constants

LEMMA HostLinesType ==
    ASSUME NEW n \in 0 .. MaxLines, NEW start \in Int, NEW end \in Int
    PROVE  /\ HostLines(n, start, end) \subseteq 1 .. MaxLines
           /\ Cardinality(HostLines(n, start, end)) \in 0 .. MaxLines
<1>1. n \in Int /\ start - 1 \in Int
  BY Constants
<1> QED BY <1>1, LinesType DEF HostLines

LEMMA ContainerLinesType ==
    ASSUME NEW n \in 0 .. MaxLines, NEW start \in Int, NEW end \in Int
    PROVE  ContainerLines(n, start, end) \subseteq 1 .. MaxLines
<1>1. n \in Int /\ Max({1, start}) - 1 \in Int /\ Max({start, end}) \in Int
  BY Constants, MaxOfTwo
<1> QED BY <1>1, LinesType DEF ContainerLines
-----------------------------------------------------------------------------
(* Types of what a call is made of *)

Tools == Searches \cup Writes \cup Shells \cup {"read_file"}

LEMMA BlankType == Blank \in Call /\ Blank.tool = "run_shell"
<1>1. (CHOOSE f \in Files : TRUE) \in Files
  BY ToolRunAssumption
<1>2. None \in Int
  BY Constants DEF None
<1> QED BY <1>1, <1>2, Constants DEF Blank, Call, Shells

(* Every call the agent can make is well-formed. *)
LEMMA CallsAreCalls == Calls \subseteq Call
<1>1. \A t \in Searches, b \in BOOLEAN : SearchCall(t, b) \in Call
  BY BlankType DEF SearchCall, Call
<1>2. \A t \in Writes, f \in Files, b \in BOOLEAN, n \in 0 .. MaxLines :
        WriteCall(t, f, b, n) \in Call
  BY BlankType DEF WriteCall, Call
<1>3. ASSUME NEW t \in Shells, NEW b \in BOOLEAN, NEW n \in 0 .. 1
      PROVE  ShellCall(t, b, n) \in Call
  <2>1. n \in Nat
    OBVIOUS
  <2> QED BY <2>1, BlankType DEF ShellCall, Call
<1>4. ASSUME NEW f \in Files, NEW b \in BOOLEAN,
             NEW m \in -1 .. MaxLines + 1, NEW n \in -1 .. None
      PROVE  ReadCall(f, b, m, n) \in Call
  <2>1. m \in Int /\ n \in Int
    BY Constants DEF None
  <2> QED BY <2>1, BlankType DEF ReadCall, Call
<1> QED BY <1>1, <1>2, <1>3, <1>4 DEF Calls

LEMMA CallType ==
    ASSUME NEW c \in Calls \cup {Blank}
    PROVE  /\ c.tool \in Tools /\ c.file \in Files
           /\ c.content \in 0 .. MaxLines /\ c.start \in Int /\ c.end \in Int
           /\ c.escapes \in BOOLEAN /\ c.indexed \in BOOLEAN
<1>1. c \in Call
  BY CallsAreCalls, BlankType
<1> QED BY <1>1 DEF Call, Tools

LEMMA FileLines ==
    ASSUME TypeOK, files[request.file] # Absent
    PROVE  files[request.file] \in 0 .. MaxLines
<1>1. request.file \in Files
  BY CallType DEF TypeOK
<1> QED BY <1>1 DEF TypeOK, Contents

LEMMA LinesReadType == TypeOK => LinesRead \subseteq 1 .. MaxLines
<1> SUFFICES ASSUME TypeOK PROVE LinesRead \subseteq 1 .. MaxLines
  OBVIOUS
<1>1. request.start \in Int /\ request.end \in Int
  BY CallType DEF TypeOK
<1>2. CASE files[request.file] # Absent
  BY <1>1, <1>2, FileLines, ContainerLinesType DEF LinesRead
<1>3. CASE files[request.file] = Absent
  BY <1>3 DEF LinesRead
<1> QED BY <1>2, <1>3

(* What a command does to the workspace gives each file some lines or none. *)
LEMMA EffectType ==
    ASSUME TypeOK, NEW exit \in {0, 1, 124}, Effect(exit)
    PROVE  files' \in [Files -> Contents]
<1>1. /\ request.content \in Contents /\ request.file \in Files
      /\ files \in [Files -> Contents]
  BY CallType DEF TypeOK, Contents
<1>2. ASSUME NEW f \in Files, NEW c \in Contents, files' = [files EXCEPT ![f] = c]
      PROVE  files' \in [Files -> Contents]
  BY <1>1, <1>2
<1>3. \/ files' = files
      \/ \E f \in Files, c \in Contents : files' = [files EXCEPT ![f] = c]
  <2>1. CASE request.tool \in Writes
    <3>1. 0 .. request.content \subseteq Contents
      <4>1. request.content \in 0 .. MaxLines
        BY CallType DEF TypeOK
      <4> QED BY <4>1, Constants DEF Contents
    <3>2. \/ files' = files
          \/ files' = [files EXCEPT ![request.file] = request.content]
          \/ \E n \in 0 .. request.content : files' = [files EXCEPT ![request.file] = n]
      BY <2>1 DEF Effect, Writes
    <3> QED BY <1>1, <3>1, <3>2
  <2>2. CASE request.tool \in {"run_shell", "run_tests"}
    BY <2>2 DEF Effect, Writes
  <2>3. CASE request.tool = "apply_patch"
    BY <2>3 DEF Effect, Writes
  <2>4. CASE request.tool \notin Writes \cup {"run_shell", "run_tests", "apply_patch"}
    BY <2>4 DEF Effect
  <2> QED BY <2>1, <2>2, <2>3, <2>4
<1> QED BY <1>1, <1>2, <1>3

-----------------------------------------------------------------------------
(* The inductive invariant *)

LEMMA InitInd == Init => IndInv
<1> SUFFICES ASSUME Init PROVE IndInv
  OBVIOUS
<1>1. NoOutput \in [stdout : 0 .. MaxOutput, stderr : 0 .. MaxOutput, exit : {0, 1, 124}]
  BY Constants DEF NoOutput
<1>2. NoResult.exit = 0 /\ NoResult.lines = {} /\ NoResult.artifacts = {}
  BY DEF NoResult
<1>3. TypeOK
  BY <1>1, <1>2 DEF Init, TypeOK
<1> QED BY <1>3 DEF Init, IndInv, ReadRuns, ReadFound, OutputAccounted, ReadsRequestedLines

(* An answer given without a command shows all of it. *)
LEMMA AnswerFacts ==
    ASSUME NEW exit, NEW lines, Cardinality(lines) \in Nat, Answer(exit, lines)
    PROVE  /\ OutputAccounted'
           /\ output'.stdout = Cardinality(lines) /\ output'.stderr = 0
           /\ output' = [stdout |-> Cardinality(lines), stderr |-> 0, exit |-> exit]
           /\ result'.exit = exit /\ result'.lines = lines /\ result'.artifacts = {}
           /\ at' = "answered" /\ docker' = docker /\ request' = request /\ hangs' = hangs
<1>1. /\ output' = [stdout |-> Cardinality(lines), stderr |-> 0, exit |-> exit]
      /\ result'.stdout = Whole(Cardinality(lines)) /\ result'.stderr = Whole(0)
      /\ result'.exit = exit /\ result'.lines = lines /\ result'.artifacts = {}
  BY DEF Answer, NoOutput, NoResult
<1>2. Accounted("stdout")' /\ Accounted("stderr")'
  BY <1>1 DEF Accounted, Whole
<1>3. at' = "answered" /\ docker' = docker /\ request' = request /\ hangs' = hangs
  BY DEF Answer
<1>4. OutputAccounted'
  BY <1>2 DEF OutputAccounted
<1>5. output'.stdout = Cardinality(lines) /\ output'.stderr = 0
  BY <1>1
<1> QED BY <1>1, <1>3, <1>4, <1>5

(* Refused, found nothing, or written: no lines are read. *)
LEMMA EmptyAnswer ==
    ASSUME IndInv, NEW exit \in {0, 1}, Answer(exit, {}),
           request.tool # "read_file", files' \in [Files -> Contents]
    PROVE  IndInv'
<1>1. Cardinality({}) = 0
  BY FS_EmptySet
<1>2. TypeOK'
  BY <1>1, AnswerFacts, Constants DEF IndInv, TypeOK
<1> QED BY <1>1, <1>2, AnswerFacts DEF IndInv, ReadRuns, ReadFound, ReadsRequestedLines

LEMMA RaiseInd ==
    ASSUME IndInv, Raise, files' \in [Files -> Contents]
    PROVE  IndInv'
BY DEF IndInv, Raise, TypeOK, ReadRuns, ReadFound, OutputAccounted, ReadsRequestedLines

(* A command is started, or the agent asks or is answered. *)
LEMMA BeforeOutput ==
    ASSUME IndInv, at' \in {"idle", "dispatch", "running"}, request' \in Calls \cup {Blank},
           hangs' \in BOOLEAN, output' \in {output, NoOutput}, result' \in {result, NoResult},
           UNCHANGED <<docker, files>>,
           at' = "running" /\ request'.tool = "read_file" => hangs' \/ docker
    PROVE  IndInv'
<1>1. TypeOK'
  BY Constants DEF IndInv, TypeOK, NoOutput, NoResult
<1> QED BY <1>1 DEF IndInv, ReadRuns, ReadFound, OutputAccounted, ReadsRequestedLines

LEMMA SearchInd == IndInv /\ DispatchSearch => IndInv'
<1> SUFFICES ASSUME IndInv, DispatchSearch PROVE IndInv'
  OBVIOUS
<1>0. /\ request.tool # "read_file" /\ request \in Calls \cup {Blank}
      /\ files' = files /\ files' \in [Files -> Contents]
  BY DEF DispatchSearch, Searches, IndInv, TypeOK
<1>1. CASE Raise
  BY <1>0, <1>1, RaiseInd
<1>2. CASE Answer(1, {})
  BY <1>0, <1>2, EmptyAnswer
<1>3. CASE at' = "running" /\ hangs' \in BOOLEAN /\ UNCHANGED <<docker, request, output, result>>
  BY <1>0, <1>3, BeforeOutput
<1> QED BY <1>1, <1>2, <1>3 DEF DispatchSearch

LEMMA WriteInd == IndInv /\ WriteOnHost => IndInv'
<1> SUFFICES ASSUME IndInv, WriteOnHost PROVE IndInv'
  OBVIOUS
<1>0. request.tool # "read_file" /\ files \in [Files -> Contents]
  BY DEF WriteOnHost, Writes, IndInv, TypeOK
<1>1. CASE Raise /\ UNCHANGED files
  BY <1>0, <1>1, RaiseInd
<1>2. CASE Answer(1, {}) /\ UNCHANGED files
  BY <1>0, <1>2, EmptyAnswer
<1>3. CASE Answer(0, {}) /\ files' = [files EXCEPT ![request.file] = request.content]
  <2>1. request.content \in Contents
    BY CallType DEF IndInv, TypeOK, Contents
  <2>2. files' \in [Files -> Contents]
    BY <1>0, <1>3, <2>1
  <2> QED BY <1>0, <1>3, <2>2, EmptyAnswer
<1> QED BY <1>1, <1>2, <1>3 DEF WriteOnHost

LEMMA ReadInd == IndInv /\ ReadOnHost => IndInv'
<1> SUFFICES ASSUME IndInv, ReadOnHost PROVE IndInv'
  OBVIOUS
<1> DEFINE n == files[request.file]
           lines == HostLines(n, request.start, request.end)
<1>0. /\ files' = files /\ files \in [Files -> Contents] /\ request.tool = "read_file"
      /\ request.start \in Int /\ request.end \in Int
  BY CallType DEF ReadOnHost, IndInv, TypeOK
<1>1. CASE Raise
  BY <1>0, <1>1, RaiseInd
<1>2. CASE n # Absent /\ Answer(0, lines)
  <2>1. n \in 0 .. MaxLines
    BY <1>2, FileLines DEF IndInv
  <2>2. lines \subseteq 1 .. MaxLines /\ Cardinality(lines) \in 0 .. MaxLines
    BY <1>0, <2>1, HostLinesType
  <2> HIDE DEF lines
  <2>3. Cardinality(lines) \in Nat /\ Cardinality(lines) \in 0 .. MaxOutput
    BY <2>2, Constants, ToolRunAssumption
  <2>4. TypeOK'
    <3>1. /\ output' = [stdout |-> Cardinality(lines), stderr |-> 0, exit |-> 0]
          /\ result'.exit = 0 /\ result'.lines = lines /\ result'.artifacts = {}
          /\ at' = "answered" /\ docker' = docker /\ request' = request /\ hangs' = hangs
      BY <1>2, <2>3, AnswerFacts
    <3>2. output' \in [stdout : 0 .. MaxOutput, stderr : 0 .. MaxOutput, exit : {0, 1, 124}]
      BY <2>3, <3>1, Constants
    <3> QED BY <1>0, <2>2, <3>1, <3>2 DEF IndInv, TypeOK
  <2>5. ReadsRequestedLines'
    <3> SUFFICES ASSUME request.start >= 1, request.end >= request.start
                 PROVE  lines = request.start .. Min({request.end, n})
      <4>1. ~docker'
        BY <1>2, <2>3, AnswerFacts DEF ReadOnHost
      <4> QED BY <1>0, <1>2, <2>3, <4>1, AnswerFacts DEF ReadsRequestedLines
    <3>1. request.start \in Nat \ {0} /\ request.end \in Nat
      BY <1>0
    <3> QED BY <2>1, <3>1, SameLines DEF lines
  <2> QED BY <1>2, <2>3, <2>4, <2>5, AnswerFacts DEF IndInv, ReadRuns, ReadFound
<1> QED BY <1>0, <1>1, <1>2 DEF ReadOnHost

LEMMA HangsInd == IndInv /\ HostFileHangs => IndInv'
BY BeforeOutput DEF HostFileHangs, IndInv, TypeOK

LEMMA StartInd == IndInv /\ StartCommand => IndInv'
<1> SUFFICES ASSUME IndInv, StartCommand PROVE IndInv'
  OBVIOUS
<1>0. /\ request \in Calls \cup {Blank}
      /\ files' = files /\ files' \in [Files -> Contents]
  BY DEF StartCommand, IndInv, TypeOK
<1>1. CASE Raise
  BY <1>0, <1>1, RaiseInd
<1>2. CASE at' = "running" /\ hangs' \in BOOLEAN /\ UNCHANGED <<docker, request, output, result>>
  <2>1. request.tool = "read_file" => docker
    BY DEF StartCommand, Shells
  <2> QED BY <1>0, <1>2, <2>1, BeforeOutput
<1> QED BY <1>1, <1>2 DEF StartCommand

(* The command has ended, or was ended. *)
LEMMA OutputInd ==
    ASSUME IndInv, at' = "output", UNCHANGED <<docker, request, hangs, result>>,
           files' \in [Files -> Contents], ReadFound',
           output' \in [stdout : 0 .. MaxOutput, stderr : 0 .. MaxOutput, exit : {0, 1, 124}]
    PROVE  IndInv'
BY DEF IndInv, TypeOK, ReadRuns, OutputAccounted, ReadsRequestedLines

LEMMA EndsInd == IndInv /\ CommandEnds => IndInv'
<1> SUFFICES ASSUME IndInv, CommandEnds PROVE IndInv'
  OBVIOUS
<1>1. PICK exit \in ExitOf, out \in 0 .. MaxOutput, err \in {0, 1, MaxOutput} :
        /\ request.tool = "read_file" => out = Cardinality(LinesRead)
        /\ output' = [stdout |-> out, stderr |-> err, exit |-> exit] /\ Effect(exit)
  BY DEF CommandEnds
<1>2. exit \in {0, 1}
  BY DEF ExitOf
<1>3. err \in 0 .. MaxOutput
  <2>1. 1 <= MaxOutput \/ MaxOutput = 0
    BY Constants
  <2> QED BY <2>1, Constants
<1>4. files' \in [Files -> Contents]
  BY <1>1, <1>2, EffectType DEF IndInv
<1>5. ReadFound'
  <2> SUFFICES ASSUME request.tool = "read_file", exit = 0
               PROVE  /\ docker /\ files'[request.file] # Absent
                      /\ output'.stdout = Cardinality(LinesRead)'
    BY <1>1 DEF ReadFound, CommandEnds
  <2>1. files[request.file] # Absent
    BY DEF ExitOf, Refused
  <2>2. files' = files
    BY <1>1 DEF Effect, Writes
  <2>3. LinesRead' = LinesRead
    BY <2>2 DEF CommandEnds, LinesRead
  <2>4. docker
    BY DEF CommandEnds, IndInv, ReadRuns
  <2> QED BY <1>1, <2>1, <2>2, <2>3, <2>4
<1> QED BY <1>1, <1>2, <1>3, <1>4, <1>5, OutputInd DEF CommandEnds

LEMMA TimesOutInd == IndInv /\ CommandTimesOut => IndInv'
<1> SUFFICES ASSUME IndInv, CommandTimesOut PROVE IndInv'
  OBVIOUS
<1>1. files' \in [Files -> Contents]
  BY EffectType DEF CommandTimesOut, IndInv, TypeOK
<1>2. CASE Raise
  BY <1>1, <1>2, RaiseInd
<1>3. CASE ~Raise
  <2>1. PICK out \in {0, MaxOutput} : output' = [stdout |-> out, stderr |-> 0, exit |-> 124]
    BY <1>3 DEF CommandTimesOut
  <2>2. ReadFound'
    BY <2>1 DEF ReadFound
  <2>3. out \in 0 .. MaxOutput /\ 0 \in 0 .. MaxOutput
    BY Constants
  <2> QED BY <1>1, <1>3, <2>1, <2>2, <2>3, OutputInd DEF CommandTimesOut
<1> QED BY <1>2, <1>3

LEMMA RaisesInd == IndInv /\ CommandRaises => IndInv'
<1> SUFFICES ASSUME IndInv, CommandRaises PROVE IndInv'
  OBVIOUS
<1>1. files' \in [Files -> Contents]
  BY EffectType DEF CommandRaises, IndInv, TypeOK
<1> QED BY <1>1, RaiseInd DEF CommandRaises

(* What an excerpt shows of the lines asked for. *)
LEMMA ExcerptOfInterval ==
    ASSUME NEW a \in Nat \ {0}, NEW b \in Int
    PROVE  /\ Excerpt(a .. b) \subseteq a .. b
           /\ Cardinality(a .. b) \in Nat
           /\ Cardinality(a .. b) <= MaxCharacters => Excerpt(a .. b) = a .. b
           /\ Cardinality(a .. b) > MaxCharacters =>
                Excerpt(a .. b) = {n \in a .. b : n < a + HeadSize \/ n > b - TailSize}
<1>1. Cardinality(a .. b) = IF a > b THEN 0 ELSE b - a + 1
  BY FS_Interval
<1>2. ASSUME Cardinality(a .. b) > MaxCharacters
      PROVE  Excerpt(a .. b) = {n \in a .. b : n < a + HeadSize \/ n > b - TailSize}
  <2>1. a <= b
    BY <1>1, <1>2, Constants
  <2>2. Min(a .. b) = a /\ Max(a .. b) = b
    BY <2>1, EndsOfInterval
  <2>3. ~(Cardinality(a .. b) <= MaxCharacters)
    BY <1>1, <1>2, Constants
  <2> QED BY <2>2, <2>3 DEF Excerpt
<1>3. Excerpt(a .. b) \subseteq a .. b
  BY DEF Excerpt
<1>4. Cardinality(a .. b) <= MaxCharacters => Excerpt(a .. b) = a .. b
  BY DEF Excerpt
<1> QED BY <1>1, <1>2, <1>3, <1>4

LEMMA StoreInd == IndInv /\ StoreOutput => IndInv'
<1> SUFFICES ASSUME IndInv, StoreOutput PROVE IndInv'
  OBVIOUS
<1> DEFINE long == {s \in {"stdout", "stderr"} : output[s] > MaxCharacters}
<1>0. /\ at = "output" /\ at' = "answered"
      /\ docker' = docker /\ request' = request /\ files' = files
      /\ hangs' = hangs /\ output' = output
      /\ result' = [stdout |-> Compact(output.stdout), stderr |-> Compact(output.stderr),
                    exit |-> output.exit, lines |-> Excerpt(LinesRead),
                    truncated |-> long # {}, artifacts |-> long]
  BY DEF StoreOutput
<1>1. output.stdout \in Nat /\ output.stderr \in Nat /\ output.exit \in {0, 1, 124}
  BY DEF IndInv, TypeOK
<1>2. Excerpt(LinesRead) \subseteq 1 .. MaxLines
  BY LinesReadType DEF IndInv, Excerpt
<1>3. TypeOK'
  <2>1. result'.exit = output.exit /\ result'.lines = Excerpt(LinesRead) /\ result'.artifacts = long
    BY <1>0
  <2>2. long \subseteq {"stdout", "stderr"}
    OBVIOUS
  <2> HIDE DEF long
  <2> QED BY <1>0, <1>1, <1>2, <2>1, <2>2 DEF IndInv, TypeOK
<1>4. ReadFound'
  BY <1>0 DEF ReadFound
<1>5. Accounted("stdout")' /\ Accounted("stderr")'
  <2>1. /\ result'.stdout = Compact(output.stdout) /\ result'.stderr = Compact(output.stderr)
        /\ result'.truncated = (long # {}) /\ result'.artifacts = long
        /\ output' = output
    BY <1>0
  <2>2. /\ output.stdout > MaxCharacters => "stdout" \in long
        /\ output.stderr > MaxCharacters => "stderr" \in long
    OBVIOUS
  <2> HIDE DEF long
  <2>3. Accounted("stdout")'
    BY <1>1, <2>1, <2>2, CompactAccounts DEF Accounted
  <2>4. Accounted("stderr")'
    BY <1>1, <2>1, <2>2, CompactAccounts DEF Accounted
  <2> QED BY <2>3, <2>4
<1>6. ReadsRequestedLines'
  <2> SUFFICES ASSUME request.tool = "read_file", output.exit = 0,
                      request.start >= 1, request.end >= request.start
               PROVE  ReadsRequestedLines'
    BY <1>0 DEF ReadsRequestedLines
  <2> DEFINE last == Min({request.end, files[request.file]})
             asked == request.start .. last
  <2>1. files[request.file] # Absent /\ docker /\ output.stdout = Cardinality(LinesRead)
    BY <1>0 DEF IndInv, ReadFound
  <2>2. files[request.file] \in 0 .. MaxLines
    BY <2>1, FileLines DEF IndInv
  <2>3. request.start \in Nat \ {0} /\ request.end \in Nat
    BY CallType DEF IndInv, TypeOK
  <2>4. LinesRead = asked
    BY <2>1, <2>2, <2>3, SameLines DEF LinesRead
  <2>5. last \in Int
    BY <2>2, <2>3, MinOfTwo
  <2>6. /\ result'.lines = Excerpt(LinesRead)
        /\ result'.truncated = (long # {}) /\ result'.artifacts = long
    BY <1>0
  <2>7. last' = last /\ asked' = asked /\ docker'
    BY <1>0, <2>1
  <2>8. CASE Cardinality(asked) > MaxCharacters
    <3>1. "stdout" \in long
      BY <2>1, <2>4, <2>8
    <3>2. Excerpt(asked) = {n \in asked : n < request.start + HeadSize \/ n > last - TailSize}
      <4> HIDE DEF last
      <4> QED BY <2>3, <2>5, <2>8, ExcerptOfInterval
    <3> HIDE DEF long, last, asked
    <3>3. result'.lines = {n \in asked : n < request.start + HeadSize \/ n > last - TailSize}
      BY <2>4, <2>6, <3>2
    <3>4. result'.truncated /\ "stdout" \in result'.artifacts
      BY <2>6, <3>1
    <3> QED BY <1>0, <2>7, <2>8, <3>3, <3>4 DEF ReadsRequestedLines, last, asked
  <2>9. CASE ~(Cardinality(asked) > MaxCharacters)
    <3>1. Excerpt(asked) = asked
      <4>1. Cardinality(asked) \in Nat
        BY <2>3, <2>5, ExcerptOfInterval
      <4>2. Cardinality(asked) <= MaxCharacters
        BY <2>9, <4>1, Constants
      <4> QED BY <4>2 DEF Excerpt
    <3>2. result'.lines = asked
      <4> HIDE DEF asked
      <4> QED BY <2>4, <2>6, <3>1
    <3> QED BY <1>0, <2>7, <2>9, <3>2 DEF ReadsRequestedLines
  <2> QED BY <2>8, <2>9
<1>7. ReadRuns'
  BY <1>0 DEF ReadRuns
<1> QED BY <1>3, <1>4, <1>5, <1>6, <1>7 DEF IndInv, OutputAccounted

LEMMA AnswerSearchInd == IndInv /\ AnswerSearch => IndInv'
<1> SUFFICES ASSUME IndInv, AnswerSearch PROVE IndInv'
  OBVIOUS
<1>1. /\ result'.exit \in {0, 1, 124} /\ result'.lines = {} /\ result'.artifacts = {}
  BY DEF AnswerSearch, NoResult, IndInv, TypeOK
<1>2. TypeOK'
  BY <1>1 DEF IndInv, TypeOK, AnswerSearch
<1> QED BY <1>2 DEF AnswerSearch, Searches, IndInv, ReadRuns, ReadFound, OutputAccounted,
                    ReadsRequestedLines

LEMMA NextInd == IndInv /\ [Next]_vars => IndInv'
<1> SUFFICES ASSUME IndInv, [Next]_vars PROVE IndInv'
  OBVIOUS
<1>1. CASE Ask
  BY <1>1, BeforeOutput DEF Ask, IndInv, TypeOK
<1>2. CASE Return
  BY <1>2, BeforeOutput DEF Return
<1>3. CASE Steps
  BY <1>3, SearchInd, HangsInd, WriteInd, ReadInd, StartInd, EndsInd, TimesOutInd, StoreInd,
     AnswerSearchInd DEF Steps
<1>4. CASE Finished \/ UNCHANGED vars
  <2>1. UNCHANGED vars
    BY <1>4 DEF Finished
  <2>0. LinesRead' = LinesRead
    BY <2>1 DEF vars, LinesRead
  <2>2. TypeOK' /\ ReadRuns' /\ ReadFound'
    BY <2>0, <2>1 DEF vars, IndInv, TypeOK, ReadRuns, ReadFound
  <2>4. ReadsRequestedLines'
    <3>1. /\ docker' = docker /\ at' = at /\ request' = request
          /\ files' = files /\ result' = result
      BY <2>1 DEF vars
    <3>2. ReadsRequestedLines' = ReadsRequestedLines
      BY <3>1, Zenon DEF ReadsRequestedLines
    <3> QED BY <3>2 DEF IndInv
  <2>3. OutputAccounted'
    BY <2>1 DEF vars, IndInv, OutputAccounted, Accounted
  <2> QED BY <2>2, <2>3, <2>4 DEF IndInv
<1> QED BY <1>1, <1>2, <1>3, <1>4, RaisesInd DEF Next
-----------------------------------------------------------------------------
(* Theorems *)

LEMMA Invariance == Spec => []IndInv
BY InitInd, NextInd, PTL DEF Spec

(* Every reachable state of a sequence of tool calls has the declared      *)
(* types: a file never has more lines than one can be written with, and no *)
(* line is read that a file cannot have.                                   *)
THEOREM ToolTypeCorrect == Spec => []TypeOK
<1>1. IndInv => TypeOK
  BY DEF IndInv
<1> QED BY <1>1, Invariance, PTL

(* run_tool loses nothing of what a command printed or a file read showed: *)
(* head, tail and the number of omitted characters add up to the stream,   *)
(* and a stream with an omission is stored whole.                          *)
THEOREM NoOutputLost == Spec => []OutputAccounted
<1>1. IndInv => OutputAccounted
  BY DEF IndInv
<1> QED BY <1>1, Invariance, PTL

(* read_file reads the lines of a 1-based range, by Python's slices on the *)
(* host, which shows them all, and by the script in the container, of whose *)
(* output a long text is cut to its first and last lines, is said to be    *)
(* truncated, and is stored whole.                                         *)
THEOREM ReadIsRequested == Spec => []ReadsRequestedLines
<1>1. IndInv => ReadsRequestedLines
  BY DEF IndInv
<1> QED BY <1>1, Invariance, PTL

(* No write_regression ever changes a file that exists, by whatever way it *)
(* is served and however its command ends.                                 *)
THEOREM ExistingTestKept == Spec => RegressionNotOverwritten
<1> DEFINE Kept == request.tool = "write_regression" /\ files[request.file] # Absent
                     => files' = files
<1>1. [Next]_vars => [Kept]_vars
  <2> SUFFICES ASSUME Next, request.tool = "write_regression", files[request.file] # Absent
               PROVE  files' = files
    OBVIOUS
  <2>0. Refused
    BY DEF Refused
  <2>1. CASE CommandEnds \/ CommandRaises
    <3>1. Effect(1)
      BY <2>0, <2>1 DEF CommandEnds, CommandRaises, ExitOf
    <3> QED BY <2>0, <3>1 DEF Effect, Writes
  <2>2. CASE CommandTimesOut
    BY <2>2 DEF CommandTimesOut, Limited, Searches, Shells
  <2>3. CASE WriteOnHost
    BY <2>3 DEF WriteOnHost
  <2>4. CASE Ask \/ Return \/ DispatchSearch \/ HostFileHangs \/ ReadOnHost
             \/ StartCommand \/ StoreOutput \/ AnswerSearch \/ Finished
    BY <2>4 DEF Ask, Return, DispatchSearch, HostFileHangs, ReadOnHost, StartCommand, StoreOutput,
       AnswerSearch, Finished, vars
  <2> QED BY <2>1, <2>2, <2>3, <2>4 DEF Next, Steps
<1> QED BY <1>1, PTL DEF Spec, RegressionNotOverwritten
=============================================================================
