--------------------------- MODULE TestingEngine ---------------------------
(***************************************************************************)
(* testing/: TestRunner runs a test program, reads back what it prints and *)
(* gives a verdict; CoverageAnalyzer and DiagnosticsEngine read the        *)
(* reports of other tools.  A line of output is one of the kinds that the  *)
(* readers tell apart, a test case is its status, and percentages are kept *)
(* as fractions.                                                           *)
(***************************************************************************)
EXTENDS Integers, FiniteSets, Sequences, SequencesExt

----------------------------------------------------------------------------
(* TestRunner                                                              *)

CONSTANT MaxTests       \* bound: tests in a program

VARIABLES
    program,            \* what is run: framework, platform, hint, whether the shell is replaced
    results,            \* what its tests came to, in order
    ending              \* how it ended: "idle", "not", "itself", "killed", "timeout"

runnerVars == <<program, results, ending>>

Framework == {"gtest", "pytest", "pytest -v", "jest", "cargo", "other"}

----------------------------------------------------------------------------
(* The program                                                             *)

Outcome == {"Passed", "Failed", "Skipped"}

\* Nothing has been run.  sh may replace itself by the only command it has
\* to run; cmd does not.
Program == [framework : Framework, platform : {"posix", "windows"}, hinted : BOOLEAN, replaced : BOOLEAN]

runnerInit ==
    /\ program = [framework |-> "other", platform |-> "posix", hinted |-> FALSE, replaced |-> FALSE]
    /\ results = <<>> /\ ending = "idle"

Start ==
    /\ ending = "idle" /\ ending' = "not"
    /\ program' \in {p \in Program : p.platform = "windows" => ~p.replaced}
    /\ UNCHANGED results

TestEnds ==
    /\ ending = "not" /\ Len(results) < MaxTests
    /\ \E o \in Outcome : results' = Append(results, o)
    /\ UNCHANGED <<program, ending>>

\* By itself; by a signal in the middle of a test; or, where the time limit
\* is kept (Windows only), terminated in the middle of one.
ProgramEnds ==
    /\ ending = "not" /\ results # <<>>
    /\ \E how \in {"itself", "killed"} \cup (IF program.platform = "windows" THEN {"timeout"} ELSE {}) : ending' = how
    /\ UNCHANGED <<program, results>>

runnerNext == Start \/ TestEnds \/ ProgramEnds

Count(status, cases) == Len(SelectSeq(cases, LAMBDA c : c = status))

\* Every framework answers an error when a test failed.  A signal leaves no
\* exit status (WEXITSTATUS gives 0) unless a shell, or cargo, was the one
\* to see it.
ExitCode ==
    CASE ending = "timeout" -> 101
      [] ending = "killed" -> IF program.replaced /\ program.framework # "cargo" THEN 0 ELSE 139
      [] OTHER -> IF Count("Failed", results) = 0 THEN 0 ELSE 1

\* What the frameworks print of one test.
Line == [gtest |-> [Passed |-> "OK", Failed |-> "FAILED", Skipped |-> "SKIPPED"],
         jest |-> [Passed |-> "tick", Failed |-> "cross", Skipped |-> "text"],
         cargo |-> [Passed |-> "... ok", Failed |-> "... FAILED", Skipped |-> "... ignored"]]
VerboseLine == [Passed |-> ":: PASSED [", Failed |-> ":: FAILED [", Skipped |-> ":: SKIPPED ["]

\* pytest names the tests that failed once more, when it ends by itself:
\* "FAILED file::test - message".
Summary == IF ending # "itself" THEN <<>> ELSE [i \in 1..Count("Failed", results) |-> "FAILED :: -"]

Printed ==
    CASE program.framework = "gtest" ->
           <<"[===]">>
             \o FlattenSeq([i \in DOMAIN results |-> <<"RUN", Line.gtest[results[i]]>>])
             \o (IF ending = "itself" THEN <<"[===]">> \o [i \in 1..Count("Failed", results) |-> "FAILED"] ELSE <<"RUN">>)
      [] program.framework = "pytest" -> <<"pytest">> \o Summary
      [] program.framework = "pytest -v" -> <<"pytest">> \o [i \in DOMAIN results |-> VerboseLine[results[i]]] \o Summary
      [] program.framework = "jest" -> [i \in DOMAIN results |-> Line.jest[results[i]]] \o <<"Test Suites:">>
      [] program.framework = "cargo" ->
           <<"running ">> \o [i \in DOMAIN results |-> Line.cargo[results[i]]]
             \o (IF ending = "itself" THEN <<"test result:">> ELSE <<>>)
      [] OTHER -> <<"text">>

\* run: jest reports on the error stream, which POSIX does not read.
Stdout == IF program.framework = "jest" THEN <<>> ELSE Printed
Stderr == IF program.framework = "jest" /\ program.platform = "windows" THEN Printed ELSE <<>>

----------------------------------------------------------------------------
(* The readers                                                             *)

NoReport == [cases |-> <<>>, Passed |-> 0, Failed |-> 0, Skipped |-> 0, inTest |-> FALSE]

Counted(rep, status) == [rep EXCEPT !.cases = Append(@, status), ![status] = @ + 1]

\* parseGTest.  A test that never ends is a case only when another begins.
GTestLine(rep, line) ==
    LET status == [l \in {"OK", "FAILED", "SKIPPED"} |-> CHOOSE o \in Outcome : Line.gtest[o] = l]
    IN  CASE line = "RUN" -> [rep EXCEPT !.inTest = TRUE, !.cases = IF rep.inTest THEN Append(@, "Passed") ELSE @]
          [] line \in DOMAIN status -> IF rep.inTest THEN [Counted(rep, status[line]) EXCEPT !.inTest = FALSE] ELSE rep
          [] OTHER -> rep

\* parsePytest: every line with "::" is a case; one without a status behind
\* the name stays at the default, uncounted.
PytestLine(rep, line) ==
    CASE line \in {VerboseLine[o] : o \in Outcome} -> Counted(rep, CHOOSE o \in Outcome : VerboseLine[o] = line)
      [] line = "FAILED :: -" -> [rep EXCEPT !.cases = Append(@, "Passed")]
      [] OTHER -> rep

\* parseJest knows of no skipped test.
JestLine(rep, line) ==
    CASE line = "tick" -> Counted(rep, "Passed")
      [] line = "cross" -> Counted(rep, "Failed")
      [] OTHER -> rep

CargoLine(rep, line) ==
    IF line \in {Line.cargo[o] : o \in Outcome} THEN Counted(rep, CHOOSE o \in Outcome : Line.cargo[o] = line) ELSE rep

\* parseOutput, its fallback: one test, which is the program.
Execution == Counted(NoReport, IF ExitCode = 0 THEN "Passed" ELSE "Failed")

Prints(marks) == ToSet(Stdout) \cap marks # {}
Hint(framework) == program.hinted /\ framework = program.framework

ParseOutput ==
    CASE Hint("gtest") \/ Prints({"[===]", "RUN"}) -> FoldLeft(GTestLine, NoReport, Stdout)
      [] OTHER ->
    CASE Hint("pytest") \/ Hint("pytest -v") \/ Prints({"pytest", ":: PASSED ["}) -> FoldLeft(PytestLine, NoReport, Stdout)
      [] OTHER ->
    CASE Hint("jest") \/ Prints({"Test Suites:"}) -> FoldLeft(JestLine, NoReport, Stdout \o Stderr)
      [] OTHER ->
    CASE Hint("cargo") \/ (Prints({"running "}) /\ Prints({"test result:"})) -> FoldLeft(CargoLine, NoReport, Stdout)
      [] OTHER -> Execution

\* The verdict of every reader.
Success(rep) == rep.Failed = 0 /\ ExitCode = 0

\* run: after a time-out there is no success and no case that passed, but as
\* many passed tests as before.
RunReport ==
    LET rep == ParseOutput
    IN  IF ending = "timeout"
        THEN [rep EXCEPT !.cases = [i \in DOMAIN @ |-> IF @[i] = "Passed" THEN "Timeout" ELSE @[i]]]
        ELSE rep
RunSucceeds == ending # "timeout" /\ Success(ParseOutput)

\* TestingManager::runTests: the cases that a failure is reported for.
FailureDetails == SelectSeq(RunReport.cases, LAMBDA c : c \in {"Failed", "Timeout"})

----------------------------------------------------------------------------
\* A run succeeds exactly when its program ended by itself with no test
\* failed, unless it was killed with nobody left to see it (then a success
\* still means that no test that ended had failed, for the frameworks that
\* tell of them in time).
VerdictIsRight ==
    ending \notin {"idle", "not"} =>
      IF ending = "killed" /\ ExitCode = 0
      THEN RunSucceeds /\ program.framework \in {"gtest", "pytest -v"} => Count("Failed", results) = 0
      ELSE RunSucceeds <=> ending = "itself" /\ Count("Failed", results) = 0

\* The frameworks whose tests are listed as they end are counted exactly,
\* whatever their summaries say again, and however they ended.
CountsAreRight ==
    LET listed == \/ program.framework \in {"gtest", "pytest -v"}
                  \/ program.framework = "cargo" /\ (ending = "itself" \/ program.hinted)
    IN  /\ ending \notin {"idle", "not"} /\ listed => \A o \in Outcome : RunReport[o] = Count(o, results)
        /\ ending = "itself" /\ program.framework \in {"gtest", "cargo"} => RunReport.cases = results
        /\ ending = "timeout" => "Passed" \notin ToSet(RunReport.cases)
        /\ RunSucceeds => FailureDetails = <<>>

----------------------------------------------------------------------------
(* CoverageAnalyzer with its gate, and DiagnosticsEngine with its rules,   *)
(* its totals and the outputs of compilers and linters                     *)

CONSTANTS
    SourceFile,     \* files with coverage
    MaxListed,      \* bound: lines with a count in a trace
    MaxCode,        \* bound: lines of code in a directory
    MaxLint         \* bound: messages of a compiler or linter

VARIABLES
    trace,          \* records of a coverage trace: file, hits of its lines, branches
    directory,      \* files of a directory: whether it opens, its lines
    messages        \* what a tool reports

reportVars == <<trace, directory, messages>>

Indices(s, P) == {i \in DOMAIN s : s[i] \in P}
SumOf(s) == FoldLeft(LAMBDA a, b : a + b, 0, s)

----------------------------------------------------------------------------
(* CoverageAnalyzer                                                        *)

\* A range that ended.
Closed(acc) == [acc EXCEPT !.ranges = Append(@, <<acc.start, acc.prev>>)]

\* computeUncoveredRanges, one line; start is -1 outside of a range.
RangeStep(acc, line, hit) ==
    CASE ~hit /\ acc.start = -1 -> [acc EXCEPT !.start = line, !.prev = line]
      [] ~hit /\ acc.start # -1 -> IF line = acc.prev + 1 THEN [acc EXCEPT !.prev = line]
                                   ELSE [Closed(acc) EXCEPT !.start = line, !.prev = line]
      [] hit -> IF acc.start = -1 THEN acc ELSE [Closed(acc) EXCEPT !.start = -1, !.prev = -1]

UncoveredRanges(hits) ==
    LET sorted == SetToSortSeq(DOMAIN hits, <)
        end == FoldLeft(LAMBDA acc, l : RangeStep(acc, l, hits[l]), [ranges |-> <<>>, start |-> -1, prev |-> -1], sorted)
    IN  IF end.start = -1 THEN end.ranges ELSE Closed(end).ranges

\* What a record says of its file, in the lines that are counted.
FileCoverage(rec) ==
    [total |-> Cardinality(DOMAIN rec.hits),
     covered |-> Cardinality({l \in DOMAIN rec.hits : rec.hits[l]}),
     branches |-> rec.branches.total, taken |-> rec.branches.taken,
     uncovered |-> UncoveredRanges(rec.hits)]

\* parseLcovInfo: the totals are of the records, and a file's coverage is
\* that of its last record.
CoverageReport ==
    LET each == [i \in DOMAIN trace |-> FileCoverage(trace[i])]
        sum(part) == SumOf([i \in DOMAIN trace |-> each[i][part]])
    IN  [total |-> sum("total"), covered |-> sum("covered"), branches |-> sum("branches"), taken |-> sum("taken"),
         files |-> [f \in {trace[i].file : i \in DOMAIN trace} |->
                      each[SelectLastInSeq(trace, LAMBDA r : r.file = f)]]]

\* A rate in percent is at least some minimum; without a whole it is 0.
AtLeast(part, whole, min) == IF whole = 0 THEN min <= 0 ELSE part * 100 >= min * whole

\* checkThresholds.  A file is asked for its branches when its lines are enough.
Deficits(report, minLine, minBranch) ==
    {f \in DOMAIN report.files :
       LET fc == report.files[f]
       IN  \/ fc.total > 0 /\ ~AtLeast(fc.covered, fc.total, minLine)
           \/ fc.branches > 0 /\ ~AtLeast(fc.taken, fc.branches, minBranch)}

GatePasses(report, minLine, minBranch) ==
    /\ AtLeast(report.covered, report.total, minLine)
    /\ AtLeast(report.taken, report.branches, minBranch)
    /\ Deficits(report, minLine, minBranch) = {}

----------------------------------------------------------------------------
(* DiagnosticsEngine.  A line is a sequence of tokens: a brace, a          *)
(* parenthesis, a quote, "//" or a word that a rule looks for.             *)

Mentions(line, words) == ToSet(line) \cap words # {}

\* The tokens of a line that count: neither in quotes nor behind "//".  The
\* end of a line ends a string.
Counting(line) ==
    LET step(acc, t) ==
          CASE acc.rest -> acc
            [] ~acc.rest /\ acc.quoted -> [acc EXCEPT !.quoted = t # "quote"]
            [] OTHER -> [acc EXCEPT !.quoted = t = "quote", !.rest = t = "//", !.out = Append(@, t)]
    IN  FoldLeft(step, [quoted |-> FALSE, rest |-> FALSE, out |-> <<>>], line).out

Open(token, lines) == SumOf([i \in DOMAIN lines |-> Len(SelectSeq(Counting(lines[i]), LAMBDA t : t = token))])

\* stripComments does not look for quotes.
Code(line) == SubSeq(line, 1, SelectInSeq(line \o <<"//">>, LAMBDA t : t = "//") - 1)

Item(rule, severity, line) == <<[rule |-> rule, severity |-> severity, line |-> line]>>
When(condition, items) == IF condition THEN items ELSE <<>>

\* checkSyntaxAndStructure.
SyntaxItems(lines) ==
    When(Open("{", lines) # Open("}", lines), Item("braces", "Error", Len(lines)))
      \o When(Open("(", lines) # Open(")", lines), Item("parentheses", "Error", Len(lines)))

\* Something taken on some line and given back on none: at the last line.
Leak(lines, take, give, rule, severity) ==
    LET code == [i \in DOMAIN lines |-> Code(lines[i])]
        takes == SelectLastInSeq(code, LAMBDA c : Mentions(c, {take}))
    IN  When(takes # 0 /\ ~\E i \in DOMAIN code : Mentions(code[i], {give}), Item(rule, severity, takes))

\* checkResourceLeaks, in C++.
LeakItems(lines) ==
    Leak(lines, "fopen", "fclose", "unclosed-file-handle", "Error")
      \o Leak(lines, "malloc", "free", "unfreed-heap-memory", "Warning")
      \o Leak(lines, "new", "delete", "raw-new-without-delete", "Warning")

\* Rules that look at one line, comments included; checkSecuritySmells in
\* the order of its questions.
Smell == [system |-> "Error", strcpy |-> "Error", password |-> "Warning", query |-> "Warning", swallow |-> "Warning"]
LineItems(lines, rules) ==
    FlattenSeq([i \in DOMAIN lines |->
      FlattenSeq([r \in DOMAIN rules |-> When(Mentions(lines[i], {rules[r]}), Item(rules[r], Smell[rules[r]], i))])])
SecurityItems(lines) == LineItems(lines, <<"system", "strcpy", "password", "query">>)

\* checkConcurrencySmells.
ThreadItems(lines) ==
    When(/\ \E i \in DOMAIN lines : Mentions(lines[i], {"std::thread"})
         /\ ~\E i \in DOMAIN lines : Mentions(lines[i], {"std::mutex"}), Item("unguarded-multithreading", "Warning", 1))

\* runAstRuleChecks, in the order of its calls; of checkComplexityAndLength
\* the empty handlers, not the length of functions.
AstItems(lines) ==
    SyntaxItems(lines) \o LeakItems(lines) \o SecurityItems(lines) \o ThreadItems(lines)
      \o LineItems(lines, <<"swallow">>)

NoDiagnostics == [items |-> <<>>, errors |-> 0, warnings |-> 0]

\* A report passes when it has no errors.
Noted(report, it) ==
    IF it.severity \in {"Fatal", "Error"} THEN [report EXCEPT !.items = Append(@, it), !.errors = @ + 1]
    ELSE [report EXCEPT !.items = Append(@, it), !.warnings = @ + 1]

\* scanFile: the parser reads every text of a known language.
ScanFile(lines) == FoldLeft(Noted, NoDiagnostics, AstItems(lines))

Combined(report, scan) ==
    [items |-> report.items \o scan.items, errors |-> report.errors + scan.errors, warnings |-> report.warnings + scan.warnings]

\* scanDirectory: a file that cannot be opened is passed over.
ScanDirectory ==
    FoldLeft(LAMBDA report, f : IF f.opens THEN Combined(report, ScanFile(f.lines)) ELSE report, NoDiagnostics, directory)

----------------------------------------------------------------------------
(* Compilers and linters: [tool, level, rule]; the rule of a message about *)
(* a file that cannot be parsed is null.                                   *)

Severity == [msvc |-> [fatal |-> "Fatal", error |-> "Error", warning |-> "Warning", note |-> "none"],
             gcc |-> [fatal |-> "Fatal", error |-> "Error", warning |-> "Warning", note |-> "Information"],
             eslint |-> [fatal |-> "Error", error |-> "Error", warning |-> "Warning", note |-> "Warning"],
             ruff |-> [fatal |-> "Warning", error |-> "Warning", warning |-> "Warning", note |-> "Warning"]]

\* parseCompilerOutput: a line that fits neither form is skipped, and so are
\* notes in the form of MSVC.
CompilerItems(output, flavor) ==
    LET known(m) == m.tool \in (IF flavor = "auto" THEN {"msvc", "gcc"} ELSE {flavor}) \cap {"msvc", "gcc"}
        read == SelectSeq(output, LAMBDA m : known(m) /\ Severity[m.tool][m.level] # "none")
    IN  [i \in DOMAIN read |-> Severity[read[i].tool][read[i].level]]

\* parseEslintJson, parseRuffJson: a rule that is null throws, and what has
\* been read until then is the answer.
LintItems(output, tool) ==
    LET read == SubSeq(output, 1, SelectInSeq(output \o <<[rule |-> "null"]>>, LAMBDA m : m.rule = "null") - 1)
    IN  [i \in DOMAIN read |-> Severity[tool][read[i].level]]

----------------------------------------------------------------------------
(* Reports                                                                 *)

Listed == SumOf([i \in DOMAIN trace |-> Cardinality(DOMAIN trace[i].hits)])

AddRecord ==
    /\ Len(trace) < 2 /\ Listed < MaxListed
    /\ \E f \in SourceFile, lines \in SUBSET (1..MaxListed), b \in {[total |-> 0, taken |-> 0], [total |-> 2, taken |-> 1]} :
         /\ Cardinality(lines) <= MaxListed - Listed
         /\ \E hits \in [lines -> BOOLEAN] : trace' = Append(trace, [file |-> f, hits |-> hits, branches |-> b])

CodeLine == [open |-> <<"{">>, close |-> <<"}">>, call |-> <<"(", ")">>, string |-> <<"quote", "{", "quote">>,
         comment |-> <<"}", "//", "{", "fopen">>, odd |-> <<"{", "quote", "(">>,
         fopen |-> <<"fopen">>, fclose |-> <<"fclose">>, malloc |-> <<"malloc">>, free |-> <<"free">>,
         unsafe |-> <<"strcpy", "(", "query", ")">>, thread |-> <<"std::thread">>, mutex |-> <<"//", "std::mutex">>,
         swallow |-> <<"}", "swallow">>]

LinesIn == SumOf([i \in DOMAIN directory |-> Len(directory[i].lines)])

AddFile == Len(directory) < 2 /\ \E o \in BOOLEAN : directory' = Append(directory, [opens |-> o, lines |-> <<>>])

AddLine ==
    /\ directory # <<>> /\ directory[Len(directory)].opens /\ LinesIn < MaxCode
    /\ \E l \in DOMAIN CodeLine : directory' = [directory EXCEPT ![Len(directory)].lines = Append(@, CodeLine[l])]

AddReported ==
    /\ Len(messages) < MaxLint
    /\ \E t \in {"msvc", "gcc"}, l \in {"fatal", "error", "warning", "note"}, r \in {"given", "null"} :
         messages' = Append(messages, [tool |-> t, level |-> l, rule |-> r])

reportInit == trace = <<>> /\ directory = <<>> /\ messages = <<>>

reportNext ==
    \/ directory = <<>> /\ messages = <<>> /\ AddRecord /\ UNCHANGED <<directory, messages>>
    \/ trace = <<>> /\ messages = <<>> /\ (AddFile \/ AddLine) /\ UNCHANGED <<trace, messages>>
    \/ trace = <<>> /\ directory = <<>> /\ AddReported /\ UNCHANGED <<trace, directory>>

----------------------------------------------------------------------------
\* The uncovered ranges of a file are its lines without a hit, in order and
\* with as few ranges as there can be.
RangesAreExact ==
    \A i \in DOMAIN trace :
      LET hits == trace[i].hits
          ranges == UncoveredRanges(hits)
      IN  /\ UNION {r[1]..r[2] : r \in ToSet(ranges)} = {l \in DOMAIN hits : ~hits[l]}
          /\ \A k \in DOMAIN ranges : ranges[k][1] <= ranges[k][2]
          /\ \A k \in 1..(Len(ranges) - 1) : ranges[k][2] + 1 < ranges[k + 1][1]

\* When no file stands twice in a trace, the gate opens exactly when every
\* file reaches both minima: the overall rates, and the order of the two
\* questions, add nothing but that there is something to measure.
GateIsRight ==
    (\A i, j \in DOMAIN trace : trace[i].file = trace[j].file => i = j) =>
      \A minLine \in {0, 50, 100}, minBranch \in {0, 50, 100} :
        GatePasses(CoverageReport, minLine, minBranch) <=>
          /\ \A i \in DOMAIN trace :
               /\ \A all \in {Cardinality(DOMAIN trace[i].hits)} : all = 0 \/ Cardinality(Indices(trace[i].hits, {TRUE})) * 100 >= minLine * all
               /\ trace[i].branches.total = 0 \/ trace[i].branches.taken * 100 >= minBranch * trace[i].branches.total
          /\ minLine = 0 \/ Listed > 0
          /\ minBranch = 0 \/ \E i \in DOMAIN trace : trace[i].branches.total > 0

\* A directory passes exactly when every file that opens passes by itself;
\* its totals are those of its items; braces are reported when those that
\* are code do not match, strings and comments aside; and a handle is
\* reported unless a line of the same file closes one.
DiagnosesAreRight ==
    LET lines(f) == directory[f].lines
        opened == {f \in DOMAIN directory : directory[f].opens}
        number(f, kinds) == Cardinality({i \in DOMAIN lines(f) : \E k \in kinds : lines(f)[i] = CodeLine[k]})
        rules(scan) == {it.rule : it \in ToSet(scan.items)}
    IN  \E scan \in {[f \in opened |-> ScanFile(lines(f))]}, all \in {ScanDirectory} :
          /\ all.errors = 0 <=> \A f \in opened : scan[f].errors = 0
          /\ Len(all.items) = all.errors + all.warnings
          /\ \A f \in opened :
               /\ "braces" \in rules(scan[f]) <=> number(f, {"open", "odd"}) # number(f, {"close", "comment", "swallow"})
               /\ "unclosed-file-handle" \in rules(scan[f]) <=> number(f, {"fopen"}) > 0 /\ number(f, {"fclose"}) = 0

\* Errors reach the items, whatever stands around them: of a compiler all,
\* of a linter those before the first message without a rule.
ErrorsAreRead ==
    LET errors(items) == Cardinality(Indices(items, {"Fatal", "Error"}))
        printed(upTo) == Cardinality({i \in 1..upTo : messages[i].level \in {"fatal", "error"}})
        nulls == {i \in DOMAIN messages : messages[i].rule = "null"}
    IN  /\ errors(CompilerItems(messages, "auto")) = printed(Len(messages))
        /\ errors(CompilerItems(messages, "msvc")) + errors(CompilerItems(messages, "gcc")) = printed(Len(messages))
        /\ nulls = {} => errors(LintItems(messages, "eslint")) = printed(Len(messages))
        /\ \A i \in nulls : errors(LintItems(messages, "eslint")) <= printed(i - 1)
=============================================================================
