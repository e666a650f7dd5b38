-------------------------------- MODULE Tail --------------------------------
(***************************************************************************)
(* main of mig/shared/functionality/tail.py: for each path pattern, glob  *)
(* it, keep the matches inside the user's home, report a pattern with no  *)
(* such match as file_not_found, and print the last 'lines' lines of each *)
(* match.  The last lines are found by seeking to the end, doubling a     *)
(* backstep until the part read back holds more than 'lines' lines or the *)
(* whole file, skipping the extra lines and reading the rest.  An         *)
(* exception on a file is reported as error_text and the loop goes on.    *)
(*                                                                         *)
(* A file is a sequence of characters; positions are byte offsets from    *)
(* the start.  seek(-n, 2) is relative to the file's end when it is       *)
(* called, so a writer appending to the file (a job writing its output)  *)
(* moves it.  Each loop iteration is a step.  Only the files in the home *)
(* are state: main never opens a match outside it.                        *)
(***************************************************************************)
EXTENDS Integers, Sequences, SequencesExt

CONSTANTS
    Files,        \* the contents a file may have
    Counts,       \* the values of the 'lines' argument
    NL,           \* the newline character
    PatternLists, \* the 'path' arguments: lists of patterns
    Glob,         \* glob.glob(base_dir + pattern) for each pattern
    Inside,       \* the paths valid_user_path accepts
    OpenMayFail,  \* whether open() may raise (a directory, a permission)
    AppendChars,  \* what a writer may append to a file
    MaxAppends    \* how many appends the writer makes

Patterns == DOMAIN Glob
Paths == UNION {Glob[pt] : pt \in Patterns}

ASSUME FilesAssumption == Files /= {} /\ Files \subseteq Seq(STRING)
ASSUME CountsAssumption == Counts /= {} /\ Counts \subseteq Int
ASSUME PatternsAssumption ==
    /\ PatternLists /= {} /\ PatternLists \subseteq Seq(Patterns)
    /\ \A pt \in Patterns : IsFiniteSet(Glob[pt])
    /\ Inside \subseteq Paths /\ OpenMayFail \in BOOLEAN
ASSUME WriterAssumption == AppendChars \subseteq STRING /\ MaxAppends \in Nat

VARIABLES
    fs,          \* the content of every path in the home
    lines,       \* int(accepted['lines'][-1])
    patterns,    \* pattern_list
    pidx,        \* the index of the next pattern
    matches,     \* the matches left of the current pattern
    status,      \* the return status
    output,      \* output_objects
    pc,          \* where main is
    content,     \* the content of the open file when it was opened
    seen,        \* the contents the open file had since it was opened
    length,      \* filedes.tell() after seek(0, 2)
    backstep,
    newlines,
    pos,         \* the file position
    toEmit,      \* iterations left of 'for _ in range(newlines)'
    out,         \* output_lines
    appends      \* appends the writer made

main == <<lines, patterns, pidx, matches, status, output, pc, content, seen,
          length, backstep, newlines, pos, toEmit, out>>
vars == <<fs, appends, main>>

-----------------------------------------------------------------------------
\* len(filedes.readlines()) from position p: every newline ends a line, and
\* a last character that is not a newline ends one more.
LineCount(s, p) ==
    LET t == SubSeq(s, p + 1, Len(s))
    IN  Len(SelectSeq(t, LAMBDA c : c = NL))
        + (IF Len(t) > 0 /\ t[Len(t)] /= NL THEN 1 ELSE 0)

\* The position after filedes.readline() from p: past the next newline, or
\* the end of the file.
LineEnd(s, p) ==
    LET ends == {i \in p + 1 .. Len(s) : s[i] = NL}
    IN  IF ends = {} THEN Len(s)
        ELSE CHOOSE i \in ends : \A j \in ends : i <= j

\* line.strip() for a line of the file: the only whitespace in the
\* characters of the model is the newline.
Strip(line) == SelectSeq(line, LAMBDA c : c /= NL)

\* The open file as it is now.
Cur == fs[Head(matches)]

\* The matches valid_user_path keeps.
AllowedMatches(pt) == {p \in Glob[pt] : p \in Inside}

\* Mutant: the not-found test on glob's result before the filter.
NoMatchUnfiltered(pt) == Glob[pt] = {}

\* 'if not match': no allowed match.
NoMatch(pt) == AllowedMatches(pt) = {}

TypeOK ==
    /\ fs \in [Inside -> Seq(STRING)]
    /\ lines \in Counts
    /\ patterns \in Seq(Patterns) /\ pidx \in 1 .. Len(patterns) + 1
    /\ matches \in Seq(Inside)
    /\ status \in {"OK", "FILE_NOT_FOUND", "SYSTEM_ERROR"}
    /\ pc \in {"patterns", "files", "backtrack", "skip", "emit", "done"}
    /\ length \in Nat /\ backstep \in Int /\ newlines \in Int
    /\ pos \in Nat
    /\ toEmit \in Nat
    /\ out \in Seq(Seq(STRING))
    /\ appends \in 0 .. MaxAppends

Init ==
    /\ fs \in [Inside -> Files]
    /\ lines \in Counts
    /\ patterns \in PatternLists
    /\ pidx = 1
    /\ matches = <<>>
    /\ status = "OK"
    /\ output = <<>>
    /\ pc = "patterns"
    /\ content = <<>> /\ seen = {}
    /\ length = 0 /\ backstep = 0 /\ newlines = 0 /\ pos = 0 /\ toEmit = 0
    /\ out = <<>>
    /\ appends = 0

\* The next pattern: glob, filter, and report file_not_found when nothing
\* is left.  The matches are treated in the order glob lists them.
NextPattern ==
    /\ pc = "patterns"
    /\ pidx <= Len(patterns)
    /\ LET pt == patterns[pidx]
       IN  /\ \E order \in SetToSeqs(AllowedMatches(pt)) : matches' = order
           /\ IF NoMatch(pt)
              THEN /\ output' = Append(output, [object_type |-> "file_not_found",
                                                pattern |-> pidx, name |-> pt])
                   /\ status' = "FILE_NOT_FOUND"
              ELSE UNCHANGED <<output, status>>
    /\ pidx' = pidx + 1
    /\ pc' = "files"
    /\ UNCHANGED <<lines, patterns, content, seen, length, backstep, newlines, pos, toEmit, out>>

\* Every match of the pattern is done.
PatternDone ==
    /\ pc = "files"
    /\ matches = <<>>
    /\ pc' = "patterns"
    /\ UNCHANGED <<lines, patterns, pidx, matches, status, output, content, seen,
                   length, backstep, newlines, pos, toEmit, out>>

\* Every pattern is done: main returns.
Finish ==
    /\ pc = "patterns"
    /\ pidx > Len(patterns)
    /\ pc' = "done"
    /\ UNCHANGED <<lines, patterns, pidx, matches, status, output, content, seen,
                   length, backstep, newlines, pos, toEmit, out>>

\* open, seek(0, 2), tell(): the loop starts with a backstep of 1.
Open ==
    /\ pc = "files"
    /\ matches /= <<>>
    /\ content' = Cur /\ seen' = {Cur}
    /\ length' = Len(Cur)
    /\ pos' = Len(Cur)
    /\ backstep' = 1
    /\ newlines' = 0
    /\ out' = <<>>
    /\ pc' = "backtrack"
    /\ UNCHANGED <<lines, patterns, pidx, matches, status, output, toEmit>>

\* open raises (the match is a directory, or not readable): report
\* error_text, set SYSTEM_ERROR and go on.
OpenFails ==
    /\ pc = "files"
    /\ matches /= <<>>
    /\ OpenMayFail
    /\ output' = Append(output, [object_type |-> "error_text",
                                      pattern |-> pidx - 1, name |-> Head(matches)])
    /\ status' = "SYSTEM_ERROR"
    /\ matches' = Tail(matches)
    /\ UNCHANGED <<lines, patterns, pidx, pc, content, seen, length, backstep,
                   newlines, pos, toEmit, out>>

\* Mutant: the loop continues only while fewer than 'lines' lines are read.
LoopContinuesStrict == backstep < length /\ newlines < lines

\* The condition of the backtracking loop.
LoopContinues == backstep < length /\ newlines <= lines

\* One iteration: double the backstep up to the length, seek back that far
\* from the end and count the lines to the end.
Backtrack ==
    /\ pc = "backtrack"
    /\ LoopContinues
    /\ LET bs == IF 2 * backstep > length THEN length ELSE 2 * backstep
       IN  /\ backstep' = bs
           /\ newlines' = LineCount(Cur, Len(Cur) - bs)
    /\ pos' = Len(Cur)
    /\ UNCHANGED <<lines, patterns, pidx, matches, status, output, pc, content, seen,
                   length, toEmit, out>>

\* Mutant: the seek back without the 'if length' guard.
EndBacktrackUnguarded ==
    /\ pc = "backtrack"
    /\ ~LoopContinues
    /\ pos' = Len(Cur) - backstep
    /\ pc' = "skip"
    /\ UNCHANGED <<lines, patterns, pidx, matches, status, output, content, seen,
                   length, backstep, newlines, toEmit, out>>

\* The loop ends; a non-empty file is sought back to the last backstep.
EndBacktrack ==
    /\ pc = "backtrack"
    /\ ~LoopContinues
    /\ pos' = IF length /= 0 THEN Len(Cur) - backstep ELSE pos
    /\ pc' = "skip"
    /\ UNCHANGED <<lines, patterns, pidx, matches, status, output, content, seen,
                   length, backstep, newlines, toEmit, out>>

\* Mutant: the skip loop without 'newlines -= 1'.
SkipNoDecrement ==
    /\ pc = "skip"
    /\ newlines > lines
    /\ pos' = LineEnd(Cur, pos)
    /\ UNCHANGED <<lines, patterns, pidx, matches, status, output, pc, content, seen,
                   length, backstep, newlines, toEmit, out>>

\* Skip one of the extra lines read by the backtracking.
Skip ==
    /\ pc = "skip"
    /\ newlines > lines
    /\ pos' = LineEnd(Cur, pos)
    /\ newlines' = newlines - 1
    /\ UNCHANGED <<lines, patterns, pidx, matches, status, output, pc, content, seen,
                   length, backstep, toEmit, out>>

\* The skipping ends: backstep is recomputed and the output loop starts.
EndSkip ==
    /\ pc = "skip"
    /\ newlines <= lines
    /\ backstep' = length - pos
    /\ toEmit' = IF newlines > 0 THEN newlines ELSE 0
    /\ pc' = "emit"
    /\ UNCHANGED <<lines, patterns, pidx, matches, status, output, content, seen,
                   length, newlines, pos, out>>

\* Read one line, strip it and append it to output_lines.
Emit ==
    /\ pc = "emit"
    /\ toEmit > 0
    /\ out' = Append(out, Strip(SubSeq(Cur, pos + 1, LineEnd(Cur, pos))))
    /\ pos' = LineEnd(Cur, pos)
    /\ toEmit' = toEmit - 1
    /\ UNCHANGED <<lines, patterns, pidx, matches, status, output, pc, content, seen,
                   length, backstep, newlines>>

\* Close the file and append its file_output (the path, and the contents
\* it had while open, are kept for the properties).
Close ==
    /\ pc = "emit"
    /\ toEmit = 0
    /\ output' = Append(output, [object_type |-> "file_output", pattern |-> pidx - 1,
                                 name |-> Head(matches),
                                 lines |-> out, opened |-> content, seen |-> seen])
    /\ matches' = Tail(matches)
    /\ pc' = "files"
    /\ UNCHANGED <<lines, patterns, pidx, status, content, seen, length, backstep,
                   newlines, pos, toEmit, out>>

\* Another process appends to a file; main sees it if the file is open.
Append1 ==
    /\ appends < MaxAppends
    /\ \E p \in Inside, c \in AppendChars :
           /\ fs' = [fs EXCEPT ![p] = @ \o <<c>>]
           /\ seen' = IF pc \in {"backtrack", "skip", "emit"} /\ p = Head(matches)
                      THEN seen \cup {fs'[p]} ELSE seen
    /\ appends' = appends + 1
    /\ UNCHANGED <<lines, patterns, pidx, matches, status, output, pc, content,
                   length, backstep, newlines, pos, toEmit, out>>

\* A step of main, which leaves the files to the writer.
MainStep ==
    /\ \/ NextPattern \/ PatternDone \/ Finish \/ Open \/ OpenFails
       \/ Backtrack \/ EndBacktrack \/ Skip \/ EndSkip \/ Emit \/ Close
    /\ UNCHANGED <<fs, appends>>

Next == MainStep \/ Append1

\* main is a single sequential call: it keeps running while it can.  The
\* writer is not required to write.
Spec == Init /\ [][Next]_vars /\ WF_vars(MainStep)

-----------------------------------------------------------------------------
(***************************************************************************)
(* Reference: the lines of a file as the un*x tail counts them (a last    *)
(* line without a newline is a line), stripped, and the last n of them.  *)
(***************************************************************************)
Terminated(s) ==
    IF Len(s) > 0 /\ s[Len(s)] /= NL THEN s \o <<NL>> ELSE s

FileLines(s) ==
    LET t == Terminated(s)
        ends == SetToSortSeq({i \in 1 .. Len(t) : t[i] = NL}, <)
    IN  [k \in 1 .. Len(ends) |->
           SubSeq(t, IF k = 1 THEN 1 ELSE ends[k - 1] + 1, ends[k] - 1)]

LastLines(s, n) ==
    LET all == FileLines(s)
    IN  SubSeq(all, IF Len(all) > n THEN Len(all) - n + 1 ELSE 1, Len(all))

FileOutputs == {i \in DOMAIN output : output[i].object_type = "file_output"}

\* A file's output is the last 'lines' lines of one of its versions.
PrintedLastLines(o) == \E v \in o.seen : o.lines = LastLines(v, lines)

(***************************************************************************)
(* Every file main prints gets exactly its last 'lines' lines, in order,  *)
(* as the file was at some moment while it was open, whatever its length *)
(* and line layout.                                                        *)
(***************************************************************************)
TailLastLines == \A i \in FileOutputs : PrintedLastLines(output[i])

(***************************************************************************)
(* Every file main prints that no one wrote to while it was open, and    *)
(* that is longer than one byte, gets exactly its last 'lines' lines.     *)
(***************************************************************************)
TailLastLinesUndisturbed ==
    \A i \in FileOutputs :
        Len(output[i].opened) /= 1 /\ output[i].seen = {output[i].opened}
            => PrintedLastLines(output[i])

(***************************************************************************)
(* Every seek and readline of main keeps the file position inside the    *)
(* open file, 0 .. its current size: seek(-backstep, 2) never goes before *)
(* the start, an empty file included, while a writer grows the file.     *)
(***************************************************************************)
SeekWithinFile == pc \in {"backtrack", "skip", "emit"} => pos \in 0 .. Len(Cur)

(***************************************************************************)
(* No pattern is dropped: when main returns, every pattern of the list    *)
(* has an output object (a file_output or error_text for one of its      *)
(* matches, or file_not_found), a pattern whose matches are all outside  *)
(* the home included, and the status is OK exactly when every object is   *)
(* a file_output.                                                          *)
(***************************************************************************)
PatternsAccountedFor ==
    pc = "done" =>
        /\ \A k \in 1 .. Len(patterns) : \E i \in DOMAIN output : output[i].pattern = k
        /\ status = "OK" <=> FileOutputs = DOMAIN output

(***************************************************************************)
(* main always returns: each backstep doubles up to the length, the skip *)
(* and output loops count down, and the pattern and match lists shrink.  *)
(***************************************************************************)
Terminates == <>(pc = "done")

=============================================================================
