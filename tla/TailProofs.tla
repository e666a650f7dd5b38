----------------------------- MODULE TailProofs -----------------------------
(***************************************************************************)
(* Proofs about tail.py's main (module Tail), for every pattern list,    *)
(* glob result, home, file content and writer: no pattern is dropped and *)
(* the status tells whether every object is a file_output; and every     *)
(* seek and readline keeps the position inside the open file.           *)
(***************************************************************************)
EXTENDS Tail, FiniteSetTheorems, WellFoundedInduction, TLAPS

\* output is a sequence (its objects are records of two shapes).
IsSeqLike(s) == DOMAIN s = 1 .. Len(s) /\ Len(s) \in Nat

\* Some object of the output list s belongs to the k-th pattern.
CoveredIn(s, k) == \E i \in DOMAIN s : s[i].pattern = k

Covered(k) == CoveredIn(output, k)

\* The steps of one file: main is inside the loop over its matches.
InFile == {"backtrack", "skip", "emit"}

\* The facts about the loop's counters and lists that the proof needs.
LoopTypeOK ==
    /\ patterns \in Seq(Patterns)
    /\ pidx \in 1 .. Len(patterns) + 1
    /\ IsSeqLike(output)
    /\ pc \in {"patterns", "files", "done"} \cup InFile

\* Every pattern before the current one has an object, and so has the
\* current one once main is back in the pattern loop.
EarlierCovered ==
    \A k \in 1 .. pidx - 1 :
        k < pidx - 1 \/ pc \in {"patterns", "done"} => Covered(k)

\* Inside the match loop, the current pattern has an object or a match
\* is left; while a file is open, the match is at the head.
CurrentPending ==
    /\ pc \in {"files"} \cup InFile => pidx >= 2 /\ (Covered(pidx - 1) \/ matches /= <<>>)
    /\ pc \in InFile => matches /= <<>>

\* main returns only after the last pattern.
DoneAtEnd == pc = "done" => pidx = Len(patterns) + 1

\* The status is set away from OK exactly with the non-file objects.
StatusTracks == status = "OK" <=> FileOutputs = DOMAIN output

IInv ==
    /\ LoopTypeOK
    /\ EarlierCovered
    /\ CurrentPending
    /\ DoneAtEnd
    /\ StatusTracks

-----------------------------------------------------------------------------
\* What Append does to a sequence of output objects.
LEMMA AppendSeqLike ==
  ASSUME NEW s, IsSeqLike(s), NEW e
  PROVE  /\ IsSeqLike(Append(s, e))
         /\ Append(s, e)[Len(s) + 1] = e
         /\ \A i \in DOMAIN s : Append(s, e)[i] = s[i]
         /\ DOMAIN Append(s, e) = DOMAIN s \cup {Len(s) + 1}
         /\ Len(s) + 1 \notin DOMAIN s
  BY DEF IsSeqLike

\* An ordering of a non-empty finite set of matches is not empty.
LEMMA OrderNonEmpty ==
  ASSUME NEW S, IsFiniteSet(S), S /= {}, NEW f \in SetToSeqs(S)
  PROVE  f /= <<>>
  <1>1. Cardinality(S) \in Nat /\ Cardinality(S) /= 0
    BY FS_CardinalityType, FS_EmptySet
  <1>2. DOMAIN f = 1 .. Cardinality(S)
    BY DEF SetToSeqs
  <1>3. QED
    BY <1>1, <1>2

\* Appending an object keeps every pattern covered and covers its own.
LEMMA AppendCovers ==
  ASSUME NEW s, IsSeqLike(s), NEW e
  PROVE  /\ \A k : CoveredIn(s, k) => CoveredIn(Append(s, e), k)
         /\ CoveredIn(Append(s, e), e.pattern)
  BY AppendSeqLike DEF CoveredIn

LEMMA IInvInit == Init => IInv
  <1> SUFFICES ASSUME Init PROVE IInv
    OBVIOUS
  <1>1. patterns \in Seq(Patterns)
    BY PatternsAssumption DEF Init
  <1>2. QED
    BY <1>1 DEF Init, IInv, LoopTypeOK, IsSeqLike, EarlierCovered, CurrentPending,
       DoneAtEnd, StatusTracks, FileOutputs, InFile

\* The steps of main that stay with the open file change no variable
\* of the pattern loop.
LEMMA FileStep ==
  ASSUME IInv, Backtrack \/ EndBacktrack \/ Skip \/ EndSkip \/ Emit
  PROVE  IInv'
  <1>1. /\ UNCHANGED <<patterns, pidx, matches, output, status>>
        /\ pc \in InFile /\ pc' \in InFile
    BY DEF Backtrack, EndBacktrack, Skip, EndSkip, Emit, InFile
  <1>2. QED
    BY <1>1 DEF IInv, LoopTypeOK, IsSeqLike, EarlierCovered, CurrentPending,
       DoneAtEnd, StatusTracks, FileOutputs, Covered, CoveredIn, InFile

\* The writer leaves main's variables other than 'seen' alone.
LEMMA WriterStep ==
  ASSUME IInv, Append1
  PROVE  IInv'
  BY DEF Append1, IInv, LoopTypeOK, IsSeqLike, EarlierCovered, CurrentPending,
     DoneAtEnd, StatusTracks, FileOutputs, Covered, CoveredIn

\* An object of a non-file kind: the status leaves OK with it.
LEMMA AppendOther ==
  ASSUME NEW s, IsSeqLike(s), NEW e, e.object_type /= "file_output"
  PROVE  {i \in DOMAIN Append(s, e) : Append(s, e)[i].object_type = "file_output"}
           /= DOMAIN Append(s, e)
  BY AppendSeqLike

\* A file_output keeps the status tracking the kinds of the objects.
LEMMA AppendFile ==
  ASSUME NEW s, IsSeqLike(s), NEW e, e.object_type = "file_output"
  PROVE  ({i \in DOMAIN Append(s, e) : Append(s, e)[i].object_type = "file_output"}
            = DOMAIN Append(s, e))
         <=> ({i \in DOMAIN s : s[i].object_type = "file_output"} = DOMAIN s)
  <1> DEFINE t == Append(s, e)
  <1>1. /\ DOMAIN t = DOMAIN s \cup {Len(s) + 1}
        /\ t[Len(s) + 1] = e
        /\ \A i \in DOMAIN s : t[i] = s[i]
        /\ Len(s) + 1 \notin DOMAIN s
    BY AppendSeqLike
  <1>2. QED
    BY <1>1

\* The next pattern: its file_not_found covers it, or a match is left.
LEMMA NextPatternStep ==
  ASSUME IInv, NextPattern
  PROVE  IInv'
  <1> USE DEF IInv, LoopTypeOK
  <1> DEFINE pt == patterns[pidx]
  <1>1. pidx \in 1 .. Len(patterns) /\ pt \in Patterns /\ pc = "patterns"
    BY DEF NextPattern
  <1>2. /\ pidx' = pidx + 1 /\ pc' = "files" /\ patterns' = patterns
        /\ LoopTypeOK'
    BY <1>1 DEF NextPattern, IsSeqLike
  <1>3. \A k \in 1 .. pidx : Covered(k)' \/ (k = pidx /\ matches' /= <<>>)
    <2>1. CASE NoMatch(pt)
      <3> DEFINE e == [object_type |-> "file_not_found", pattern |-> pidx, name |-> pt]
      <3>1. output' = Append(output, e)
        BY <2>1 DEF NextPattern
      <3>2. /\ \A k : CoveredIn(output, k) => CoveredIn(output', k)
            /\ CoveredIn(output', pidx)
        BY <3>1, AppendCovers DEF IsSeqLike
      <3>3. \A k \in 1 .. pidx - 1 : CoveredIn(output, k)
        BY <1>1 DEF EarlierCovered, Covered
      <3>4. QED
        BY <3>2, <3>3 DEF Covered
    <2>2. CASE ~NoMatch(pt)
      <3>1. IsFiniteSet(AllowedMatches(pt)) /\ AllowedMatches(pt) /= {}
        BY <1>1, <2>2, PatternsAssumption, FS_Subset DEF NoMatch, AllowedMatches
      <3>2. matches' /= <<>>
        BY <3>1, OrderNonEmpty DEF NextPattern
      <3>3. output' = output
        BY <2>2 DEF NextPattern
      <3>4. QED
        BY <1>1, <3>2, <3>3 DEF EarlierCovered, Covered, CoveredIn
    <2>3. QED
      BY <2>1, <2>2
  <1>4. StatusTracks'
    <2>1. CASE NoMatch(pt)
      BY <2>1, AppendOther DEF NextPattern, StatusTracks, FileOutputs
    <2>2. CASE ~NoMatch(pt)
      BY <2>2 DEF NextPattern, StatusTracks, FileOutputs
    <2>3. QED
      BY <2>1, <2>2
  <1>5. QED
    BY <1>2, <1>3, <1>4 DEF EarlierCovered, CurrentPending, DoneAtEnd, InFile

\* Back to the pattern loop, or out of it, with the current pattern done.
LEMMA PatternDoneFinishStep ==
  ASSUME IInv, PatternDone \/ Finish
  PROVE  IInv'
  <1> USE DEF IInv, LoopTypeOK, IsSeqLike, StatusTracks, FileOutputs, Covered
  <1>1. CASE PatternDone
    <2>1. pidx >= 2 /\ Covered(pidx - 1)
      BY <1>1 DEF PatternDone, CurrentPending
    <2>2. QED
      BY <1>1, <2>1 DEF PatternDone, EarlierCovered, CurrentPending, DoneAtEnd, InFile
  <1>2. CASE Finish
    BY <1>2 DEF Finish, EarlierCovered, CurrentPending, DoneAtEnd, InFile
  <1>3. QED
    BY <1>1, <1>2

\* Opening the head match keeps it at the head.
LEMMA OpenStep ==
  ASSUME IInv, Open
  PROVE  IInv'
  BY DEF Open, IInv, LoopTypeOK, IsSeqLike, EarlierCovered, CurrentPending,
     DoneAtEnd, StatusTracks, FileOutputs, Covered, CoveredIn, InFile

\* An object for the current pattern, error_text or file_output, covers it
\* whatever matches are left.
LEMMA ObjectStep ==
  ASSUME IInv, OpenFails \/ Close
  PROVE  IInv'
  <1> USE DEF IInv, LoopTypeOK
  <1>1. /\ pc \in {"files", "emit"} /\ pc' = "files"
        /\ UNCHANGED <<patterns, pidx>>
        /\ pidx >= 2
    BY DEF OpenFails, Close, CurrentPending, InFile
  <1> DEFINE err == [object_type |-> "error_text", pattern |-> pidx - 1,
                     name |-> Head(matches)]
             fo  == [object_type |-> "file_output", pattern |-> pidx - 1,
                     name |-> Head(matches), lines |-> out, opened |-> content,
                     seen |-> seen]
  <1>2. \/ output' = Append(output, err) /\ status' = "SYSTEM_ERROR"
        \/ output' = Append(output, fo) /\ status' = status
    BY DEF OpenFails, Close
  <1> DEFINE Goal == /\ \A k : CoveredIn(output, k) => CoveredIn(output', k)
                    /\ CoveredIn(output', pidx - 1)
                    /\ IsSeqLike(output')
                    /\ StatusTracks'
  <1>3. ASSUME output' = Append(output, err), status' = "SYSTEM_ERROR" PROVE Goal
    <2>1. err.pattern = pidx - 1 /\ err.object_type /= "file_output"
      OBVIOUS
    <2>2. /\ \A k : CoveredIn(output, k) => CoveredIn(output', k)
          /\ CoveredIn(output', pidx - 1)
          /\ IsSeqLike(output')
      BY <1>3, <2>1, AppendCovers, AppendSeqLike
    <2>3. {i \in DOMAIN output' : output'[i].object_type = "file_output"} /= DOMAIN output'
      BY <1>3, <2>1, AppendOther
    <2>4. QED
      BY <1>3, <2>2, <2>3 DEF StatusTracks, FileOutputs
  <1>4. ASSUME output' = Append(output, fo), status' = status PROVE Goal
    <2>1. fo.pattern = pidx - 1 /\ fo.object_type = "file_output"
      OBVIOUS
    <2>2. /\ \A k : CoveredIn(output, k) => CoveredIn(output', k)
          /\ CoveredIn(output', pidx - 1)
          /\ IsSeqLike(output')
      BY <1>4, <2>1, AppendCovers, AppendSeqLike
    <2>3. ({i \in DOMAIN output' : output'[i].object_type = "file_output"} = DOMAIN output')
            <=> ({i \in DOMAIN output : output[i].object_type = "file_output"} = DOMAIN output)
      BY <1>4, <2>1, AppendFile
    <2>4. QED
      BY <1>4, <2>2, <2>3 DEF StatusTracks, FileOutputs
  <1>5. Goal
    BY <1>2, <1>3, <1>4
  <1>6. QED
    BY <1>1, <1>5 DEF EarlierCovered, CurrentPending, DoneAtEnd, Covered, InFile

LEMMA IInvNext == IInv /\ [Next]_vars => IInv'
  <1> SUFFICES ASSUME IInv, [Next]_vars PROVE IInv'
    OBVIOUS
  <1>1. CASE MainStep
    BY <1>1, NextPatternStep, PatternDoneFinishStep, OpenStep, ObjectStep,
       FileStep DEF MainStep
  <1>2. CASE Append1
    BY <1>2, WriterStep
  <1>3. CASE UNCHANGED vars
    BY <1>3 DEF vars, main, IInv, LoopTypeOK, IsSeqLike, EarlierCovered,
       CurrentPending, DoneAtEnd, StatusTracks, FileOutputs, Covered, CoveredIn
  <1>4. QED
    BY <1>1, <1>2, <1>3 DEF Next

(***************************************************************************)
(* No pattern of tail.py's path list is dropped, for every pattern list, *)
(* glob result, home, file content, line count and writer: when main    *)
(* returns, every pattern has an output object and the status is OK      *)
(* exactly when every object is a file_output.                           *)
(***************************************************************************)
THEOREM PatternsCovered == Spec => []PatternsAccountedFor
  <1>1. IInv => PatternsAccountedFor
    BY DEF IInv, LoopTypeOK, EarlierCovered, DoneAtEnd, StatusTracks,
       PatternsAccountedFor, Covered, CoveredIn
  <1>2. QED
    BY <1>1, IInvInit, IInvNext, PTL DEF Spec

-----------------------------------------------------------------------------
(***************************************************************************)
(* The file position.                                                      *)
(***************************************************************************)
\* The files only grow, so the length taken at open stays below the size,
\* and the backstep stays below the length in a non-empty file.
SeekOK ==
    /\ fs \in [Inside -> Seq(STRING)]
    /\ matches \in Seq(Inside)
    /\ length \in Nat
    /\ pc \in InFile => length <= Len(Cur)
    /\ pc = "backtrack" => backstep \in Nat /\ (length /= 0 => backstep <= length)
    /\ SeekWithinFile

PosInv == IInv /\ SeekOK

\* The order on the naturals as a relation, for the well-founded minimum.
NatLess == {ss \in Nat \X Nat : ss[1] < ss[2]}

\* A non-empty set of naturals has a least element.
LEMMA NatSetMin ==
  ASSUME NEW T \in SUBSET Nat, T /= {}
  PROVE  \E x \in T : \A y \in T : x <= y
  <1>1. NatLess = OpToRel(<, Nat)
    BY DEF OpToRel, NatLess
  <1>2. \E x \in T : \A y \in T : ~(<<y, x>> \in NatLess)
    BY <1>1, NatLessThanWellFounded, WFMin
  <1>3. PICK x \in T : \A y \in T : ~(<<y, x>> \in NatLess)
    BY <1>2
  <1>4. ASSUME NEW y \in T PROVE x <= y
    <2>1. ~(<<y, x>> \in NatLess)
      BY <1>3
    <2>2. x \in Nat /\ y \in Nat
      OBVIOUS
    <2>3. ~(y < x)
      BY <2>1, <2>2 DEF NatLess
    <2>4. QED
      BY <2>2, <2>3
  <1>5. QED
    BY <1>4

\* readline from a position p ends at a position of the file: at the first
\* newline after p, or at the end.
LEMMA LineEndBounds ==
  ASSUME NEW s \in Seq(STRING), NEW p \in Nat
  PROVE  LineEnd(s, p) \in 0 .. Len(s)
  <1> DEFINE ends == {i \in p + 1 .. Len(s) : s[i] = NL}
  <1>1. CASE ends = {}
    BY <1>1 DEF LineEnd
  <1>2. CASE ends /= {}
    <2>0. ends \in SUBSET Nat
      OBVIOUS
    <2>1. \E i \in ends : \A j \in ends : i <= j
      BY <1>2, <2>0, NatSetMin
    <2>2. (CHOOSE i \in ends : \A j \in ends : i <= j) \in ends
      BY <2>1
    <2>3. ends \subseteq 0 .. Len(s)
      OBVIOUS
    <2>4. QED
      BY <1>2, <2>2, <2>3 DEF LineEnd
  <1>3. QED
    BY <1>1, <1>2

\* The matches main iterates over are paths of the home.
LEMMA OrderInside ==
  ASSUME NEW pt \in Patterns, NEW f \in SetToSeqs(AllowedMatches(pt))
  PROVE  f \in Seq(Inside)
  <1>1. IsFiniteSet(AllowedMatches(pt))
    BY PatternsAssumption, FS_Subset DEF AllowedMatches
  <1>2. Cardinality(AllowedMatches(pt)) \in Nat
    BY <1>1, FS_CardinalityType
  <1>3. f \in [1 .. Cardinality(AllowedMatches(pt)) -> Inside]
    BY DEF SetToSeqs, AllowedMatches
  <1>4. QED
    BY <1>2, <1>3

LEMMA PosInvInit == Init => PosInv
  <1> SUFFICES ASSUME Init PROVE PosInv
    OBVIOUS
  <1>1. IInv
    BY IInvInit
  <1>2. fs \in [Inside -> Seq(STRING)]
    BY FilesAssumption DEF Init
  <1>3. QED
    BY <1>1, <1>2 DEF Init, PosInv, SeekOK, SeekWithinFile, InFile

\* The open file is a file of the home while main is inside it.
LEMMA CurFile ==
  ASSUME PosInv, pc \in InFile
  PROVE  /\ Head(matches) \in Inside
         /\ Cur \in Seq(STRING)
         /\ Len(Cur) \in Nat
  <1>1. matches /= <<>> /\ matches \in Seq(Inside)
    BY DEF PosInv, IInv, CurrentPending, SeekOK
  <1>2. Head(matches) \in Inside
    BY <1>1
  <1>3. QED
    BY <1>2 DEF PosInv, SeekOK, Cur

\* The steps of main keep the position inside the open file.
LEMMA SeekMainStep ==
  ASSUME PosInv, MainStep
  PROVE  SeekOK'
  <1> USE DEF MainStep
  <1>1. fs' = fs /\ fs \in [Inside -> Seq(STRING)]
    BY DEF SeekOK, PosInv
  <1>2. CASE NextPattern
    <2>1. patterns[pidx] \in Patterns
      BY <1>2 DEF NextPattern, PosInv, IInv, LoopTypeOK
    <2>2. matches' \in Seq(Inside)
      BY <1>2, <2>1, OrderInside DEF NextPattern
    <2>3. QED
      BY <1>1, <1>2, <2>2 DEF NextPattern, PosInv, SeekOK, SeekWithinFile, InFile
  <1>3. CASE PatternDone \/ Finish
    BY <1>1, <1>3 DEF PatternDone, Finish, PosInv, SeekOK, SeekWithinFile, InFile
  <1>4. CASE Open
    <2>1. Head(matches) \in Inside /\ Len(Cur) \in Nat
      BY <1>4 DEF Open, PosInv, SeekOK
    <2>2. Cur' = Cur
      BY <1>1, <1>4 DEF Open, Cur
    <2>3. QED
      BY <1>1, <1>4, <2>1, <2>2 DEF Open, PosInv, SeekOK, SeekWithinFile, InFile
  <1>5. CASE OpenFails \/ Close
    <2>1. matches /= <<>> /\ matches \in Seq(Inside)
      BY <1>5 DEF OpenFails, Close, PosInv, IInv, CurrentPending, InFile, SeekOK
    <2>2. matches' = Tail(matches)
      BY <1>5 DEF OpenFails, Close
    <2>3. Tail(matches) \in Seq(Inside)
      BY <2>1
    <2>4. pc' = "files"
      BY <1>5 DEF OpenFails, Close
    <2>5. QED
      BY <1>1, <1>5, <2>2, <2>3, <2>4 DEF OpenFails, Close, PosInv, SeekOK, SeekWithinFile, InFile
  <1> DEFINE FileOK == /\ Head(matches) \in Inside /\ Cur \in Seq(STRING) /\ Len(Cur) \in Nat
  <1>6. CASE Backtrack \/ EndBacktrack \/ Skip \/ EndSkip \/ Emit
    <2>1. pc \in InFile
      BY <1>6 DEF Backtrack, EndBacktrack, Skip, EndSkip, Emit, InFile
    <2>2. FileOK
      BY <2>1, CurFile
    <2>3. matches' = matches /\ Cur' = Cur /\ length' = length
      BY <1>1, <1>6 DEF Backtrack, EndBacktrack, Skip, EndSkip, Emit, Cur
    <2>4. pos \in 0 .. Len(Cur) /\ length <= Len(Cur) /\ length \in Nat
      BY <2>1 DEF PosInv, SeekOK, SeekWithinFile, InFile
    <2>5. CASE Backtrack
      <3>1. backstep \in Nat /\ backstep < length
        BY <2>5 DEF Backtrack, LoopContinues, PosInv, SeekOK
      <3>2. QED
        BY <1>1, <2>2, <2>3, <2>4, <2>5, <3>1 DEF Backtrack, PosInv, SeekOK,
           SeekWithinFile, InFile
    <2>6. CASE EndBacktrack
      <3>1. length /= 0 => backstep \in 0 .. length
        BY <2>6 DEF EndBacktrack, PosInv, SeekOK
      <3>2. pos' \in 0 .. Len(Cur)
        BY <2>2, <2>4, <2>6, <3>1 DEF EndBacktrack
      <3>3. QED
        BY <1>1, <2>3, <2>4, <2>6, <3>2 DEF EndBacktrack, PosInv, SeekOK,
           SeekWithinFile, InFile
    <2>7. CASE Skip \/ Emit
      <3>1. pos' = LineEnd(Cur, pos)
        BY <2>7 DEF Skip, Emit
      <3>2. pos' \in 0 .. Len(Cur)
        BY <2>2, <2>4, <3>1, LineEndBounds
      <3>3. QED
        BY <1>1, <2>3, <2>4, <2>7, <3>2 DEF Skip, Emit, PosInv, SeekOK,
           SeekWithinFile, InFile
    <2>8. CASE EndSkip
      BY <1>1, <2>3, <2>4, <2>8 DEF EndSkip, PosInv, SeekOK, SeekWithinFile, InFile
    <2>9. QED
      BY <1>6, <2>5, <2>6, <2>7, <2>8
  <1>7. QED
    BY <1>2, <1>3, <1>4, <1>5, <1>6

\* An append only grows the files, so the position stays inside.
LEMMA SeekWriterStep ==
  ASSUME PosInv, Append1
  PROVE  SeekOK'
  <1>1. PICK p \in Inside, c \in AppendChars : fs' = [fs EXCEPT ![p] = @ \o <<c>>]
    BY DEF Append1
  <1>2. fs' \in [Inside -> Seq(STRING)]
    BY <1>1, WriterAssumption DEF PosInv, SeekOK
  <1>3. \A q \in Inside : Len(fs'[q]) >= Len(fs[q])
    BY <1>1, WriterAssumption DEF PosInv, SeekOK
  <1>4. UNCHANGED <<matches, pc, length, backstep, pos>>
    BY DEF Append1
  <1>5. pc \in InFile => Len(Cur') >= Len(Cur) /\ Len(Cur) \in Nat
    BY <1>3, <1>4, CurFile DEF Cur
  <1>6. QED
    BY <1>2, <1>4, <1>5 DEF PosInv, SeekOK, SeekWithinFile, InFile

LEMMA PosInvNext == PosInv /\ [Next]_vars => PosInv'
  <1> SUFFICES ASSUME PosInv, [Next]_vars PROVE PosInv'
    OBVIOUS
  <1>1. IInv'
    BY IInvNext DEF PosInv
  <1>2. CASE MainStep
    BY <1>1, <1>2, SeekMainStep DEF PosInv
  <1>3. CASE Append1
    BY <1>1, <1>3, SeekWriterStep DEF PosInv
  <1>4. CASE UNCHANGED vars
    BY <1>1, <1>4 DEF vars, main, PosInv, SeekOK, SeekWithinFile, Cur
  <1>5. QED
    BY <1>1, <1>2, <1>3, <1>4 DEF Next, PosInv

(***************************************************************************)
(* tail.py's seeks and readlines keep the file position inside the open  *)
(* file, for every file content, pattern list, line count and appending  *)
(* writer: seek(-backstep, 2) is guarded by 'if length' and the backstep *)
(* never passes the length taken at open, which a growing file keeps     *)
(* below its size.                                                         *)
(***************************************************************************)
THEOREM SeekInside == Spec => []SeekWithinFile
  <1>1. PosInv => SeekWithinFile
    BY DEF PosInv, SeekOK
  <1>2. QED
    BY <1>1, PosInvInit, PosInvNext, PTL DEF Spec

=============================================================================
