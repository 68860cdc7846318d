----------------------------- MODULE EditEngine -----------------------------
(* The matching and replacing engine of the edit_file tool: how one edit      *)
(* operation is located in a file and what the file is afterwards.            *)
(*                                                                            *)
(* A file is the sequence of its lines in the LF view, the last one with a    *)
(* newline too, and a line a sequence of tokens; Blank is the white space and *)
(* Plain the Unicode folding of a token.  An operation is a record: `old` and *)
(* `new` are strings, given as the lines between their newlines (<<>> when    *)
(* the argument is missing, << <<>> >> for the empty string), the numbers are *)
(* 0 when missing.  A regular expression is abstracted to the strings it      *)
(* matches, here `old`, which is not empty there, nor when all occurrences    *)
(* are to be replaced.                                                        *)
EXTENDS Integers, Sequences, FiniteSets, SequencesExt, FiniteSetsExt

CONSTANTS
  Blank,     \* the white space token
  Plain(_)   \* the folded form of a token

(* Three views of a line, each coarser than the one before.                   *)
IsBlank(l) == \A k \in DOMAIN l : l[k] = Blank
Inked(l) == {k \in DOMAIN l : l[k] # Blank}
TrimEnd(l) == IF IsBlank(l) THEN <<>> ELSE SubSeq(l, 1, Max(Inked(l)))
TrimLine(l) == IF IsBlank(l) THEN <<>> ELSE SubSeq(l, Min(Inked(l)), Max(Inked(l)))

Normalise(l) ==
  LET t == [k \in DOMAIN TrimLine(l) |-> Plain(TrimLine(l)[k])]
      keep == SelectSeq([k \in DOMAIN t |-> k],
                        LAMBDA k : k = 1 \/ t[k] # Blank \/ t[k - 1] # Blank)
  IN  [j \in DOMAIN keep |-> t[keep[j]]]

(* The lines of a string with newlines, without blank ones at either end.     *)
MultilineStringLines(s) ==
  LET inked == {k \in DOMAIN s : ~IsBlank(s[k])}
  IN  IF inked = {} THEN <<>> ELSE SubSeq(s, Min(inked), Max(inked))

Single(s) == Len(s) = 1

(* Where a string without a newline occurs: in one line, and in which lines.  *)
Occurs(l, s) == {k \in 1..(Len(l) - Len(s) + 1) : SubSeq(l, k, k + Len(s) - 1) = s}
Hits(file, s) == {i \in DOMAIN file : Occurs(file[i], s) # {}}

(* The occurrences, from the left, that do not overlap.                       *)
Matches(l, s) ==
  LET taken[k \in 0 .. Len(l)] ==
        IF k = 0 THEN {}
        ELSE IF k \in Occurs(l, s) /\ \A j \in taken[k - 1] : j + Len(s) <= k
             THEN taken[k - 1] \cup {k} ELSE taken[k - 1]
  IN  taken[Len(l)]
Count(file, s) == MapThenSumSet(LAMBDA i : Cardinality(Matches(file[i], s)), DOMAIN file)

-----------------------------------------------------------------------------
(* Locating.  The answer of each step is a record with a `code`: "ok", or the *)
(* error that the tool reports.                                               *)

Fail(code) == [code |-> code, start |-> 0, win |-> 0, fuzzy |-> FALSE]
Found(start, win, fuzzy) == [code |-> "ok", start |-> start, win |-> win, fuzzy |-> fuzzy]

(* The three views of a line by their grade, the finest first.                *)
View(grade, l) ==
  CASE grade = 1 -> TrimEnd(l)
    [] grade = 2 -> TrimLine(l)
    [] grade = 3 -> Normalise(l)

(* The windows whose lines are those of the pattern in one view.              *)
WindowsIn(grade, file, pattern) ==
  {i \in 1..(Len(file) - Len(pattern) + 1) :
     \A k \in DOMAIN pattern : View(grade, file[i + k - 1]) = View(grade, pattern[k])}

(* Mutant: the coarser views are always tried.                                *)
FindWindowsEager(file, pattern, allowFuzzy) ==
  IF pattern = <<>> THEN [at |-> {}, fuzzy |-> FALSE]
  ELSE [at |-> WindowsIn(3, file, pattern), fuzzy |-> allowFuzzy]

(* The coarser views are tried only when the finer ones find nothing.         *)
FindWindows(file, pattern, allowFuzzy) ==
  LET grades == {g \in 1..(IF allowFuzzy THEN 3 ELSE 1) : WindowsIn(g, file, pattern) # {}}
      grade == Min(grades)
  IN  IF pattern = <<>> \/ grades = {} THEN [at |-> {}, fuzzy |-> FALSE]
      ELSE [at |-> WindowsIn(grade, file, pattern), fuzzy |-> grade > 1]

(* How well a line agrees with one that was named as lying around a window.   *)
LineScore(file, i, wanted) ==
  IF i \notin DOMAIN file THEN -2
  ELSE IF TrimEnd(file[i]) = TrimEnd(wanted) THEN 3
  ELSE IF TrimLine(file[i]) = TrimLine(wanted) THEN 1 ELSE -1

ContextScore(file, op, at, win) ==
  LET b == Len(op.before)
      wanted == op.before \o op.after
      Place(j) == IF j <= b THEN at - b + j - 1 ELSE at + win + j - b - 1
  IN  MapThenSumSet(LAMBDA j : LineScore(file, Place(j), wanted[j]), DOMAIN wanted)

BestOf(score) == Min({i \in DOMAIN score : \A j \in DOMAIN score : score[i] >= score[j]})

(* Several windows: without context none is taken, with context the first of  *)
(* those with the best score.                                                 *)
DisambiguateMatch(file, op, at, win) ==
  IF Cardinality(at) # 1 /\ op.before \o op.after = <<>> THEN 0
  ELSE BestOf([i \in at |-> ContextScore(file, op, i, win)])

Chosen(i, found, pattern) ==
  IF i = 0 THEN Fail("AMBIGUOUS_MATCH") ELSE Found(i, Len(pattern), found.fuzzy)

DisambiguateOp(file, op, found, pattern) ==
  IF found.at = {} THEN Fail("NO_MATCH")
  ELSE Chosen(DisambiguateMatch(file, op, found.at, Len(pattern)), found, pattern)

LocateLineWindow(file, op) ==
  LET pattern == IF op.oldLines # <<>> THEN op.oldLines ELSE MultilineStringLines(op.old)
  IN  IF op.oldLines = <<>> /\ op.old = <<>> THEN Fail("OP_ERROR")
      ELSE IF pattern = <<>> THEN Fail("NO_MATCH")
      ELSE DisambiguateOp(file, op, FindWindows(file, pattern, op.fuzzy), pattern)

LocateRegex(file, op) ==
  CASE op.old = <<>> -> Fail("OP_ERROR")
    [] op.old # <<>> /\ Hits(file, op.old[1]) = {} -> Fail("NO_MATCH")
    [] op.old # <<>> /\ Count(file, op.old[1]) > 1 -> Fail("AMBIGUOUS_MATCH")
    [] OTHER -> Found(Min(Hits(file, op.old[1])), 1, FALSE)

(* By line number; a text that is given too must be what stands there.        *)
LocateLines(file, op) ==
  LET last == Min({IF op.end = 0 THEN op.start ELSE op.end, Len(file)})
      window == SubSeq(file, op.start, last)
      want == IF op.oldLines # <<>> THEN op.oldLines ELSE MultilineStringLines(op.old)
      agree == /\ Len(want) = Len(window)
               /\ \A k \in DOMAIN want : TrimEnd(want[k]) = TrimEnd(window[k])
  IN  IF op.start > Len(file) \/ op.start > last THEN Fail("OP_ERROR")
      ELSE IF want # <<>> /\ ~agree THEN Fail("LINE_MISMATCH")
      ELSE Found(op.start, last - op.start + 1, FALSE)

(* By a string within a line: alone, or checked against lines that are given  *)
(* too.                                                                       *)
CrossCheck(file, s, lines) ==
  CASE lines.code # "ok" -> lines
    [] lines.code = "ok" /\ Count(file, s) = 0 -> Fail("NO_MATCH")
    [] lines.code = "ok" /\ Count(file, s) > 1 -> Fail("AMBIGUOUS_MATCH")
    [] OTHER -> IF Hits(file, s) = {lines.start} THEN Found(lines.start, 1, FALSE)
                                                 ELSE Fail("CROSS_CHECK")

ChosenHit(file, s, i) ==
  IF i # 0 /\ Cardinality(Matches(file[i], s)) = 1 THEN Found(i, 1, FALSE)
                                                   ELSE Fail("AMBIGUOUS_MATCH")

LocateSubstring(file, op) ==
  LET s == op.old[1]
  IN  IF op.oldLines # <<>> THEN CrossCheck(file, s, LocateLineWindow(file, op))
      ELSE CASE Count(file, s) = 1 -> Found(Min(Hits(file, s)), 1, FALSE)
             [] Count(file, s) > 1 ->
                  IF op.before \o op.after = <<>> THEN Fail("AMBIGUOUS_MATCH")
                  ELSE ChosenHit(file, s, DisambiguateMatch(file, op, Hits(file, s), 1))
             [] OTHER -> DisambiguateOp(file, op, FindWindows(file, <<s>>, op.fuzzy), <<s>>)

LocateOp(file, op) ==
  CASE op.all -> Fail("OP_ERROR")
    [] ~op.all /\ op.regex -> LocateRegex(file, op)
    [] ~op.all /\ ~op.regex /\ op.start # 0 -> LocateLines(file, op)
    [] ~op.all /\ ~op.regex /\ op.start = 0 /\ Single(op.old) /\ op.old[1] # <<>> ->
         LocateSubstring(file, op)
    [] OTHER -> LocateLineWindow(file, op)

-----------------------------------------------------------------------------
(* Replacing.                                                                 *)

NewLinesOf(op) ==
  CASE op.newLines # <<>> -> op.newLines
    [] op.newLines = <<>> /\ Len(op.new) > 1 -> MultilineStringLines(op.new)
    [] OTHER -> op.new

(* `new` is one line here.                                                    *)
ReplaceInLine(l, s, new) ==
  FlattenSeq([k \in DOMAIN l |->
    IF k \in Matches(l, s) THEN new
    ELSE IF \E j \in Matches(l, s) : j < k /\ k < j + Len(s) THEN <<>>
    ELSE <<l[k]>>])

ReplaceEverywhere(file, op) ==
  LET new == IF op.new = <<>> THEN <<>> ELSE op.new[1]
  IN  [i \in DOMAIN file |-> ReplaceInLine(file[i], op.old[1], new)]

(* The lines are joined, and only a text that does not end with a newline     *)
(* gets one: a blank line at the end is lost, and without lines there is one. *)
Joined(lines) ==
  CASE lines = <<>> -> << <<>> >>
    [] Len(lines) > 1 /\ Last(lines) = <<>> -> Front(lines)
    [] OTHER -> lines

Splice(file, at, new) ==
  Joined(SubSeq(file, 1, at.start - 1) \o new \o SubSeq(file, at.start + at.win, Len(file)))

(* One line that is replaced by one line keeps what stands around the string. *)
ReplaceWindow(file, op, at) ==
  LET new == NewLinesOf(op)
      l == file[at.start]
      k == Min(Occurs(l, op.old[1]))
      inline == SubSeq(l, 1, k - 1) \o new[1] \o SubSeq(l, k + Len(op.old[1]), Len(l))
  IN  IF /\ Single(op.old) /\ ~op.regex /\ at.win = 1 /\ Len(new) = 1
         /\ Occurs(l, op.old[1]) # {}
      THEN Splice(file, at, <<inline>>)
      ELSE Splice(file, at, new)

(* One operation on a file: what it becomes, and the code that is reported.   *)
AppliedAt(file, op, at) ==
  [file |-> IF at.code = "ok" THEN ReplaceWindow(file, op, at) ELSE file, code |-> at.code]

AppliedToAll(file, op) ==
  IF Count(file, op.old[1]) = 0 THEN [file |-> file, code |-> "NO_MATCH"]
                                ELSE [file |-> ReplaceEverywhere(file, op), code |-> "ok"]

ApplyOp(file, op) ==
  IF op.all /\ ~op.regex /\ Single(op.old) THEN AppliedToAll(file, op)
                                           ELSE AppliedAt(file, op, LocateOp(file, op))
=============================================================================
