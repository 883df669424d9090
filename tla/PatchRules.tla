----------------------------- MODULE PatchRules -----------------------------
(***************************************************************************)
(* The patch that leaves a sandbox (packages/github/src/patch.ts): git     *)
(* writes it, parsePatch reads it, checkPatch judges it.  A path is the    *)
(* sequence of its segments; a line is a record of what the code tells     *)
(* apart in its text.                                                      *)
(***************************************************************************)
EXTENDS Naturals, SequencesExt

devNull == <<>>

(* Names with a space are not quoted by git; it ends them with a tab in the
   lines that begin with --- and +++. *)
spaced(path) == Contains(path, "a name")
tabbed(path) == IF spaced(path) THEN Append(path, "tab") ELSE path

(* Other names are quoted: bytes beyond ASCII as octal numbers, "accent" here, and
   control characters as in C, "bell" here.  No name has a space as well. *)
escaped(path) == Contains(path, "accent") \/ Contains(path, "bell")

(* JSON is to take the quotes away, after octal numbers were made characters: of a
   character in several bytes become several. *)
unquote(path) ==
  IF Contains(path, "accent")
  THEN [n \in DOMAIN path |-> IF path[n] = "accent" THEN "mojibake" ELSE path[n]]
  ELSE path

(* JSON knows no \a and \v. *)
unparsable(path) == Contains(path, "bell")

-----------------------------------------------------------------------------
(* What changed, and the lines that `git diff --cached --binary` writes: old and
   new path (devNull for a file that is added or deleted), the new mode if it is
   told, and the lines of the hunk, or binary data. *)

Content(sign, text) == [sign |-> sign, text |-> text]

Line(start, path, to, secret) == [start |-> start, path |-> path, to |-> to, secret |-> secret]
Bare(start) == Line(start, devNull, devNull, FALSE)

(* A deleted "-- x" and an added "++ x" look like the lines that name files. *)
lineOf(content) ==
  IF content.text = "marker"
  THEN Line(IF content.sign = "+" THEN "+++" ELSE "---", <<"x">>, devNull, FALSE)
  ELSE Line(content.sign, devNull, devNull, content.text = "secret")

modeLines(c) ==
  IF c.new = devNull THEN <<Bare("deleted file mode")>>
  ELSE IF c.mode = "same" THEN <<>>
  ELSE <<[Bare(IF c.old = devNull THEN "new file mode" ELSE "new mode") EXCEPT !.to = c.mode]>>

renameLines(c) ==
  IF c.old = c.new \/ devNull \in {c.old, c.new} THEN <<>>
  ELSE <<Line("rename from", c.old, devNull, FALSE), Line("rename to", c.new, devNull, FALSE)>>

bodyLines(c) ==
  IF c.binary THEN <<Bare("GIT binary patch"), Bare("base85")>>
  ELSE IF c.body = <<>> THEN <<>>
  ELSE <<Line("---", tabbed(c.old), devNull, FALSE), Line("+++", tabbed(c.new), devNull, FALSE),
         Bare("@@")>> \o [n \in DOMAIN c.body |-> lineOf(c.body[n])]

gitDiff(c) ==
  LET from == IF c.old = devNull THEN c.new ELSE c.old
      to   == IF c.new = devNull THEN c.old ELSE c.new
  IN <<Line("diff --git", from, to, FALSE)>> \o modeLines(c) \o renameLines(c) \o bodyLines(c)

patchOf(changes) == FoldLeft(LAMBDA lines, c : lines \o gitDiff(c), <<>>, changes)

-----------------------------------------------------------------------------
(* parsePatch. *)

(* The expression of the header takes paths without spaces. *)
isHeader(line) == line.start = "diff --git" /\ ~spaced(line.path) /\ ~spaced(line.to)

startsWithPlus(line) == line.start \in {"+", "+++"}
startsWithMinus(line) == line.start \in {"-", "---"}

newFile(line) == [path |-> unquote(line.to), oldPath |-> unquote(line.path),
                  added |-> 0, deleted |-> 0, binary |-> FALSE, newMode |-> "same"]

(* Mutant: inside a hunk the lines that name files still count as such. *)
hunkLineByText(f, line) ==
  CASE line.start = "+" -> [f EXCEPT !.added = @ + 1]
    [] line.start = "-" -> [f EXCEPT !.deleted = @ + 1]
    [] line.start = "+++" -> [f EXCEPT !.path = line.path]
    [] line.start = "---" -> [f EXCEPT !.oldPath = line.path]
    [] OTHER -> f

hunkLine(f, line) ==
  CASE startsWithPlus(line) -> [f EXCEPT !.added = @ + 1]
    [] startsWithMinus(line) -> [f EXCEPT !.deleted = @ + 1]
    [] OTHER -> f

(* Mutant: the name after a change is taken as git wrote it. *)
extendedLineQuoted(f, line) ==
  CASE line.start = "+++" /\ line.path # devNull -> [f EXCEPT !.path = line.path]
    [] line.start = "---" /\ line.path # devNull -> [f EXCEPT !.oldPath = unquote(line.path)]
    [] line.start = "rename to" -> [f EXCEPT !.path = unquote(line.path)]
    [] line.start = "rename from" -> [f EXCEPT !.oldPath = unquote(line.path)]
    [] line.start \in {"new file mode", "new mode"} -> [f EXCEPT !.newMode = line.to]
    [] line.start \in {"GIT binary patch", "Binary files"} -> [f EXCEPT !.binary = TRUE]
    [] OTHER -> f

extendedLine(f, line) ==
  CASE line.start = "+++" /\ line.path # devNull -> [f EXCEPT !.path = unquote(line.path)]
    [] line.start = "---" /\ line.path # devNull -> [f EXCEPT !.oldPath = unquote(line.path)]
    [] line.start = "rename to" -> [f EXCEPT !.path = unquote(line.path)]
    [] line.start = "rename from" -> [f EXCEPT !.oldPath = unquote(line.path)]
    [] line.start \in {"new file mode", "new mode"} -> [f EXCEPT !.newMode = line.to]
    [] line.start \in {"GIT binary patch", "Binary files"} -> [f EXCEPT !.binary = TRUE]
    [] OTHER -> f

(* One turn of the loop; the current file is the last one. *)
parseLine(s, line) ==
  IF isHeader(line) THEN [files |-> Append(s.files, newFile(line)), inHunk |-> FALSE]
  ELSE IF s.files = <<>> THEN s
  ELSE IF line.start = "@@" THEN [s EXCEPT !.inHunk = TRUE]
  ELSE [s EXCEPT !.files[Len(s.files)] =
          IF s.inHunk THEN hunkLine(@, line) ELSE extendedLine(@, line)]

linesParsed(patch) == FoldLeft(parseLine, [files |-> <<>>, inHunk |-> FALSE], patch)

(* The names that are unquoted in a turn of the loop. *)
unquoted(s, line) ==
  IF isHeader(line) THEN {line.path, line.to}
  ELSE IF s.files # <<>> /\ ~s.inHunk
          /\ line.start \in {"+++", "---", "rename to", "rename from"} THEN {line.path}
  ELSE {}

(* An error of JSON.parse ends the loop, and whatever called for it. *)
throws(patch) ==
  \E n \in DOMAIN patch :
    \E path \in unquoted(linesParsed(SubSeq(patch, 1, n - 1)), patch[n]) : unparsable(path)

parsePatch(patch) ==
  LET files == linesParsed(patch).files
  IN [n \in DOMAIN files |->
        IF files[n].oldPath = files[n].path THEN [files[n] EXCEPT !.oldPath = devNull] ELSE files[n]]

changedLines(files) == FoldLeft(LAMBDA sum, f : sum + f.added + f.deleted, 0, files)

-----------------------------------------------------------------------------
(* checkPatch. *)

envNames == {".env", ".env.local", ".env.example"}
sampleNames == {".env.example"}

(* A path from the root begins with an empty segment. *)
forbiddenPathReason(path) ==
  IF Contains(path, "..") \/ IsPrefix(<<"">>, path) THEN "escapes"
  ELSE IF Contains(path, ".git") THEN "git internals"
  ELSE IF Len(path) > 2 /\ IsPrefix(<<".github", "workflows">>, path) THEN "workflows"
  ELSE IF path = <<".agent.yml">> THEN "agent configuration"
  ELSE IF path # devNull /\ Last(path) \in envNames \ sampleNames THEN "environment file"
  ELSE "none"

(* Its second loop takes a header with any names, though names with a space
   do not come out whole, and quotes stay. *)
headed(line) ==
  IF spaced(line.path) THEN <<"a part of the header">>
  ELSE IF escaped(line.to) THEN <<"in quotes">> ELSE line.to

scanLine(s, line) ==
  IF line.start = "diff --git" THEN [s EXCEPT !.file = headed(line), !.inHunk = FALSE]
  ELSE LET in == s.inHunk \/ line.start = "@@"
       IN [s EXCEPT !.inHunk = in,
                    !.found = IF in /\ startsWithPlus(line) /\ line.secret
                              THEN @ \cup {<<s.file, "secret">>} ELSE @]

secretsIn(patch) ==
  FoldLeft(scanLine, [file |-> devNull, inHunk |-> FALSE, found |-> {}], patch).found

pathViolations(f) ==
  {<<path, forbiddenPathReason(path)>> :
     path \in {p \in {f.path, f.oldPath} \ {devNull} : forbiddenPathReason(p) # "none"}}

modeViolations(f) ==
  CASE f.newMode = "120000" -> {<<f.path, "symbolic link">>}
    [] f.newMode = "160000" -> {<<f.path, "submodule">>}
    [] OTHER -> {}

checkPatch(patch, limits) ==
  LET files == parsePatch(patch)
  IN IF throws(patch) THEN {<<devNull, "thrown">>}
     ELSE (UNION {pathViolations(files[n]) \cup modeViolations(files[n]) : n \in DOMAIN files})
          \cup (IF Len(files) > limits.maxFiles THEN {<<devNull, "files">>} ELSE {})
          \cup (IF changedLines(files) > limits.maxChangedLines THEN {<<devNull, "lines">>} ELSE {})
          \cup secretsIn(patch)
=============================================================================
