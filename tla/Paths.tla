-------------------------------- MODULE Paths --------------------------------
(***************************************************************************)
(* Paths as the CLI walk and the viewer compute with them.  A rooted path  *)
(* is the sequence of its names.  A manifest key, a path relative to the   *)
(* project root, is split into the number of its leading "../" and the     *)
(* names that follow; the project root itself is up = 0 with no names.     *)
(***************************************************************************)
EXTENDS Naturals, Sequences, SequencesExt

CONSTANTS
  Name,      \* names of files and directories
  Project,   \* the project root: the root file's directory, or the cwd
  Markdown   \* names with the extension .md

Dot    == "."
DotDot == ".."
Top    == <<>>            \* the path /

(* What a path is written with, and the paths filepath.Clean leaves alone. *)
Component == Name \cup {Dot, DotDot}
CleanPaths == Seq(Name)

ASSUME PathsAssumption ==
  Dot \notin Name /\ DotDot \notin Name /\ Project \in CleanPaths

(* filepath.Clean of a rooted path, name by name.                          *)
CleanStep(done, name) ==
  CASE name = Dot    -> done
    [] name = DotDot -> IF done = Top THEN Top ELSE Front(done)
    [] OTHER         -> Append(done, name)

Clean(path) ==
  LET done[n \in 0..Len(path)] ==
        IF n = 0 THEN Top ELSE CleanStep(done[n - 1], path[n])
  IN done[Len(path)]

Join(dir, path) == Clean(dir \o path)

Dir(path) == Front(path)

Key(up, tail) == [up |-> up, tail |-> tail]

(* filepath.Rel of two clean rooted paths, as a key.                       *)
Rel(base, target) ==
  LET shared == {n \in 0..Len(base) : \A i \in 1..n :
                   i <= Len(target) /\ base[i] = target[i]}
      common == CHOOSE n \in shared : \A m \in shared : m <= n
  IN Key(Len(base) - common, SubSeq(target, common + 1, Len(target)))

(* A key as it is written, name by name.                                   *)
Names(key) == [i \in 1..key.up |-> DotDot] \o key.tail
=============================================================================
