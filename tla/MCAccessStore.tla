--------------------------- MODULE MCAccessStore ---------------------------
(* AccessStore with two directories, each of them old or empty at first.    *)
(* Directories are interchangeable, and so are passwords.                   *)
EXTENDS AccessStore, TLC

Symmetry == Permutations(Passwords) \cup Permutations(Dirs)

Unused(d) ==
    /\ disk[d] = [access |-> NoFile, inventory |-> NoFile]
    /\ survive[d] = [access |-> {NoFile}, inventory |-> {NoFile}]
    /\ init[d] = NoFile /\ job[d] = NoJob /\ known[d] = {}

\* The bound of a run: somebody signs in only while one directory is in use.
\* What a session writes is in the directory that is served.
Scope == (\A s \in Sessions : session[s] = 0) \/ \E d \in Dirs : Unused(d)
============================================================================
