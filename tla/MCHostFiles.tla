---------------------------- MODULE MCHostFiles ----------------------------
(* An instance of HostFiles for TLC: two volumes, a system directory, a    *)
(* directory with two files and a few places to put them.                  *)
EXTENDS HostFiles, TLC

CONSTANTS f1, f2, Old, New

Sys   == <<"C", "win">>
SysX  == <<"C", "win", "x">>
Dir   == <<"C", "d">>
DirA  == <<"C", "d", "a">>
DirB  == <<"C", "d", "b">>
File  == <<"C", "f">>
Goal  == <<"C", "t">>
GoalA == <<"C", "t", "a">>
GoalB == <<"C", "t", "b">>
Far   == <<"D", "g">>
Os    == <<"D", "w">>
OsX   == <<"D", "w", "x">>
OsXK  == <<"D", "w", "x", "k">>
OsXKA == <<"D", "w", "x", "k", "a">>
OsXKB == <<"D", "w", "x", "k", "b">>

MCPaths == {<<"C">>, <<"D">>, Sys, SysX, Dir, DirA, DirB, File, Goal, GoalA, GoalB, Far, Os, OsX,
            OsXK, OsXKA, OsXKB}
             \cup {<<"C", f1>>, <<"C", f1, "a">>, <<"C", f1, "b">>, <<"C", "d", f1>>}

MCLexicalDirs == {Sys}
MCHostRoots == {Sys, Os}
(* Two entries, of which one is not there.                                 *)
MCAllowPaths == {Sys, OsX}

AFile(v) == [kind |-> "file", data |-> v]
ADir == [kind |-> "dir", data |-> Nothing]
ALink == [kind |-> "link", data |-> Nothing]

Base == [p \in MCPaths |->
  IF Len(p) = 1 \/ p \in {Sys, Os, Dir} THEN ADir
  ELSE IF p \in {DirA, File} THEN AFile(Old) ELSE Nothing]

(* A target that is missing, a file, a directory or a link; a source with  *)
(* a file or a link in it.                                                 *)
MCTrees ==
  {[Base EXCEPT ![DirB] = AFile(New)],
   [Base EXCEPT ![Goal] = AFile(New), ![Far] = AFile(New)],
   [Base EXCEPT ![Goal] = ADir, ![SysX] = AFile(Old)],
   [Base EXCEPT ![Goal] = ALink, ![DirB] = ALink]}

Ask(tool, s, t, ow, client) ==
  [tool |-> tool, source |-> s, target |-> t, overwrite |-> ow, client |-> client, cap |-> 1]

Name(n, up) == Written("name", n, up, <<>>, <<>>)

(* Relative names: some are resolved to one place, some to two.            *)
Rel(p) == Written("relative", <<"a">>, FALSE, p, p)
Split == Written("relative", <<"b">>, FALSE, Goal, OsX)
Apart == Written("relative", <<"b">>, FALSE, Goal, Far)
Astray(upper) == Written("relative", <<"c">>, upper, File, OsX)

Plain == {Full(p) : p \in {DirA, File, Dir, Goal}}

FirstRequests ==
  {Ask("delete_file", s, Nothing, FALSE, k) : s \in {Full(File), Full(SysX), Rel(OsX)}, k \in {"form", "none"}}
  \cup {Ask("delete_directory", Full(p), Nothing, FALSE, "form") : p \in {Dir, Goal, Sys}}
  \cup {Ask("copy_file", Full(File), t, ow, "form") : t \in {Full(Goal), Apart}, ow \in BOOLEAN}
  \cup {Ask("copy_file", Full(Dir), Full(Goal), ow, "form") : ow \in BOOLEAN}
  \cup {Ask("copy_file", Full(Dir), t, FALSE, "form") : t \in {Full(GoalA), Full(OsXK), Rel(DirB)}}
  \cup {Ask("move_file", Astray(FALSE), Astray(TRUE), FALSE, "form")}
  \cup {Ask("copy_file", Full(File), Full(SysX), TRUE, "form")}
  \cup {Ask("move_file", Full(File), t, ow, "form") : t \in {Full(Goal), Apart}, ow \in BOOLEAN}
  \cup {Ask("move_file", Full(Dir), t, ow, "form") : t \in {Full(Goal), Full(Far)}, ow \in BOOLEAN}
  \cup {Ask("move_file", Full(File), Full(p), TRUE, "form") : p \in {Far, OsX}}
  \cup {Ask("move_file", Full(File), Written("full", File, TRUE, File, File), FALSE, k) : k \in {"form", "url"}}
  \cup {Ask("move_file", Full(Dir), Written("full", Dir, TRUE, Dir, Dir), FALSE, "form"),
        Ask("move_file", Full(Dir), Full(DirB), FALSE, "form"),
        Ask("move_file", Full(Sys), Full(Goal), FALSE, "form"),
        Ask("move_file", Written("device", File, FALSE, File, File), Full(Goal), FALSE, "form")}
  \cup {Ask("rename_file", s, Name("t", FALSE), ow, "form") : s \in {Full(File), Full(Dir)}, ow \in BOOLEAN}
  \cup {Ask("rename_file", Rel(File), Name("t", FALSE), FALSE, "form"),
        Ask("rename_file", Full(File), Name("f", TRUE), FALSE, "form"),
        Ask("rename_file", Full(File), Written("bad", "..", FALSE, <<>>, <<>>), FALSE, "form")}
  \cup {Ask("create_directory", Full(p), Full(p), FALSE, "form") : p \in {Goal, GoalA, SysX, OsX, OsXK}}
  \cup {Ask("create_directory", Split, Split, FALSE, "form"),
        Ask("copy_file", Full(File), Split, FALSE, "form")}

SecondRequests == {Ask("copy_file", Full(DirA), Full(Goal), TRUE, "form")}

MCFileRequests == f1 :> FirstRequests @@ f2 :> SecondRequests

=============================================================================
