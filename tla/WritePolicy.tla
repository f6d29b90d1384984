---------------------------- MODULE WritePolicy ----------------------------
(***************************************************************************)
(* The decisions of src/src/policy.rs on the paths of a file tool: which   *)
(* paths are protected, what the operator allowlist lifts, and the verdicts*)
(* on the answers of the scans.                                            *)
(*                                                                         *)
(* A path is a volume followed by names, in the normal form of             *)
(* normalize_windows_path; a device path, a short name and a bad new name  *)
(* are only told apart from it by the form of the request.                 *)
(***************************************************************************)
EXTENDS Integers, Sequences, FiniteSets

CONSTANTS
  Paths,        \* the paths of an instance, with every parent of a path
  LexicalDirs,  \* PROTECTED_DIRS
  HostRoots,    \* the system roots that the host reports
  AllowPaths,   \* WINRIG_WRITE_ALLOW_PATHS
  Nothing       \* no file, no path, no entry

(* The names that the paths are made of.                                   *)
Names == UNION {{p[i] : i \in 1 .. Len(p)} : p \in Paths}

ASSUME PathsAssumption ==
  /\ Paths \subseteq Seq(Names)
  /\ \A p \in Paths : Len(p) > 0 /\ \A n \in 1 .. Len(p) : SubSeq(p, 1, n) \in Paths
  /\ LexicalDirs \subseteq Paths /\ HostRoots \subseteq Paths /\ AllowPaths \subseteq Paths
  /\ Nothing \notin Paths

Parent(p) == SubSeq(p, 1, Len(p) - 1)

(* p is q or lies below q.                                                 *)
Within(p, q) == Len(q) =< Len(p) /\ SubSeq(p, 1, Len(q)) = q

Below(p, q) == Within(p, q) /\ p # q

(* A written path: its form, the name it spells, whether the case differs  *)
(* from the one on the disk, and what PowerShell and .NET resolve it to;   *)
(* the two may differ for a relative path.                                 *)
Forms == {"full", "relative", "device", "short"}

Written(form, name, upper, ps, net) ==
  [form |-> form, name |-> name, upper |-> upper, ps |-> ps, net |-> net]

Full(p) == Written("full", p, FALSE, p, p)

-----------------------------------------------------------------------------
(* Protection.                                                             *)

(* Volume roots and share roots.                                           *)
IsRoot(p) == Len(p) = 1

IsProtectedPath(p) == IsRoot(p) \/ \E d \in LexicalDirs : Within(p, d)

(* The roots are unknown before the scan.                                  *)
Containing(p, scanned) == scanned /\ \E d \in HostRoots : Within(p, d)

RefuseResolved(p, scanned) == IsProtectedPath(p) \/ Containing(p, scanned)

(* A changed form: an entry covers itself.                                 *)
CoveredByItself(p) == {e \in AllowPaths : Within(p, e)}

(* A strict descendant of an entry, or an entry that is a root.            *)
WritePathAllowed(p) == {e \in AllowPaths : Below(p, e) \/ (IsRoot(e) /\ p = e)}

RefusedForm(r) == r.form \in {"device", "short"}

(* The one boundary of the write side: resolutions that are protected must *)
(* each be covered by an entry.                                            *)
BoundaryAllows(r, resolutions, scanned, link, directory) ==
  /\ ~RefusedForm(r)
  /\ ~link
  /\ ~directory
  /\ \A p \in resolutions : RefuseResolved(p, scanned) => WritePathAllowed(p) # {}

(* The paths whose permission by an entry goes into the audit.             *)
Permitted(resolutions, scanned) == {p \in resolutions : RefuseResolved(p, scanned)}

-----------------------------------------------------------------------------
(* Before the network: nothing is known of a relative path.                *)

Lexical(r) == IF r.form = "full" THEN {r.ps} ELSE {}

DecideWritePath(r) == BoundaryAllows(r, Lexical(r), FALSE, FALSE, FALSE)

(* A recursive deletion does not consult the allowlist.                    *)
DecideDeletePath(r) == ~RefusedForm(r) /\ \A p \in Lexical(r) : ~IsProtectedPath(p)

DecideNewName(r) == r.form = "name"

-----------------------------------------------------------------------------
(* After a scan.  seen is what the host reports of a path: its kind, or    *)
(* Nothing; a link is a name surrogate.                                    *)

DecideOverwrite(seen, directory, overwrite) ==
  seen = Nothing \/ (~directory /\ overwrite)

DecideFileOpSource(r, kind, nested, removes) ==
  /\ ~RefusedForm(r)
  /\ kind # "link"
  /\ ~removes => ~nested
  /\ removes => BoundaryAllows(r, {r.ps}, TRUE, FALSE, FALSE)

DecideFileOpTarget(r, seen, directory, overwrite) ==
  /\ BoundaryAllows(r, {r.ps, r.net}, TRUE, seen = "link", seen = "dir")
  /\ DecideOverwrite(seen, directory, overwrite)

(* The topmost missing level passes the boundary, too.                     *)
DecideCreateDirectory(r, seen, top) ==
  /\ seen = Nothing
  /\ BoundaryAllows(r, {r.ps, r.net}, TRUE, FALSE, FALSE)
  /\ top # Nothing => BoundaryAllows(r, {top}, TRUE, FALSE, FALSE)

DecideFileDelete(r, kind) ==
  kind # "dir" /\ BoundaryAllows(r, {r.ps}, TRUE, kind = "link", FALSE)

DecideDeleteScan(r, kind, nested, items, cap) ==
  /\ ~RefuseResolved(r.ps, TRUE)
  /\ kind # "link" /\ ~nested
  /\ items =< cap

(* Two spellings of one path.                                              *)
IsCaseOnlyChange(s, t) == s.form = t.form /\ s.name = t.name /\ s.upper # t.upper

DecidePathRelation(s, t, directory) == ~Within(t, s) /\ ~(directory /\ Within(s, t))

SameVolume(p, q) == p[1] = q[1]

DecideMoveVolume(p, q, directory) == SameVolume(p, q) \/ ~directory

=============================================================================
