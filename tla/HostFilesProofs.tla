-------------------------- MODULE HostFilesProofs --------------------------
(***************************************************************************)
(* Proofs about the file tools, for every set of paths, trees, calls and   *)
(* requests and every number of changes by others: a call changes what its *)
(* prompt showed or is known to leave out, an object at the target is      *)
(* replaced by agreement only, a protected path changes below an entry or  *)
(* where no verdict was about it, a move never loses its object, and what  *)
(* a call is told is true.                                                 *)
(***************************************************************************)
EXTENDS HostFiles, TLAPS, WellFoundedInduction

-----------------------------------------------------------------------------
(* The inductive invariant.                                                *)

Requests == UNION {FileRequests[c] : c \in FileCalls}

Kinds == {"file", "dir", "link", Nothing}

FileReplies == {"none", "refused", "ok", "warning", "error", "partial", "both", "lost"}

Stages == {"remove", "links", "source", "target", "walk", "make", "items", "copy", "measure",
           "delete", "move", "away", "back", "look"}

FileCallRecords ==
  [pc : Asked \cup {"idle", "host", "over"}, request : Requests \cup {Nothing}, kind : Kinds,
   mode : Modes \cup {Nothing}, from : Paths \cup {Nothing}, to : Paths \cup {Nothing},
   levels : SUBSET Paths, answer : {"open", "agreed", "refused"}, reply : FileReplies]

ScriptRecords ==
  [pc : Stages \cup {"none"}, origin : SUBSET (Seq(Names) \X Objects), seen : BOOLEAN,
   todo : SUBSET Paths, wrote : BOOLEAN]

Shape ==
  /\ fs \in [Paths -> Objects \cup {Nothing}]
  /\ call \in [FileCalls -> FileCallRecords]
  /\ script \in [FileCalls -> ScriptRecords]

(* The files are a tree: what is above an object is a directory, and the   *)
(* roots of the volumes stay.                                              *)
Rooted(f) ==
  /\ \A p \in Paths : IsRoot(p) => f[p] # Nothing /\ f[p].kind = "dir"
  /\ \A p, q \in Paths : f[p] # Nothing /\ Below(p, q) => f[q] # Nothing /\ f[q].kind = "dir"

TreeInv == Rooted(fs)

(* The prompt of a call is complete.                                       *)
Planned(c) ==
  /\ call[c].mode \in Modes /\ call[c].from \in Paths /\ call[c].to \in Paths
  /\ call[c].request \in FileRequests[c] /\ call[c].kind # Nothing
  /\ call[c].mode \in {"delete", "tree"} => ~IsRoot(call[c].from)

FileCallInv(c) ==
  /\ call[c].pc \in Asked \cup {"idle"} =>
       call[c].answer = "open" /\ call[c].reply = "none" /\ script[c] = NoScript
  /\ call[c].pc \in {"idle", "source", "target"} =>
       call[c].from = Nothing /\ call[c].to = Nothing /\ call[c].mode = Nothing
  /\ call[c].pc \in {"source", "target"} =>
       call[c].request \in FileRequests[c] /\ LexicallyAllowed(call[c].request)
  /\ call[c].pc = "target" /\ call[c].request.tool # "create_directory" =>
       call[c].kind # Nothing /\ call[c].request.source.ps \in Paths
  /\ call[c].pc = "prompt" => Planned(c)
  /\ call[c].pc = "host" => script[c].pc # "none" /\ call[c].reply = "none"
  /\ call[c].pc = "over" => call[c].answer # "open"
  /\ call[c].answer = "agreed" => Planned(c)

(* The steps of the host command of each kind of call.                     *)
WorkStages(mode) ==
  CASE mode = "delete" -> {"remove", "look"}
    [] mode = "tree"   -> {"links", "remove", "look"}
    [] mode = "copy"   -> {"source", "target", "walk", "make", "items", "copy", "measure"}
    [] mode = "rename" -> {"source", "target", "move", "look"}
    [] mode = "case"   -> {"source", "target", "away", "back"}
    [] mode = "cross"  -> {"source", "target", "copy", "measure", "delete", "look"}
    [] mode = "create" -> {"target", "make", "look"}

(* What a host command has made sure of.                                   *)
Legal(c, s) ==
  s.pc # "none" =>
    /\ s.pc \in WorkStages(call[c].mode)
    /\ s.pc = "move" /\ s.seen /\ call[c].kind = "file" => Request(c).overwrite
    /\ s.pc \in {"walk", "items"} => call[c].kind = "dir"
    /\ s.pc = "make" /\ call[c].mode = "copy" => call[c].kind = "dir"
    /\ s.pc \in {"measure", "delete"} => ~Within(call[c].from, call[c].to)
    /\ s.pc = "back" => ~IsRoot(call[c].from)

FileScriptInv(c) ==
  /\ script[c].pc # "none" => call[c].answer = "agreed"
  /\ Legal(c, script[c])

(* Only an agreed call has changed something.                              *)
HistoryInv == \A e \in changes : e.call \in FileCalls /\ call[e.call].answer = "agreed"

FilesInv ==
  /\ Shape /\ TreeInv /\ HistoryInv
  /\ \A c \in FileCalls : FileCallInv(c) /\ FileScriptInv(c)

-----------------------------------------------------------------------------
(* Protection.                                                             *)

Covered(p) == RefuseResolved(p, TRUE) => WritePathAllowed(p) # {}

InProtected(q) == \E d \in Dirs : Within(q, d)

(* What the verdicts say of the places of a call; the target of a change   *)
(* of case is the source, or was not judged.                               *)
Permits(mode, from, to) ==
  /\ mode \in {"delete", "rename", "case", "cross"} => Covered(from)
  /\ mode \in {"copy", "rename", "cross", "create"} => Covered(to)
  /\ mode = "tree" => ~RefuseResolved(from, TRUE)

(* The levels that a creation counts are judged with the topmost one.      *)
LevelsJudged(levels) == \A q \in levels : InProtected(q) => BelowEntry(q)

PermitInv(c) ==
  /\ call[c].pc = "prompt" \/ call[c].answer = "agreed" =>
       Permits(call[c].mode, call[c].from, call[c].to) /\ LevelsJudged(call[c].levels)
  /\ call[c].pc = "target" /\ call[c].request.tool \in {"move_file", "rename_file"} =>
       Covered(call[c].request.source.ps)

-----------------------------------------------------------------------------
(* Paths are sequences of names.                                           *)

Letters == Names \cup FileCalls

IsPath(p) == p \in Seq(Letters)

LEMMA PathIsSeq ==
  ASSUME NEW p \in Paths
  PROVE  IsPath(p) /\ p \in Seq(Names) /\ Len(p) \in Nat /\ Len(p) > 0
<1>1. p \in Seq(Names) /\ Len(p) > 0
  BY PathsAssumption
<1>2. Len(p) \in Nat /\ p \in [1 .. Len(p) -> Letters]
  BY <1>1 DEF Letters
<1>3. QED BY <1>1, <1>2 DEF IsPath

LEMMA PathLength == \A p : IsPath(p) => Len(p) \in Nat
  BY DEF IsPath

LEMMA PathPrefix ==
  ASSUME NEW p, IsPath(p), NEW n \in 0 .. Len(p)
  PROVE  /\ IsPath(SubSeq(p, 1, n)) /\ Len(SubSeq(p, 1, n)) = n
         /\ \A i \in 1 .. n : SubSeq(p, 1, n)[i] = p[i]
  BY DEF IsPath

(* A path within another one has all its names.                            *)
LEMMA WithinPoints ==
  ASSUME NEW p, NEW q, IsPath(p), IsPath(q)
  PROVE  Within(p, q) <=> Len(q) =< Len(p) /\ \A i \in 1 .. Len(q) : p[i] = q[i]
<1>1. Len(p) \in Nat /\ Len(q) \in Nat
  BY PathLength
<1>2. CASE Len(q) =< Len(p)
  <2>1. Len(q) \in 0 .. Len(p)
    BY <1>1, <1>2
  <2>2. /\ IsPath(SubSeq(p, 1, Len(q))) /\ Len(SubSeq(p, 1, Len(q))) = Len(q)
        /\ \A i \in 1 .. Len(q) : SubSeq(p, 1, Len(q))[i] = p[i]
    BY <2>1, PathPrefix
  <2>3. SubSeq(p, 1, Len(q)) = q <=> \A i \in 1 .. Len(q) : p[i] = q[i]
    BY <2>2 DEF IsPath
  <2>4. QED BY <1>2, <2>3 DEF Within
<1>3. CASE ~(Len(q) =< Len(p))
  BY <1>3 DEF Within
<1>4. QED BY <1>2, <1>3

LEMMA WithinSelf == \A p : IsPath(p) => Within(p, p)
<1> SUFFICES ASSUME NEW p, IsPath(p) PROVE Within(p, p)
  OBVIOUS
<1>1. Len(p) \in Nat
  BY PathLength
<1>2. QED BY <1>1, WithinPoints

LEMMA WithinTrans ==
  ASSUME NEW p, NEW q, NEW r, IsPath(p), IsPath(q), IsPath(r), Within(p, q), Within(q, r)
  PROVE  Within(p, r)
<1>1. Len(p) \in Nat /\ Len(q) \in Nat /\ Len(r) \in Nat
  BY PathLength
<1>2. QED BY <1>1, WithinPoints

LEMMA WithinBoth ==
  ASSUME NEW p, NEW q, IsPath(p), IsPath(q), Within(p, q), Len(p) =< Len(q)
  PROVE  p = q
<1>1. Len(p) \in Nat /\ Len(q) \in Nat
  BY PathLength
<1>2. Len(p) = Len(q) /\ \A i \in 1 .. Len(q) : p[i] = q[i]
  BY <1>1, WithinPoints
<1>3. QED BY <1>2 DEF IsPath

(* Two paths that hold a third one hold each other.                        *)
LEMMA WithinCompare ==
  ASSUME NEW p, NEW q, NEW r, IsPath(p), IsPath(q), IsPath(r),
         Within(p, q), Within(p, r), Len(q) =< Len(r)
  PROVE  Within(r, q)
<1>1. Len(p) \in Nat /\ Len(q) \in Nat /\ Len(r) \in Nat
  BY PathLength
<1>2. QED BY <1>1, WithinPoints

LEMMA WithinIsPath ==
  ASSUME NEW p \in Paths, NEW q, IsPath(q), Len(q) > 0, Within(p, q)
  PROVE  q \in Paths
<1>1. Len(q) \in 1 .. Len(p) /\ q = SubSeq(p, 1, Len(q))
  BY PathIsSeq, PathLength DEF Within
<1>2. QED BY <1>1, PathsAssumption

LEMMA ParentIsPath ==
  ASSUME NEW p, IsPath(p), Len(p) > 0
  PROVE  /\ IsPath(Parent(p)) /\ Len(Parent(p)) = Len(p) - 1 /\ Below(p, Parent(p))
         /\ p \in Paths /\ ~IsRoot(p) => Parent(p) \in Paths
<1>1. Len(p) \in Nat /\ Len(p) - 1 \in 0 .. Len(p)
  BY PathLength
<1>2. IsPath(Parent(p)) /\ Len(Parent(p)) = Len(p) - 1
  BY <1>1, PathPrefix DEF Parent
<1>3. Below(p, Parent(p))
  BY <1>1, <1>2 DEF Below, Within, Parent
<1>4. p \in Paths /\ ~IsRoot(p) => Parent(p) \in Paths
  BY <1>1, <1>2, <1>3, WithinIsPath DEF IsRoot, Below
<1>5. QED BY <1>2, <1>3, <1>4

(* What is below a path is within its parent.                              *)
LEMMA BelowParent ==
  ASSUME NEW p, NEW q, IsPath(p), IsPath(q), Len(p) > 0, Below(p, q)
  PROVE  Within(Parent(p), q)
<1>1. Len(p) \in Nat /\ Len(q) \in Nat /\ Within(p, q)
  BY PathLength DEF Below
<1>2. ~(Len(p) =< Len(q))
  BY <1>1, WithinBoth DEF Below
<1>3. IsPath(Parent(p)) /\ Len(Parent(p)) = Len(p) - 1 /\ Within(p, Parent(p))
  BY ParentIsPath DEF Below
<1>4. QED BY <1>1, <1>2, <1>3, WithinCompare

-----------------------------------------------------------------------------
(* A place under another name.                                             *)

(* The place of s, which is within q, when q is called p.                  *)
Moved(s, q, p) == p \o SubSeq(s, Len(q) + 1, Len(s))

(* m has the names of p and then those of s from q on.                     *)
IsMoved(m, s, q, p) ==
  /\ IsPath(m) /\ Len(m) = Len(p) + (Len(s) - Len(q))
  /\ \A i \in 1 .. Len(p) : m[i] = p[i]
  /\ \A i \in 1 .. Len(s) - Len(q) : m[Len(p) + i] = s[Len(q) + i]

LEMMA MovedPoints ==
  ASSUME NEW s, NEW q, NEW p, IsPath(s), IsPath(q), IsPath(p), Within(s, q)
  PROVE  IsMoved(Moved(s, q, p), s, q, p)
<1> DEFINE tail == SubSeq(s, Len(q) + 1, Len(s))
<1>1. Len(s) \in Nat /\ Len(q) \in Nat /\ Len(p) \in Nat /\ Len(q) =< Len(s)
  BY PathLength, WithinPoints
<1>2. /\ tail \in Seq(Letters) /\ Len(tail) = Len(s) - Len(q)
      /\ \A i \in 1 .. Len(s) - Len(q) : tail[i] = s[Len(q) + i]
  BY <1>1 DEF IsPath
<1> HIDE DEF tail
<1>3. /\ p \o tail \in Seq(Letters) /\ Len(p \o tail) = Len(p) + Len(tail)
      /\ \A i \in 1 .. Len(p) : (p \o tail)[i] = p[i]
      /\ \A i \in 1 .. Len(tail) : (p \o tail)[Len(p) + i] = tail[i]
  <2>1. p \in Seq(Letters) /\ tail \in Seq(Letters) /\ Len(tail) \in Nat
    BY <1>1, <1>2 DEF IsPath
  <2>2. p \o tail \in Seq(Letters) /\ Len(p \o tail) = Len(p) + Len(tail)
    BY <2>1
  <2>3. \A i \in 1 .. Len(p) + Len(tail) :
          (p \o tail)[i] = IF i =< Len(p) THEN p[i] ELSE tail[i - Len(p)]
    BY <2>1
  <2>4. ASSUME NEW i \in 1 .. Len(p) PROVE (p \o tail)[i] = p[i]
    BY <1>1, <2>1, <2>3
  <2>5. ASSUME NEW i \in 1 .. Len(tail) PROVE (p \o tail)[Len(p) + i] = tail[i]
    <3>1. Len(p) + i \in 1 .. Len(p) + Len(tail) /\ ~(Len(p) + i =< Len(p))
          /\ (Len(p) + i) - Len(p) = i
      BY <1>1, <2>1
    <3>2. QED BY <2>3, <3>1
  <2>6. QED BY <2>2, <2>4, <2>5
<1>4. Moved(s, q, p) = p \o tail
  BY DEF Moved, tail
<1>5. Len(tail) = Len(s) - Len(q)
  BY <1>2
<1>6. /\ IsPath(p \o tail) /\ Len(p \o tail) = Len(p) + (Len(s) - Len(q))
      /\ \A i \in 1 .. Len(p) : (p \o tail)[i] = p[i]
      /\ \A i \in 1 .. Len(s) - Len(q) : (p \o tail)[Len(p) + i] = s[Len(q) + i]
  BY <1>2, <1>3, <1>5 DEF IsPath
<1>7. QED BY <1>4, <1>6 DEF IsMoved

LEMMA MovedWithin ==
  ASSUME NEW s, NEW q, NEW p, IsPath(s), IsPath(q), IsPath(p), Within(s, q)
  PROVE  Within(Moved(s, q, p), p)
<1>1. Len(s) \in Nat /\ Len(q) \in Nat /\ Len(p) \in Nat /\ Len(q) =< Len(s)
  BY PathLength, WithinPoints
<1>2. IsMoved(Moved(s, q, p), s, q, p)
  BY MovedPoints
<1>3. QED BY <1>1, <1>2, WithinPoints DEF IsMoved

LEMMA MovedTree ==
  ASSUME NEW s, NEW t, NEW q, NEW p, IsPath(s), IsPath(t), IsPath(q), IsPath(p),
         Below(s, t), Within(t, q)
  PROVE  Within(s, q) /\ Below(Moved(s, q, p), Moved(t, q, p))
<1>1. /\ Len(s) \in Nat /\ Len(q) \in Nat /\ Len(p) \in Nat /\ Len(t) \in Nat
      /\ Len(q) =< Len(t) /\ Len(t) =< Len(s) /\ Within(s, t)
  BY PathLength, WithinPoints DEF Below
<1>2. Within(s, q)
  BY <1>1, WithinTrans
<1>3. Len(t) < Len(s)
  BY <1>1, WithinBoth DEF Below
<1>a. IsMoved(Moved(s, q, p), s, q, p) /\ IsMoved(Moved(t, q, p), t, q, p)
  BY <1>2, MovedPoints
<1> DEFINE m == Moved(s, q, p)
           n == Moved(t, q, p)
<1> HIDE DEF m, n
<1>4. /\ IsPath(m) /\ Len(m) = Len(p) + (Len(s) - Len(q))
      /\ \A i \in 1 .. Len(p) : m[i] = p[i]
      /\ \A i \in 1 .. Len(s) - Len(q) : m[Len(p) + i] = s[Len(q) + i]
  BY <1>a DEF IsMoved, m
<1>5. /\ IsPath(n) /\ Len(n) = Len(p) + (Len(t) - Len(q))
      /\ \A i \in 1 .. Len(p) : n[i] = p[i]
      /\ \A i \in 1 .. Len(t) - Len(q) : n[Len(p) + i] = t[Len(q) + i]
  BY <1>a DEF IsMoved, n
<1>6. ASSUME NEW i \in 1 .. Len(n) PROVE m[i] = n[i]
  <2>1. CASE i =< Len(p)
    BY <1>1, <1>4, <1>5, <2>1
  <2>2. CASE i > Len(p)
    <3>1. i - Len(p) \in 1 .. Len(t) - Len(q) /\ i = Len(p) + (i - Len(p))
      BY <1>1, <1>5, <2>2
    <3>a. i - Len(p) \in 1 .. Len(s) - Len(q)
      BY <1>1, <3>1
    <3>b. n[Len(p) + (i - Len(p))] = t[Len(q) + (i - Len(p))]
      BY <1>5, <3>1, Zenon
    <3>c. m[Len(p) + (i - Len(p))] = s[Len(q) + (i - Len(p))]
      BY <1>4, <3>a, Zenon
    <3>2. n[i] = t[Len(q) + (i - Len(p))] /\ m[i] = s[Len(q) + (i - Len(p))]
      BY <3>1, <3>b, <3>c, Zenon
    <3>3. Len(q) + (i - Len(p)) \in 1 .. Len(t)
      BY <1>1, <3>1
    <3>4. QED BY <1>1, <3>2, <3>3, WithinPoints
  <2>3. QED BY <1>1, <1>5, <2>1, <2>2
<1>7. Within(m, n)
  BY <1>1, <1>4, <1>5, <1>6, WithinPoints
<1>8. m # n
  BY <1>1, <1>3, <1>4, <1>5
<1>9. QED BY <1>2, <1>7, <1>8 DEF Below, m, n

(* The names come back with the old place.                                 *)
LEMMA MovedBack ==
  ASSUME NEW s, NEW q, NEW p, IsPath(s), IsPath(q), IsPath(p), Within(s, q)
  PROVE  Moved(Moved(s, q, p), p, q) = s
<1> DEFINE m == Moved(s, q, p)
           b == Moved(m, p, q)
<1>1. /\ Len(s) \in Nat /\ Len(q) \in Nat /\ Len(p) \in Nat /\ Len(q) =< Len(s)
      /\ \A i \in 1 .. Len(q) : s[i] = q[i]
  BY PathLength, WithinPoints
<1>2. /\ IsPath(m) /\ Len(m) = Len(p) + (Len(s) - Len(q)) /\ Within(m, p)
      /\ \A i \in 1 .. Len(s) - Len(q) : m[Len(p) + i] = s[Len(q) + i]
  <2>1. IsMoved(m, s, q, p) /\ Within(m, p)
    BY MovedPoints, MovedWithin
  <2>2. QED BY <2>1 DEF IsMoved
<1> HIDE DEF m
<1>3. /\ IsPath(b) /\ Len(b) = Len(q) + (Len(m) - Len(p))
      /\ \A i \in 1 .. Len(q) : b[i] = q[i]
      /\ \A i \in 1 .. Len(m) - Len(p) : b[Len(q) + i] = m[Len(p) + i]
  <2>1. IsMoved(b, m, p, q)
    BY <1>2, MovedPoints
  <2>2. QED BY <2>1 DEF IsMoved
<1> HIDE DEF b
<1>4. Len(b) = Len(s)
  BY <1>1, <1>2, <1>3
<1>5. ASSUME NEW i \in 1 .. Len(s) PROVE b[i] = s[i]
  <2>1. CASE i =< Len(q)
    BY <1>1, <1>3, <2>1
  <2>2. CASE i > Len(q)
    <3>1. i - Len(q) \in 1 .. Len(s) - Len(q) /\ i = Len(q) + (i - Len(q))
      BY <1>1, <2>2
    <3>2. Len(m) - Len(p) = Len(s) - Len(q)
      BY <1>1, <1>2
    <3>3. QED BY <1>2, <1>3, <3>1, <3>2
  <2>3. QED BY <1>1, <2>1, <2>2
<1>6. b = s
  BY <1>3, <1>4, <1>5 DEF IsPath
<1>7. QED BY <1>6 DEF b, m

-----------------------------------------------------------------------------
(* The files of the host.                                                  *)

Files == [Paths -> Objects \cup {Nothing}]

LEMMA ObjectKinds ==
  /\ \A o \in Objects : o # Nothing /\ o.kind \in {"file", "dir", "link"} /\ o.kind # Nothing
  /\ \A o \in Objects : o.kind = "dir" => o = Directory
  /\ Directory \in Objects
  BY TreesAssumption DEF Objects, Directory

LEMMA KindOf ==
  ASSUME fs \in Files, NEW p
  PROVE  /\ Kind(p) = Nothing <=> p \notin Paths \/ fs[p] = Nothing
         /\ Kind(p) # Nothing => /\ p \in Paths /\ fs[p] \in Objects /\ fs[p].kind = Kind(p)
                                 /\ Kind(p) \in {"file", "dir", "link"}
<1>1. p \in Paths /\ fs[p] # Nothing => fs[p] \in Objects
  BY DEF Files
<1>2. QED BY <1>1, ObjectKinds DEF Kind

LEMMA ParentDir ==
  ASSUME fs \in Files, NEW p \in Paths, ParentIsDir(p)
  PROVE  ~IsRoot(p) /\ Parent(p) \in Paths /\ fs[Parent(p)] # Nothing /\ fs[Parent(p)].kind = "dir"
<1>1. Kind(Parent(p)) # Nothing
  BY TreesAssumption DEF ParentIsDir
<1>2. Parent(p) \in Paths /\ fs[Parent(p)] # Nothing /\ fs[Parent(p)].kind = "dir"
  BY <1>1, KindOf DEF ParentIsDir
<1>3. IsPath(p) /\ Len(p) > 0 /\ Len(p) \in Nat /\ Len(Parent(p)) = Len(p) - 1
      /\ Len(Parent(p)) > 0
  BY <1>2, PathIsSeq, ParentIsPath
<1>4. QED BY <1>2, <1>3 DEF IsRoot

(* Only a directory has something below it.                                *)
LEMMA NoContent ==
  ASSUME fs \in Files, TreeInv, NEW p, Kind(p) # "dir"
  PROVE  Content(p) = {} /\ \A q \in Paths : Within(q, p) /\ q # p /\ p \in Paths => fs[q] = Nothing
<1>1. ASSUME NEW q \in Paths, Within(q, p), q # p, p \in Paths, fs[q] # Nothing PROVE FALSE
  <2>1. Below(q, p)
    BY <1>1 DEF Below
  <2>2. fs[p] # Nothing /\ fs[p].kind = "dir"
    BY <1>1, <2>1 DEF TreeInv, Rooted
  <2>3. QED BY <1>1, <2>2 DEF Kind
<1>2. QED BY <1>1 DEF Content, Tree, Subtrees

LEMMA AtKeeps ==
  ASSUME fs \in Files, TreeInv, NEW p \in Paths, NEW o \in Objects \cup {Nothing},
         ~IsRoot(p), Content(p) = {}, o # Nothing => ParentIsDir(p)
  PROVE  At(p, o) \in Files /\ Rooted(At(p, o))
<1> DEFINE f == At(p, o)
<1>1. f \in Files /\ f[p] = o /\ \A q \in Paths \ {p} : f[q] = fs[q]
  BY DEF Files, At
<1> HIDE DEF f
<1>2. ASSUME NEW x \in Paths, IsRoot(x) PROVE f[x] # Nothing /\ f[x].kind = "dir"
  BY <1>1, <1>2 DEF TreeInv, Rooted
<1>3. ASSUME NEW x \in Paths, NEW y \in Paths, f[x] # Nothing, Below(x, y)
      PROVE  f[y] # Nothing /\ f[y].kind = "dir"
  <2>1. CASE x = p
    <3>1. fs[Parent(p)] # Nothing /\ fs[Parent(p)].kind = "dir" /\ Parent(p) \in Paths
      BY <1>1, <1>3, <2>1, ParentDir
    <3>2. Within(Parent(p), y)
      BY <1>3, <2>1, PathIsSeq, BelowParent
    <3>3. fs[y] # Nothing /\ fs[y].kind = "dir"
      BY <3>1, <3>2 DEF TreeInv, Rooted, Below
    <3>4. QED BY <1>1, <1>3, <2>1, <3>3 DEF Below
  <2>2. CASE x # p
    <3>1. fs[x] # Nothing
      BY <1>1, <1>3, <2>2
    <3>2. y # p
      BY <1>3, <3>1 DEF Content, Tree, Subtrees, Below
    <3>3. QED BY <1>1, <1>3, <3>1, <3>2 DEF TreeInv, Rooted
  <2>3. QED BY <2>1, <2>2
<1>4. QED BY <1>1, <1>2, <1>3 DEF Rooted, f

LEMMA MadeKeeps ==
  ASSUME fs \in Files, TreeInv, NEW p \in Paths, MayMake(p)
  PROVE  Made(p) \in Files /\ Rooted(Made(p))
<1> DEFINE f == Made(p)
<1>1. /\ f \in Files
      /\ \A q \in Paths : f[q] = IF Within(p, q) /\ fs[q] = Nothing THEN Directory ELSE fs[q]
  BY ObjectKinds DEF Files, Made, MissingLevels, Levels
<1> HIDE DEF f
<1>2. ASSUME NEW q \in Paths, Within(p, q) PROVE f[q] # Nothing /\ f[q].kind = "dir"
  <2>1. Kind(q) \in {Nothing, "dir"}
    BY <1>2 DEF MayMake, Levels
  <2>2. CASE fs[q] = Nothing
    BY <1>1, <1>2, <2>2, ObjectKinds DEF Directory
  <2>3. CASE fs[q] # Nothing
    BY <1>1, <2>1, <2>3, KindOf
  <2>4. QED BY <2>2, <2>3
<1>3. ASSUME NEW x \in Paths, IsRoot(x) PROVE f[x] # Nothing /\ f[x].kind = "dir"
  BY <1>1, <1>3 DEF TreeInv, Rooted
<1>4. ASSUME NEW x \in Paths, NEW y \in Paths, f[x] # Nothing, Below(x, y)
      PROVE  f[y] # Nothing /\ f[y].kind = "dir"
  <2>1. CASE fs[x] = Nothing
    <3>1. Within(p, x)
      BY <1>1, <1>4, <2>1
    <3>2. Within(p, y)
      BY <1>4, <3>1, PathIsSeq, WithinTrans DEF Below
    <3>3. QED BY <1>2, <3>2
  <2>2. CASE fs[x] # Nothing
    BY <1>1, <1>4, <2>2 DEF TreeInv, Rooted
  <2>3. QED BY <2>1, <2>2
<1>5. QED BY <1>1, <1>3, <1>4 DEF Rooted, f

LEMMA RenamedIs ==
  ASSUME NEW p, NEW q, NEW s \in Paths
  PROVE  Renamed(p, q)[s] =
           IF Within(s, q) THEN (IF Moved(s, q, p) \in Paths THEN fs[Moved(s, q, p)] ELSE Nothing)
           ELSE IF Within(s, p) THEN Nothing ELSE fs[s]
  BY DEF Renamed, Moved

LEMMA RenamedKeeps ==
  ASSUME fs \in Files, TreeInv, NEW p \in Paths, NEW q \in Paths, ~IsRoot(p),
         ParentIsDir(q), ~Within(q, p)
  PROVE  Renamed(p, q) \in Files /\ Rooted(Renamed(p, q))
<1> DEFINE f == Renamed(p, q)
<1>1. f \in Files
  BY DEF Files, Renamed
<1>2. ASSUME NEW s \in Paths
      PROVE  f[s] = IF Within(s, q) THEN (IF Moved(s, q, p) \in Paths THEN fs[Moved(s, q, p)] ELSE Nothing)
                    ELSE IF Within(s, p) THEN Nothing ELSE fs[s]
  BY RenamedIs
<1> HIDE DEF f
<1>3. IsPath(p) /\ IsPath(q) /\ Len(p) \in Nat /\ Len(q) \in Nat /\ Len(p) > 1 /\ Len(q) > 1
  <2>1. ~IsRoot(q)
    BY ParentDir
  <2>2. IsPath(p) /\ Len(p) \in Nat /\ Len(p) > 0 /\ IsPath(q) /\ Len(q) \in Nat /\ Len(q) > 0
    BY PathIsSeq
  <2>3. Len(p) # 1 /\ Len(q) # 1
    BY <2>1 DEF IsRoot
  <2>4. \A n \in Nat : n > 0 /\ n # 1 => n > 1
    OBVIOUS
  <2>5. Len(p) > 1 /\ Len(q) > 1
    BY <2>2, <2>3, <2>4, Zenon
  <2>6. QED BY <2>2, <2>5
<1>4. ASSUME NEW x \in Paths, IsRoot(x) PROVE f[x] # Nothing /\ f[x].kind = "dir"
  <2>1. ~Within(x, q) /\ ~Within(x, p)
    BY <1>3, <1>4 DEF Within, IsRoot
  <2>2. QED BY <1>2, <1>4, <2>1 DEF TreeInv, Rooted
<1>5. ASSUME NEW x \in Paths, NEW y \in Paths, f[x] # Nothing, Below(x, y)
      PROVE  f[y] # Nothing /\ f[y].kind = "dir"
  <2>0. IsPath(x) /\ IsPath(y) /\ Len(y) \in Nat /\ Len(y) > 0 /\ Within(x, y)
    BY <1>5, PathIsSeq DEF Below
  <2>1. CASE Within(x, q) /\ Within(y, q)
    <3>1. Below(Moved(x, q, p), Moved(y, q, p))
      BY <1>3, <1>5, <2>0, <2>1, MovedTree
    <3>2. Moved(x, q, p) \in Paths /\ fs[Moved(x, q, p)] # Nothing
      BY <1>2, <1>5, <2>1
    <3>3. IsMoved(Moved(y, q, p), y, q, p)
      BY <1>3, <2>0, <2>1, MovedPoints
    <3>4. IsPath(Moved(y, q, p)) /\ Len(Moved(y, q, p)) > 0
      <4>1. Len(q) =< Len(y)
        BY <2>1 DEF Within
      <4>2. QED BY <1>3, <2>0, <3>3, <4>1 DEF IsMoved
    <3>5. Moved(y, q, p) \in Paths
      BY <3>1, <3>2, <3>4, WithinIsPath DEF Below
    <3>6. fs[Moved(y, q, p)] # Nothing /\ fs[Moved(y, q, p)].kind = "dir"
      BY <3>1, <3>2, <3>5 DEF TreeInv, Rooted
    <3>7. QED BY <1>2, <2>1, <3>5, <3>6
  <2>2. CASE Within(x, q) /\ ~Within(y, q)
    <3>1. ~(Len(q) =< Len(y))
      BY <1>3, <2>0, <2>2, WithinCompare
    <3>2. Within(q, y)
      BY <1>3, <2>0, <2>2, <3>1, WithinCompare
    <3>3. Below(q, y)
      BY <3>1, <3>2, <1>3 DEF Below
    <3>4. Within(Parent(q), y)
      BY <1>3, <2>0, <3>3, BelowParent
    <3>5. fs[Parent(q)] # Nothing /\ fs[Parent(q)].kind = "dir" /\ Parent(q) \in Paths
      BY ParentDir
    <3>6. fs[y] # Nothing /\ fs[y].kind = "dir"
      BY <3>4, <3>5 DEF TreeInv, Rooted, Below
    <3>7. ~Within(y, p)
      BY <1>3, <2>0, <3>2, WithinTrans
    <3>8. QED BY <1>2, <2>2, <3>6, <3>7
  <2>3. CASE ~Within(x, q)
    <3>1. ~Within(x, p) /\ fs[x] # Nothing
      BY <1>2, <1>5, <2>3
    <3>2. ~Within(y, q) /\ ~Within(y, p)
      BY <1>3, <2>0, <2>3, <3>1, WithinTrans
    <3>3. QED BY <1>2, <1>5, <3>1, <3>2 DEF TreeInv, Rooted
  <2>4. QED BY <2>1, <2>2, <2>3
<1>6. QED BY <1>1, <1>4, <1>5 DEF Rooted, f

-----------------------------------------------------------------------------
(* What a step of a host command does to the calls and the commands.       *)

LEMMA WorksOf ==
  ASSUME NEW m \in Modes, NEW s, s \in WorkStages(m)
  PROVE  /\ s = "source" => m \in {"copy", "rename", "case", "cross"}
         /\ s = "target" => m \in {"copy", "rename", "case", "cross", "create"}
         /\ s \in {"walk", "items"} => m = "copy"
         /\ s = "make" => m \in {"copy", "create"}
         /\ s \in {"copy", "measure"} => m \in {"copy", "cross"}
         /\ s = "delete" => m = "cross"
         /\ s = "move" => m = "rename"
         /\ s \in {"away", "back"} => m = "case"
         /\ s = "look" => m \in {"delete", "tree", "rename", "cross", "create"}
         /\ s = "remove" => m \in {"delete", "tree"}
         /\ s = "links" => m = "tree"
  BY DEF Modes, WorkStages

(* The answer ends the call if anybody still waits for it.                 *)
Answered(c) ==
  \/ call' = call /\ (AtCall(c, "host") => script'[c].pc # "none")
  \/ /\ AtCall(c, "host") /\ script'[c].pc = "none"
     /\ \E reply \in FileReplies \ {"none"} :
          call' = [call EXCEPT ![c] = [call[c] EXCEPT !.pc = "over", !.reply = reply]]

(* A step of the host command of c touches no other call.                  *)
HostFrame(c) ==
  /\ script' \in [FileCalls -> ScriptRecords]
  /\ \A d \in FileCalls \ {c} : script'[d] = script[d]
  /\ Answered(c)

(* A command that runs belongs to an agreed and complete call.             *)
LEMMA ScriptRuns ==
  ASSUME FilesInv, NEW c \in FileCalls, script[c].pc # "none"
  PROVE  /\ call[c].answer = "agreed" /\ Planned(c) /\ script[c].pc \in WorkStages(call[c].mode)
         /\ call[c] \in FileCallRecords /\ script[c] \in ScriptRecords
         /\ call[c].pc \in {"host", "over"}
<1>1. call[c].answer = "agreed" /\ script[c].pc \in WorkStages(call[c].mode)
  BY DEF FilesInv, FileScriptInv, Legal
<1>2. Planned(c)
  BY <1>1 DEF FilesInv, FileCallInv
<1>3. call[c] \in FileCallRecords /\ script[c] \in ScriptRecords
  BY DEF FilesInv, Shape
<1>4. call[c].pc \in {"host", "over"}
  BY <1>1, <1>3 DEF FilesInv, FileCallInv, FileCallRecords
<1>5. QED BY <1>1, <1>2, <1>3, <1>4

LEMMA FilesOverIs ==
  ASSUME FilesInv, NEW c \in FileCalls, NEW reply, FilesOver(c, reply)
  PROVE  call' = [call EXCEPT ![c] =
           [call[c] EXCEPT !.pc = "over", !.reply = reply,
                           !.answer = IF call[c].answer = "open" THEN "refused" ELSE call[c].answer]]
  BY DEF FilesInv, Shape, FileCallRecords, FilesOver

LEMMA EndsFrame ==
  ASSUME FilesInv, NEW c \in FileCalls, script[c].pc # "none",
         NEW reply \in FileReplies \ {"none"}, Ends(c, reply)
  PROVE  HostFrame(c) /\ script'[c].pc = "none"
<1>1. call[c].answer = "agreed" /\ call[c] \in FileCallRecords
  BY ScriptRuns
<1>2. script \in [FileCalls -> ScriptRecords] /\ call \in [FileCalls -> FileCallRecords]
  BY DEF FilesInv, Shape
<1>3. script' = [script EXCEPT ![c] = [script[c] EXCEPT !.pc = "none", !.todo = {}]]
  BY <1>2 DEF Ends, ScriptRecords
<1>4. [script[c] EXCEPT !.pc = "none", !.todo = {}] \in ScriptRecords
  BY <1>2 DEF ScriptRecords
<1>5. /\ script' \in [FileCalls -> ScriptRecords] /\ script'[c].pc = "none"
      /\ \A d \in FileCalls \ {c} : script'[d] = script[d]
  BY <1>2, <1>3, <1>4 DEF ScriptRecords
<1>6. CASE AtCall(c, "host")
  <2>1. call' = [call EXCEPT ![c] =
           [call[c] EXCEPT !.pc = "over", !.reply = reply,
                           !.answer = IF call[c].answer = "open" THEN "refused" ELSE call[c].answer]]
    BY <1>6, FilesOverIs DEF Ends
  <2>2. [call[c] EXCEPT !.pc = "over", !.reply = reply,
                        !.answer = IF call[c].answer = "open" THEN "refused" ELSE call[c].answer]
          = [call[c] EXCEPT !.pc = "over", !.reply = reply]
    BY <1>1 DEF FileCallRecords
  <2>3. QED BY <1>5, <1>6, <2>1, <2>2 DEF HostFrame, Answered
<1>7. CASE ~AtCall(c, "host")
  BY <1>5, <1>7 DEF HostFrame, Answered, Ends
<1>8. QED BY <1>5, <1>6, <1>7

LEMMA BlameIs == \A c : Blame(c) \in FileReplies \ {"none"}
  BY DEF Blame, FileReplies

LEMMA ThrowsFrame ==
  ASSUME FilesInv, NEW c \in FileCalls, script[c].pc # "none", Throws(c)
  PROVE  HostFrame(c) /\ script'[c].pc = "none"
  BY BlameIs, EndsFrame DEF Throws

(* A step of the command itself.                                           *)
LEMMA StepFrame ==
  ASSUME FilesInv, NEW c \in FileCalls, NEW q \in ScriptRecords, q.pc # "none", UNCHANGED call,
         script' = [script EXCEPT ![c] = q]
  PROVE  HostFrame(c) /\ script'[c] = q
  BY DEF FilesInv, Shape, HostFrame, Answered

LEMMA StepIs ==
  ASSUME FilesInv, NEW c \in FileCalls, NEW pc \in Stages, UNCHANGED call, Step(c, pc)
  PROVE  HostFrame(c) /\ script'[c] = [script[c] EXCEPT !.pc = pc] /\ script'[c].pc = pc
<1>1. script \in [FileCalls -> ScriptRecords]
  BY DEF FilesInv, Shape
<1>2. [script[c] EXCEPT !.pc = pc] \in ScriptRecords /\ [script[c] EXCEPT !.pc = pc].pc = pc
      /\ pc # "none"
  BY <1>1 DEF ScriptRecords, Stages
<1>3. script' = [script EXCEPT ![c] = [script[c] EXCEPT !.pc = pc]]
  BY <1>1 DEF Step
<1>4. QED BY <1>2, <1>3, StepFrame

-----------------------------------------------------------------------------
(* What a host command does to the files.                                  *)

(* A place that the command of c may change: in the object it takes away,  *)
(* in its target, under the temporary name, or a missing directory above   *)
(* the target of a call that makes those.                                  *)
Reaches(c, q) ==
  \/ call[c].mode \in {"delete", "tree", "rename", "case", "cross"} /\ Within(q, call[c].from)
  \/ call[c].mode \in {"copy", "rename", "case", "cross", "create"} /\ Within(q, call[c].to)
  \/ call[c].mode = "case" /\ ~IsRoot(call[c].from) /\ Within(q, TempPath(c))
  \/ MakesLevels(c) /\ Within(call[c].to, q) /\ fs[q] = Nothing

(* TR-FS-08 for one place; what is made above a target is a directory.     *)
Replaces(c, q, new) ==
  /\ (/\ call[c].mode \in {"copy", "rename", "cross", "create"}
      /\ Within(q, call[c].to) /\ fs[q] # Nothing)
     => Request(c).overwrite /\ fs[q].kind = "file" /\ new[q].kind = "file"
  /\ MakesLevels(c) /\ ~Within(q, call[c].to) => new[q] = Directory

Lawful(c, new) ==
  /\ new \in Files /\ Rooted(new)
  /\ \A q \in Paths : new[q] # fs[q] => Reaches(c, q) /\ Replaces(c, q, new)

FileScriptStep(c) ==
  /\ HostFrame(c) /\ Legal(c, script'[c])
  /\ Looks \/ (Changes(c, fs') /\ Lawful(c, fs'))

LEMMA ChangesIs ==
  ASSUME NEW c, NEW new, Changes(c, new)
  PROVE  fs' = new /\ Changes(c, fs')
  BY DEF Changes, Disturb

LEMMA NotDir == Nothing # "dir" /\ Nothing # "file" /\ Nothing # "link"
  BY TreesAssumption

LEMMA StoppedIsLegal ==
  ASSUME NEW c, NEW s, s.pc = "none"
  PROVE  Legal(c, s)
  BY DEF Legal

LEMMA Shaped ==
  ASSUME FilesInv
  PROVE  fs \in Files /\ TreeInv /\ call \in [FileCalls -> FileCallRecords] /\ script \in [FileCalls -> ScriptRecords]
  BY DEF FilesInv, Shape, Files

LEMMA HostThrowsStep ==
  ASSUME FilesInv, NEW c \in FileCalls, HostThrows(c)
  PROVE  FileScriptStep(c)
<1>1. script[c].pc # "none" /\ Throws(c) /\ Looks
  BY DEF HostThrows, Looks
<1>2. HostFrame(c) /\ script'[c].pc = "none"
  BY <1>1, ThrowsFrame
<1>3. QED BY <1>1, <1>2, StoppedIsLegal DEF FileScriptStep

LEMMA ImageType ==
  ASSUME FilesInv, NEW p \in Paths
  PROVE  Image(p) \in SUBSET (Seq(Names) \X Objects)
<1>1. ASSUME NEW q \in Paths, Within(q, p), fs[q] # Nothing
      PROVE  SubSeq(q, Len(p) + 1, Len(q)) \in Seq(Names) /\ fs[q] \in Objects
  <2>1. q \in Seq(Names) /\ Len(q) \in Nat /\ Len(p) \in Nat
    BY PathIsSeq
  <2>2. SubSeq(q, Len(p) + 1, Len(q)) \in Seq(Names)
    BY <2>1
  <2>3. QED BY <1>1, <2>2, Shaped DEF Files
<1>2. {r \in Tree(p) : fs[r] # Nothing} = {r \in Paths : Within(r, p) /\ fs[r] # Nothing}
  BY DEF Tree, Subtrees
<1>3. ASSUME NEW e \in Image(p) PROVE e \in Seq(Names) \X Objects
  <2>1. PICK q \in {r \in Tree(p) : fs[r] # Nothing} : e = <<SubSeq(q, Len(p) + 1, Len(q)), fs[q]>>
    BY DEF Image
  <2>2. SubSeq(q, Len(p) + 1, Len(q)) \in Seq(Names) /\ fs[q] \in Objects
    BY <1>1, <1>2, <2>1
  <2>3. QED BY <2>1, <2>2
<1>4. QED BY <1>3

LEMMA CheckSourceStep ==
  ASSUME FilesInv, NEW c \in FileCalls, CheckSource(c)
  PROVE  FileScriptStep(c)
<1>1. script[c].pc = "source" /\ Looks
  BY DEF CheckSource
<1>2. /\ Planned(c) /\ script[c] \in ScriptRecords
      /\ call[c].mode \in {"copy", "rename", "case", "cross"}
  BY <1>1, ScriptRuns, WorksOf DEF Planned
<1>3. CASE Throws(c)
  BY <1>1, <1>3, ThrowsFrame, StoppedIsLegal DEF FileScriptStep
<1>4. CASE ~Throws(c)
  <2> DEFINE q == [script[c] EXCEPT !.pc = "target", !.origin = Image(call[c].from)]
  <2>1. script' = [script EXCEPT ![c] = q] /\ UNCHANGED call
    BY <1>4, Shaped DEF CheckSource, ScriptRecords
  <2>2. Image(call[c].from) \in SUBSET (Seq(Names) \X Objects)
    BY <1>2, ImageType DEF Planned
  <2>3. q \in ScriptRecords /\ q.pc = "target"
    BY <1>2, <2>2 DEF ScriptRecords, Stages
  <2> HIDE DEF q
  <2>4. HostFrame(c) /\ script'[c] = q
    BY <2>1, <2>3, StepFrame
  <2>5. Legal(c, q)
    BY <1>2, <2>3 DEF Legal, WorkStages
  <2>6. QED BY <1>1, <2>4, <2>5 DEF FileScriptStep
<1>5. QED BY <1>3, <1>4

LEMMA CheckTargetStep ==
  ASSUME FilesInv, NEW c \in FileCalls, CheckTarget(c)
  PROVE  FileScriptStep(c)
<1>1. script[c].pc = "target" /\ Looks
  BY DEF CheckTarget
<1>2. /\ Planned(c) /\ script[c] \in ScriptRecords
      /\ call[c].mode \in {"copy", "rename", "case", "cross", "create"}
  BY <1>1, ScriptRuns, WorksOf DEF Planned
<1>3. CASE ~TargetPasses(c)
  <2>1. Throws(c)
    BY <1>3 DEF CheckTarget
  <2>2. QED BY <1>1, <2>1, ThrowsFrame, StoppedIsLegal DEF FileScriptStep
<1>4. CASE TargetPasses(c)
  <2> DEFINE q == [script[c] EXCEPT !.pc = NextStep(c), !.wrote = NextStep(c) = "copy",
                                    !.seen = Kind(call[c].to) # Nothing]
  <2>1. script' = [script EXCEPT ![c] = q] /\ UNCHANGED call
    BY <1>4, Shaped DEF CheckTarget, ScriptRecords
  <2>2. /\ NextStep(c) \in WorkStages(call[c].mode) /\ NextStep(c) \in Stages
        /\ NextStep(c) \in {"walk", "copy", "move", "away", "make"}
        /\ NextStep(c) = "move" => call[c].mode = "rename"
        /\ NextStep(c) = "walk" => call[c].kind = "dir"
        /\ NextStep(c) = "make" => call[c].mode = "create"
    BY <1>2 DEF NextStep, WorkStages, Stages
  <2>3. q \in ScriptRecords /\ q.pc = NextStep(c) /\ q.seen = (Kind(call[c].to) # Nothing)
    BY <1>2, <2>2 DEF ScriptRecords
  <2> HIDE DEF q
  <2>4. HostFrame(c) /\ script'[c] = q
    BY <2>1, <2>2, <2>3, StepFrame
  <2>5. q.pc = "move" /\ q.seen /\ call[c].kind = "file" => Request(c).overwrite
    BY <1>4, <2>2, <2>3 DEF TargetPasses
  <2>6. Legal(c, q)
    BY <2>2, <2>3, <2>5 DEF Legal
  <2>7. QED BY <1>1, <2>4, <2>6 DEF FileScriptStep
<1>5. QED BY <1>3, <1>4

LEMMA AtLawful ==
  ASSUME FilesInv, NEW c, NEW p \in Paths, NEW o \in Objects \cup {Nothing},
         ~IsRoot(p), Content(p) = {}, o # Nothing => ParentIsDir(p),
         Reaches(c, p), Replaces(c, p, At(p, o))
  PROVE  Lawful(c, At(p, o))
<1>1. At(p, o) \in Files /\ Rooted(At(p, o))
  BY Shaped, AtKeeps
<1>2. \A q \in Paths : At(p, o)[q] # fs[q] => q = p
  BY Shaped DEF At, Files
<1>3. QED BY <1>1, <1>2 DEF Lawful

LEMMA AtPoint == ASSUME FilesInv, NEW p \in Paths, NEW o PROVE At(p, o)[p] = o
  BY Shaped DEF At, Files

(* A file is written to a place that MayWrite lets pass.                   *)
LEMMA WriteLawful ==
  ASSUME FilesInv, NEW c, NEW p \in Paths, NEW o \in Objects, o.kind = "file", MayWrite(c, p),
         call[c].mode \in {"copy", "cross"}, Within(p, call[c].to)
  PROVE  Lawful(c, At(p, o))
<1>1. ~IsRoot(p) /\ ParentIsDir(p) /\ Kind(p) # "dir"
  BY Shaped, ParentDir, NotDir DEF MayWrite
<1>2. Content(p) = {}
  BY <1>1, Shaped, NoContent
<1>3. fs[p] # Nothing => fs[p].kind = "file" /\ Request(c).overwrite
  BY Shaped, KindOf DEF MayWrite
<1>4. Replaces(c, p, At(p, o))
  BY <1>3, AtPoint DEF Replaces
<1>5. Reaches(c, p)
  BY DEF Reaches
<1>6. QED BY <1>1, <1>2, <1>4, <1>5, AtLawful

LEMMA CopyFileStep ==
  ASSUME FilesInv, NEW c \in FileCalls, CopyFile(c)
  PROVE  FileScriptStep(c)
<1> DEFINE from == call[c].from
           to == call[c].to
<1>1. /\ script[c].pc = "copy" /\ Kind(from) = "file" /\ from # to /\ MayWrite(c, to)
  BY DEF CopyFile
<1>2. PICK copy \in {fs[from], [kind |-> "file", data |-> Part]} :
        /\ Changes(c, At(to, copy))
        /\ \/ Step(c, "measure") /\ UNCHANGED call
           \/ copy.data = Part /\ Ends(c, "partial")
  BY DEF CopyFile
<1>3. Planned(c) /\ script[c] \in ScriptRecords /\ call[c].mode \in {"copy", "cross"}
      /\ script[c].pc # "none"
  BY <1>1, ScriptRuns, WorksOf DEF Planned
<1>4. from \in Paths /\ to \in Paths /\ IsPath(from) /\ IsPath(to)
  BY <1>3, PathIsSeq DEF Planned
<1>5. copy \in Objects /\ copy.kind = "file"
  <2>1. fs[from] \in Objects /\ fs[from].kind = "file"
    BY <1>1, Shaped, KindOf, NotDir
  <2>2. [kind |-> "file", data |-> Part] \in Objects
    BY DEF Objects
  <2>3. QED BY <2>1, <2>2
<1>6. Lawful(c, At(to, copy))
  BY <1>1, <1>3, <1>4, <1>5, WithinSelf, WriteLawful
<1>7. Changes(c, fs') /\ Lawful(c, fs')
  BY <1>2, <1>6, ChangesIs
<1>8. ~Within(from, to)
  <2>1. SUFFICES ASSUME Within(from, to) PROVE FALSE
    OBVIOUS
  <2>2. Kind(to) = "dir"
    <3>1. fs[from] # Nothing /\ Below(from, to)
      BY <1>1, <1>4, <2>1, Shaped, KindOf, NotDir DEF Below
    <3>2. QED BY <1>4, <3>1, Shaped DEF TreeInv, Rooted, Kind
  <2>3. QED BY <1>1, <2>2, NotDir DEF MayWrite
<1>9. CASE Step(c, "measure") /\ UNCHANGED call
  <2>1. HostFrame(c) /\ script'[c].pc = "measure"
    BY <1>9, StepIs DEF Stages
  <2>2. Legal(c, script'[c])
    BY <1>3, <1>8, <2>1 DEF Legal, WorkStages
  <2>3. QED BY <1>7, <2>1, <2>2 DEF FileScriptStep
<1>10. CASE Ends(c, "partial")
  <2>1. HostFrame(c) /\ script'[c].pc = "none"
    BY <1>3, <1>10, EndsFrame DEF FileReplies
  <2>2. QED BY <1>7, <2>1, StoppedIsLegal DEF FileScriptStep
<1>11. QED BY <1>2, <1>9, <1>10

LEMMA MeasureCopyStep ==
  ASSUME FilesInv, NEW c \in FileCalls, MeasureCopy(c)
  PROVE  FileScriptStep(c)
<1>1. script[c].pc = "measure" /\ Looks
  BY DEF MeasureCopy
<1>2. /\ script[c] \in ScriptRecords /\ script[c].pc # "none" /\ Legal(c, script[c])
      /\ call[c].mode \in {"copy", "cross"}
  BY <1>1, ScriptRuns, WorksOf DEF Planned, FilesInv, FileScriptInv
<1>3. \/ Throws(c) \/ (call[c].mode = "copy" /\ Ends(c, "ok"))
      \/ (call[c].mode = "cross" /\ Step(c, "delete") /\ UNCHANGED call)
  BY <1>2 DEF MeasureCopy
<1>4. CASE Throws(c) \/ Ends(c, "ok")
  BY <1>1, <1>2, <1>4, ThrowsFrame, EndsFrame, StoppedIsLegal DEF FileScriptStep, FileReplies
<1>5. CASE call[c].mode = "cross" /\ Step(c, "delete") /\ UNCHANGED call
  <2>1. HostFrame(c) /\ script'[c].pc = "delete"
    BY <1>5, StepIs DEF Stages
  <2>2. Legal(c, script'[c])
    BY <1>1, <1>2, <1>5, <2>1 DEF Legal, WorkStages
  <2>3. QED BY <1>1, <2>1, <2>2 DEF FileScriptStep
<1>6. QED BY <1>3, <1>4, <1>5

LEMMA WalkStep ==
  ASSUME FilesInv, NEW c \in FileCalls, Walk(c)
  PROVE  FileScriptStep(c)
<1>1. script[c].pc = "walk" /\ Looks
  BY DEF Walk
<1>2. /\ script[c] \in ScriptRecords /\ script[c].pc # "none" /\ Legal(c, script[c])
      /\ call[c].mode = "copy"
  BY <1>1, ScriptRuns, WorksOf DEF Planned, FilesInv, FileScriptInv
<1>3. CASE Throws(c)
  BY <1>1, <1>2, <1>3, ThrowsFrame, StoppedIsLegal DEF FileScriptStep
<1>4. CASE ~Throws(c)
  <2> DEFINE q == [script[c] EXCEPT !.pc = "make", !.todo = Content(call[c].from), !.wrote = TRUE]
  <2>1. script' = [script EXCEPT ![c] = q] /\ UNCHANGED call
    BY <1>4, Shaped DEF Walk, ScriptRecords
  <2>2. Content(call[c].from) \in SUBSET Paths
    BY DEF Content, Tree, Subtrees
  <2>3. q \in ScriptRecords /\ q.pc = "make"
    BY <1>2, <2>2 DEF ScriptRecords, Stages
  <2> HIDE DEF q
  <2>4. HostFrame(c) /\ script'[c] = q
    BY <2>1, <2>3, StepFrame
  <2>5. Legal(c, q)
    BY <1>1, <1>2, <2>3 DEF Legal, WorkStages
  <2>6. QED BY <1>1, <2>4, <2>5 DEF FileScriptStep
<1>5. QED BY <1>3, <1>4

(* Missing levels of a place in the target.                                *)
LEMMA MadeLawful ==
  ASSUME FilesInv, NEW c, NEW p \in Paths, MayMake(p), MakesLevels(c),
         call[c].to \in Paths, Within(p, call[c].to)
  PROVE  Lawful(c, Made(p))
<1> DEFINE to == call[c].to
<1>1. Made(p) \in Files /\ Rooted(Made(p))
  BY Shaped, MadeKeeps
<1>2. ASSUME NEW q \in Paths, Made(p)[q] # fs[q]
      PROVE  Reaches(c, q) /\ Replaces(c, q, Made(p))
  <2>1. Within(p, q) /\ fs[q] = Nothing /\ Made(p)[q] = Directory
    BY <1>2 DEF Made, MissingLevels, Levels
  <2>2. IsPath(p) /\ IsPath(q) /\ IsPath(to) /\ Len(q) \in Nat /\ Len(to) \in Nat
    BY PathIsSeq
  <2>3. Within(q, to) \/ Within(to, q)
    <3>1. Len(to) =< Len(q) \/ Len(q) =< Len(to)
      BY <2>2
    <3>2. QED BY <2>1, <2>2, <3>1, WithinCompare
  <2>4. Reaches(c, q)
    BY <2>1, <2>3 DEF Reaches, MakesLevels
  <2>5. QED BY <2>1, <2>4 DEF Replaces
<1>3. QED BY <1>1, <1>2 DEF Lawful

LEMMA MakeTargetStep ==
  ASSUME FilesInv, NEW c \in FileCalls, MakeTarget(c)
  PROVE  FileScriptStep(c)
<1>1. /\ script[c].pc = "make" /\ call[c].mode = "copy" /\ MayMake(call[c].to)
      /\ Changes(c, Made(call[c].to)) /\ Step(c, "items") /\ UNCHANGED call
  BY DEF MakeTarget, AtHost
<1>2. Planned(c) /\ script[c] \in ScriptRecords /\ Legal(c, script[c])
  BY <1>1, ScriptRuns DEF FilesInv, FileScriptInv
<1>3. call[c].to \in Paths /\ Within(call[c].to, call[c].to) /\ MakesLevels(c)
  BY <1>1, <1>2, PathIsSeq, WithinSelf DEF Planned, MakesLevels, Legal
<1>4. Lawful(c, Made(call[c].to))
  BY <1>1, <1>3, MadeLawful
<1>5. Changes(c, fs') /\ Lawful(c, fs')
  BY <1>1, <1>4, ChangesIs
<1>6. HostFrame(c) /\ script'[c].pc = "items"
  BY <1>1, StepIs DEF Stages
<1>7. Legal(c, script'[c])
  BY <1>1, <1>2, <1>6 DEF Legal, WorkStages
<1>8. QED BY <1>5, <1>6, <1>7 DEF FileScriptStep

LEMMA CreateLevelsStep ==
  ASSUME FilesInv, NEW c \in FileCalls, CreateLevels(c)
  PROVE  FileScriptStep(c)
<1>1. /\ script[c].pc = "make" /\ call[c].mode = "create" /\ MayMake(call[c].to)
      /\ Changes(c, Made(call[c].to)) /\ Step(c, "look") /\ UNCHANGED call
  BY DEF CreateLevels, AtHost
<1>2. Planned(c) /\ script[c] \in ScriptRecords
  BY <1>1, ScriptRuns
<1>3. call[c].to \in Paths /\ Within(call[c].to, call[c].to) /\ MakesLevels(c)
  BY <1>1, <1>2, PathIsSeq, WithinSelf DEF Planned, MakesLevels
<1>4. Lawful(c, Made(call[c].to))
  BY <1>1, <1>3, MadeLawful
<1>5. Changes(c, fs') /\ Lawful(c, fs')
  BY <1>1, <1>4, ChangesIs
<1>6. HostFrame(c) /\ script'[c].pc = "look"
  BY <1>1, StepIs DEF Stages
<1>7. Legal(c, script'[c])
  BY <1>1, <1>6 DEF Legal, WorkStages
<1>8. QED BY <1>5, <1>6, <1>7 DEF FileScriptStep

LEMMA CopyItemStep ==
  ASSUME FilesInv, NEW c \in FileCalls, NEW p \in Paths, CopyItem(c, p)
  PROVE  FileScriptStep(c)
<1> DEFINE dst == Destination(c, p)
           from == call[c].from
           to == call[c].to
<1>1. /\ script[c].pc = "items" /\ p \in script[c].todo /\ dst \in Paths
      /\ script' = [script EXCEPT ![c].todo = @ \ {p}] /\ UNCHANGED call
      /\ \/ Kind(p) = "dir" /\ MayMake(dst) /\ Changes(c, Made(dst))
         \/ Kind(p) = "file" /\ MayWrite(c, dst) /\ Changes(c, At(dst, fs[p]))
  BY DEF CopyItem
<1>2. /\ Planned(c) /\ script[c] \in ScriptRecords /\ Legal(c, script[c])
      /\ call[c].mode = "copy" /\ call[c].kind = "dir"
  <2>1. Planned(c) /\ script[c] \in ScriptRecords /\ Legal(c, script[c]) /\ call[c].mode = "copy"
    BY <1>1, ScriptRuns, WorksOf DEF Planned, FilesInv, FileScriptInv
  <2>2. QED BY <1>1, <2>1 DEF Legal
<1>3. from \in Paths /\ to \in Paths
  BY <1>2 DEF Planned
<1>4. Within(dst, to)
  <2> DEFINE tail == SubSeq(p, Len(from) + 1, Len(p))
  <2>1. IsPath(p) /\ Len(p) \in Nat /\ Len(from) \in Nat /\ IsPath(to) /\ Len(to) \in Nat
    BY <1>3, PathIsSeq
  <2>2. tail \in Seq(Letters) /\ to \in Seq(Letters)
    BY <2>1 DEF IsPath
  <2> HIDE DEF tail
  <2>3. /\ Len(to) =< Len(to \o tail) /\ to \o tail \in Seq(Letters)
        /\ \A i \in 1 .. Len(to) : (to \o tail)[i] = to[i]
    BY <2>2
  <2>4. Within(to \o tail, to)
    BY <2>1, <2>3, WithinPoints DEF IsPath
  <2>5. QED BY <2>4 DEF Destination, tail
<1>5. Lawful(c, fs') /\ Changes(c, fs')
  <2>1. CASE Kind(p) = "dir" /\ MayMake(dst) /\ Changes(c, Made(dst))
    <3>1. Lawful(c, Made(dst))
      BY <1>1, <1>2, <1>3, <1>4, <2>1, MadeLawful DEF MakesLevels
    <3>2. QED BY <2>1, <3>1, ChangesIs
  <2>2. CASE Kind(p) = "file" /\ MayWrite(c, dst) /\ Changes(c, At(dst, fs[p]))
    <3>1. fs[p] \in Objects /\ fs[p].kind = "file"
      BY <2>2, Shaped, KindOf, NotDir
    <3>2. Lawful(c, At(dst, fs[p]))
      BY <1>1, <1>2, <1>4, <2>2, <3>1, WriteLawful
    <3>3. QED BY <2>2, <3>2, ChangesIs
  <2>3. QED BY <1>1, <2>1, <2>2
<1>6. HostFrame(c) /\ Legal(c, script'[c])
  <2> DEFINE q == [script[c] EXCEPT !.todo = @ \ {p}]
  <2>1. script' = [script EXCEPT ![c] = q]
    BY <1>1, <1>2, Shaped DEF ScriptRecords
  <2>2. q \in ScriptRecords /\ q.pc = "items"
    BY <1>1, <1>2 DEF ScriptRecords
  <2> HIDE DEF q
  <2>3. HostFrame(c) /\ script'[c] = q
    BY <1>1, <2>1, <2>2, StepFrame
  <2>4. Legal(c, q)
    BY <1>2, <2>2 DEF Legal, WorkStages
  <2>5. QED BY <2>3, <2>4
<1>7. QED BY <1>5, <1>6 DEF FileScriptStep

LEMMA CopiedAllStep ==
  ASSUME FilesInv, NEW c \in FileCalls, CopiedAll(c)
  PROVE  FileScriptStep(c)
<1>1. script[c].pc = "items" /\ Looks /\ Ends(c, "ok")
  BY DEF CopiedAll
<1>2. QED BY <1>1, EndsFrame, StoppedIsLegal DEF FileScriptStep, FileReplies

-----------------------------------------------------------------------------
(* Removals and the last look.                                             *)

(* An object with nothing below it goes.                                   *)
LEMMA RemoveLawful ==
  ASSUME FilesInv, NEW c, NEW p \in Paths, ~IsRoot(p), Content(p) = {}, Within(p, call[c].from),
         call[c].mode \in {"delete", "tree"}
  PROVE  Lawful(c, At(p, Nothing))
  BY AtLawful DEF Reaches, Replaces, MakesLevels

LEMMA RemoveFileStep ==
  ASSUME FilesInv, NEW c \in FileCalls, RemoveFile(c)
  PROVE  FileScriptStep(c)
<1> DEFINE from == call[c].from
<1>1. /\ script[c].pc = "remove" /\ call[c].mode = "delete" /\ Content(from) = {}
      /\ Changes(c, At(from, Nothing)) /\ Step(c, "look") /\ UNCHANGED call
  BY DEF RemoveFile, AtHost
<1>2. from \in Paths /\ ~IsRoot(from) /\ Within(from, from)
  BY <1>1, ScriptRuns, PathIsSeq, WithinSelf DEF Planned
<1>3. Lawful(c, At(from, Nothing))
  BY <1>1, <1>2, RemoveLawful
<1>4. Changes(c, fs') /\ Lawful(c, fs')
  BY <1>1, <1>3, ChangesIs
<1>5. HostFrame(c) /\ script'[c].pc = "look"
  BY <1>1, StepIs DEF Stages
<1>6. Legal(c, script'[c])
  BY <1>1, <1>5 DEF Legal, WorkStages
<1>7. QED BY <1>4, <1>5, <1>6 DEF FileScriptStep

LEMMA RemoveItemStep ==
  ASSUME FilesInv, NEW c \in FileCalls, RemoveItem(c)
  PROVE  FileScriptStep(c)
<1> DEFINE from == call[c].from
<1>1. script[c].pc = "remove" /\ call[c].mode = "tree" /\ UNCHANGED call
  BY DEF RemoveItem, AtHost
<1>2. PICK p \in Tree(from) :
        /\ Content(p) = {} /\ Changes(c, At(p, Nothing))
        /\ IF p = from THEN Step(c, "look") ELSE UNCHANGED script
  BY DEF RemoveItem
<1>3. from \in Paths /\ ~IsRoot(from) /\ p \in Paths /\ Within(p, from) /\ Legal(c, script[c])
  BY <1>1, ScriptRuns DEF Planned, Tree, Subtrees, FilesInv, FileScriptInv
<1>4. ~IsRoot(p)
  <2>1. Len(from) \in Nat /\ Len(from) > 0 /\ Len(from) # 1 /\ Len(from) =< Len(p)
    BY <1>3, PathIsSeq DEF IsRoot, Within
  <2>2. \A n \in Nat : n > 0 /\ n # 1 => ~(n =< 1)
    OBVIOUS
  <2>3. QED BY <2>1, <2>2 DEF IsRoot
<1>5. Lawful(c, At(p, Nothing))
  BY <1>1, <1>2, <1>3, <1>4, RemoveLawful
<1>6. Changes(c, fs') /\ Lawful(c, fs')
  BY <1>2, <1>5, ChangesIs
<1>7. CASE Step(c, "look")
  <2>1. HostFrame(c) /\ script'[c].pc = "look"
    BY <1>1, <1>7, StepIs DEF Stages
  <2>2. Legal(c, script'[c])
    BY <1>1, <2>1 DEF Legal, WorkStages
  <2>3. QED BY <1>6, <2>1, <2>2 DEF FileScriptStep
<1>8. CASE UNCHANGED script
  BY <1>1, <1>3, <1>6, <1>8, Shaped DEF FileScriptStep, HostFrame, Answered
<1>9. QED BY <1>2, <1>7, <1>8

LEMMA CheckLinksStep ==
  ASSUME FilesInv, NEW c \in FileCalls, CheckLinks(c)
  PROVE  FileScriptStep(c)
<1>1. script[c].pc = "links" /\ Looks /\ (Throws(c) \/ (Step(c, "remove") /\ UNCHANGED call))
  BY DEF CheckLinks
<1>2. CASE Throws(c)
  BY <1>1, <1>2, ThrowsFrame, StoppedIsLegal DEF FileScriptStep
<1>3. CASE Step(c, "remove") /\ UNCHANGED call
  <2>1. call[c].mode = "tree"
    BY <1>1, ScriptRuns, WorksOf DEF Planned
  <2>2. HostFrame(c) /\ script'[c].pc = "remove"
    BY <1>3, StepIs DEF Stages
  <2>3. Legal(c, script'[c])
    BY <2>1, <2>2 DEF Legal, WorkStages
  <2>4. QED BY <1>1, <2>2, <2>3 DEF FileScriptStep
<1>4. QED BY <1>1, <1>2, <1>3

LEMMA LookAgainStep ==
  ASSUME FilesInv, NEW c \in FileCalls, LookAgain(c)
  PROVE  FileScriptStep(c)
<1>1. script[c].pc = "look" /\ Looks
  BY DEF LookAgain
<1>2. call[c].mode \in {"delete", "tree", "rename", "cross", "create"}
  BY <1>1, ScriptRuns, WorksOf DEF Planned
<1>3. Throws(c) \/ \E reply \in {"ok", "warning"} : Ends(c, reply)
  BY <1>2 DEF LookAgain
<1>4. CASE Throws(c)
  BY <1>1, <1>4, ThrowsFrame, StoppedIsLegal DEF FileScriptStep
<1>5. ASSUME NEW reply \in {"ok", "warning"}, Ends(c, reply) PROVE FileScriptStep(c)
  BY <1>1, <1>5, EndsFrame, StoppedIsLegal DEF FileScriptStep, FileReplies
<1>6. QED BY <1>3, <1>4, <1>5

LEMMA DeleteSourceStep ==
  ASSUME FilesInv, NEW c \in FileCalls, DeleteSource(c)
  PROVE  FileScriptStep(c)
<1> DEFINE from == call[c].from
           to == call[c].to
<1>1. /\ script[c].pc = "delete" /\ Kind(from) \in {"file", Nothing}
      /\ Changes(c, At(from, Nothing)) /\ Step(c, "look") /\ UNCHANGED call
  BY DEF DeleteSource
<1>2. Planned(c) /\ call[c].mode = "cross" /\ ~Within(from, to)
  BY <1>1, ScriptRuns, WorksOf DEF Planned, FilesInv, FileScriptInv, Legal
<1>3. from \in Paths
  BY <1>2 DEF Planned
<1>4. ~IsRoot(from) /\ Content(from) = {}
  <2>1. Kind(from) # "dir"
    BY <1>1, NotDir
  <2>2. QED BY <1>3, <2>1, Shaped, NoContent DEF TreeInv, Rooted, Kind
<1>5. fs' = At(from, Nothing) /\ Changes(c, fs')
  BY <1>1, ChangesIs
<1>6. Lawful(c, fs')
  <2>1. At(from, Nothing) \in Files /\ Rooted(At(from, Nothing))
    BY <1>3, <1>4, Shaped, AtKeeps
  <2>2. \A q \in Paths : At(from, Nothing)[q] # fs[q] => q = from
    BY Shaped DEF At, Files
  <2>3. ~(from \in Paths /\ At(from, Nothing)[from] # fs[from]) \/ Replaces(c, from, At(from, Nothing))
    BY <1>2 DEF Replaces, MakesLevels
  <2>4. Within(from, from)
    BY <1>3, PathIsSeq, WithinSelf
  <2>5. QED BY <1>2, <1>5, <2>1, <2>2, <2>3, <2>4 DEF Lawful, Reaches
<1>7. HostFrame(c) /\ script'[c].pc = "look"
  BY <1>1, StepIs DEF Stages
<1>8. Legal(c, script'[c])
  BY <1>2, <1>7 DEF Legal, WorkStages
<1>9. QED BY <1>5, <1>6, <1>7, <1>8 DEF FileScriptStep

-----------------------------------------------------------------------------
(* Moves.                                                                  *)

LEMMA MovedSelf ==
  ASSUME NEW p, NEW q, IsPath(p), IsPath(q)
  PROVE  Moved(q, q, p) = p
<1> DEFINE m == Moved(q, q, p)
<1>1. Len(p) \in Nat /\ Len(q) \in Nat
  BY PathLength
<1>2. IsMoved(m, q, q, p)
  BY WithinSelf, MovedPoints
<1> HIDE DEF m
<1>3. m \in Seq(Letters) /\ p \in Seq(Letters) /\ Len(m) = Len(p) /\ \A i \in 1 .. Len(p) : m[i] = p[i]
  BY <1>1, <1>2 DEF IsMoved, IsPath
<1>4. m = p
  BY <1>3
<1>5. QED BY <1>4 DEF m

LEMMA RenamedLawful ==
  ASSUME FilesInv, NEW c, NEW p \in Paths, NEW q \in Paths, ~IsRoot(p), ParentIsDir(q),
         ~Within(q, p),
         \A s \in Paths : Within(s, p) \/ Within(s, q) => Reaches(c, s),
         \A s \in Paths : Replaces(c, s, Renamed(p, q))
  PROVE  Lawful(c, Renamed(p, q))
<1>1. Renamed(p, q) \in Files /\ Rooted(Renamed(p, q))
  BY Shaped, RenamedKeeps
<1>2. \A s \in Paths : Renamed(p, q)[s] # fs[s] => Within(s, p) \/ Within(s, q)
  BY RenamedIs
<1>3. QED BY <1>1, <1>2 DEF Lawful

(* An object that is not a root has a directory above it.                  *)
LEMMA HasParent ==
  ASSUME FilesInv, NEW p \in Paths, fs[p] # Nothing, ~IsRoot(p)
  PROVE  ParentIsDir(p) /\ Parent(p) \in Paths
<1>1. IsPath(p) /\ Len(p) > 0
  BY PathIsSeq
<1>2. Parent(p) \in Paths /\ Below(p, Parent(p))
  BY <1>1, ParentIsPath
<1>3. QED BY <1>2, Shaped DEF TreeInv, Rooted, ParentIsDir, Kind

LEMMA MoveItemStep ==
  ASSUME FilesInv, NEW c \in FileCalls, MoveItem(c)
  PROVE  FileScriptStep(c)
<1> DEFINE from == call[c].from
           to == call[c].to
<1>1. /\ script[c].pc = "move" /\ Kind(from) = call[c].kind /\ from # to /\ ~IsRoot(from)
      /\ IF call[c].kind = "file" /\ script[c].seen THEN Kind(to) = "file"
         ELSE Kind(to) = Nothing /\ ParentIsDir(to) /\ ~Within(to, from) /\ Fits(from, to)
      /\ Changes(c, Renamed(from, to)) /\ Step(c, "look") /\ UNCHANGED call
  BY DEF MoveItem
<1>2. Planned(c) /\ call[c].mode = "rename" /\ Legal(c, script[c])
  BY <1>1, ScriptRuns, WorksOf DEF Planned, FilesInv, FileScriptInv
<1>3. from \in Paths /\ to \in Paths /\ fs[from] # Nothing /\ fs[from].kind = call[c].kind
  BY <1>1, <1>2, Shaped, KindOf DEF Planned
<1>4. Kind(to) # "dir" /\ (\A s \in Paths : Within(s, to) /\ s # to => fs[s] = Nothing)
  <2>1. Kind(to) # "dir"
    BY <1>1, NotDir
  <2>2. QED BY <1>3, <2>1, Shaped, NoContent
<1>5. ~Within(to, from) /\ ParentIsDir(to)
  <2>1. CASE call[c].kind = "file" /\ script[c].seen
    <3>1. Kind(to) = "file" /\ Kind(from) # "dir"
      BY <1>1, <2>1
    <3>2. fs[to] # Nothing /\ fs[to].kind = "file"
      BY <3>1, Shaped, KindOf, NotDir
    <3>3. ~Within(to, from)
      BY <1>1, <1>3, <3>1, <3>2, Shaped, NoContent
    <3>4. ~IsRoot(to)
      BY <1>3, <3>2, Shaped DEF TreeInv, Rooted
    <3>5. QED BY <1>3, <3>2, <3>3, <3>4, HasParent
  <2>2. CASE ~(call[c].kind = "file" /\ script[c].seen)
    BY <1>1, <2>2
  <2>3. QED BY <2>1, <2>2
<1>6. \A s \in Paths : Within(s, from) \/ Within(s, to) => Reaches(c, s)
  BY <1>2 DEF Reaches
<1>7. ASSUME NEW s \in Paths PROVE Replaces(c, s, Renamed(from, to))
  <2>1. SUFFICES ASSUME Within(s, to), fs[s] # Nothing
                 PROVE  /\ Request(c).overwrite /\ fs[s].kind = "file"
                        /\ Renamed(from, to)[s].kind = "file"
    BY <1>2 DEF Replaces, MakesLevels
  <2>2. s = to
    BY <1>4, <2>1
  <2>3. Kind(to) # Nothing
    BY <1>3, <2>1, <2>2, Shaped, KindOf
  <2>4. call[c].kind = "file" /\ script[c].seen /\ Kind(to) = "file"
    BY <1>1, <2>3
  <2>5. Request(c).overwrite /\ fs[s].kind = "file"
    BY <1>1, <1>2, <2>2, <2>3, <2>4, Shaped, KindOf, NotDir DEF Legal
  <2>6. Moved(to, to, from) = from
    BY <1>3, PathIsSeq, MovedSelf
  <2>7. Renamed(from, to)[to] = fs[from]
    BY <1>3, <2>1, <2>2, <2>6, RenamedIs
  <2>8. QED BY <1>3, <2>2, <2>4, <2>5, <2>7
<1>8. Lawful(c, Renamed(from, to))
  BY <1>1, <1>3, <1>5, <1>6, <1>7, RenamedLawful
<1>9. Changes(c, fs') /\ Lawful(c, fs')
  BY <1>1, <1>8, ChangesIs
<1>10. HostFrame(c) /\ script'[c].pc = "look"
  BY <1>1, StepIs DEF Stages
<1>11. Legal(c, script'[c])
  BY <1>2, <1>10 DEF Legal, WorkStages
<1>12. QED BY <1>9, <1>10, <1>11 DEF FileScriptStep

(* The temporary name lies beside the source.                              *)
LEMMA TempIs ==
  ASSUME FilesInv, NEW c \in FileCalls, call[c].from \in Paths
  PROVE  /\ IsPath(TempPath(c)) /\ Len(TempPath(c)) = Len(call[c].from)
         /\ Parent(TempPath(c)) = Parent(call[c].from) /\ TempPath(c)[Len(call[c].from)] = c
<1> DEFINE p == Parent(call[c].from)
<1>1. /\ IsPath(call[c].from) /\ Len(call[c].from) \in Nat /\ IsPath(p)
      /\ Len(p) = Len(call[c].from) - 1 /\ Len(p) \in Nat
  BY PathIsSeq, ParentIsPath, PathLength
<1> HIDE DEF p
<1>2. p \in Seq(Letters) /\ c \in Letters
  BY <1>1 DEF IsPath, Letters
<1>3. /\ Append(p, c) \in Seq(Letters) /\ Len(Append(p, c)) = Len(p) + 1
      /\ Append(p, c)[Len(p) + 1] = c
  BY <1>2
<1>4. SubSeq(Append(p, c), 1, Len(p)) = p
  BY <1>2
<1>5. Len(p) + 1 = Len(call[c].from) /\ Len(Append(p, c)) - 1 = Len(p)
  BY <1>1, <1>3
<1>6. Parent(Append(p, c)) = p
  BY <1>4, <1>5 DEF Parent
<1>7. QED BY <1>3, <1>5, <1>6 DEF TempPath, p, IsPath

LEMMA MoveAwayStep ==
  ASSUME FilesInv, NEW c \in FileCalls, MoveAway(c)
  PROVE  FileScriptStep(c)
<1> DEFINE from == call[c].from
           temp == TempPath(c)
<1>1. /\ script[c].pc = "away" /\ Kind(from) = call[c].kind /\ ~IsRoot(from)
      /\ Kind(temp) = Nothing /\ Fits(from, temp)
      /\ Changes(c, Renamed(from, temp)) /\ Step(c, "back") /\ UNCHANGED call
  BY DEF MoveAway
<1>2. Planned(c) /\ call[c].mode = "case"
  BY <1>1, ScriptRuns, WorksOf DEF Planned
<1>3. from \in Paths /\ fs[from] # Nothing /\ temp \in Paths /\ fs[temp] = Nothing
  BY <1>1, <1>2, Shaped, KindOf DEF Planned, Fits
<1>4. ParentIsDir(temp) /\ ~Within(temp, from)
  <2>1. IsPath(temp) /\ Len(temp) = Len(from) /\ Parent(temp) = Parent(from)
    BY <1>3, TempIs
  <2>2. ParentIsDir(temp)
    BY <1>1, <1>3, <2>1, HasParent DEF ParentIsDir
  <2>3. IsPath(from) /\ Len(from) \in Nat
    BY <1>3, PathIsSeq
  <2>4. Within(temp, from) => temp = from
    BY <2>1, <2>3, WithinBoth
  <2>5. QED BY <1>3, <2>2, <2>4
<1>5. \A s \in Paths : Within(s, from) \/ Within(s, temp) => Reaches(c, s)
  BY <1>1, <1>2 DEF Reaches
<1>6. Lawful(c, Renamed(from, temp))
  <2>1. \A s \in Paths : Replaces(c, s, Renamed(from, temp))
    BY <1>2 DEF Replaces, MakesLevels
  <2>2. QED BY <1>1, <1>3, <1>4, <1>5, <2>1, RenamedLawful
<1>7. Changes(c, fs') /\ Lawful(c, fs')
  BY <1>1, <1>6, ChangesIs
<1>8. HostFrame(c) /\ script'[c].pc = "back"
  BY <1>1, StepIs DEF Stages
<1>9. Legal(c, script'[c])
  BY <1>1, <1>2, <1>8 DEF Legal, WorkStages
<1>10. QED BY <1>7, <1>8, <1>9 DEF FileScriptStep

LEMMA MoveBackStep ==
  ASSUME FilesInv, NEW c \in FileCalls, MoveBack(c)
  PROVE  FileScriptStep(c)
<1> DEFINE to == call[c].to
           temp == TempPath(c)
<1>1. /\ script[c].pc = "back" /\ Kind(temp) = call[c].kind
      /\ Kind(to) = Nothing /\ ParentIsDir(to) /\ ~Within(to, temp) /\ Fits(temp, to)
      /\ Changes(c, Renamed(temp, to)) /\ Ends(c, "ok")
  BY DEF MoveBack
<1>2. Planned(c) /\ call[c].mode = "case" /\ ~IsRoot(call[c].from)
  BY <1>1, ScriptRuns, WorksOf DEF Planned, FilesInv, FileScriptInv, Legal
<1>3. to \in Paths /\ temp \in Paths /\ call[c].from \in Paths
  BY <1>1, <1>2, Shaped, KindOf DEF Planned
<1>4. ~IsRoot(temp)
  BY <1>2, <1>3, TempIs DEF IsRoot
<1>5. \A s \in Paths : Within(s, temp) \/ Within(s, to) => Reaches(c, s)
  BY <1>2 DEF Reaches
<1>6. Lawful(c, Renamed(temp, to))
  <2>1. \A s \in Paths : Replaces(c, s, Renamed(temp, to))
    BY <1>2 DEF Replaces, MakesLevels
  <2>2. QED BY <1>1, <1>3, <1>4, <1>5, <2>1, RenamedLawful
<1>7. Changes(c, fs') /\ Lawful(c, fs')
  BY <1>1, <1>6, ChangesIs
<1>8. HostFrame(c) /\ script'[c].pc = "none"
  BY <1>1, EndsFrame DEF FileReplies
<1>9. QED BY <1>7, <1>8, StoppedIsLegal DEF FileScriptStep

LEMMA HostWorksStep ==
  ASSUME FilesInv, NEW c \in FileCalls, HostWorks(c) \/ HostThrows(c)
  PROVE  FileScriptStep(c)
<1>1. CASE HostThrows(c)
  BY <1>1, HostThrowsStep
<1>2. CASE HostWorks(c)
  BY <1>2, CheckSourceStep, CheckTargetStep, CopyFileStep, MeasureCopyStep, WalkStep,
     MakeTargetStep, CopyItemStep, CopiedAllStep, MoveItemStep, MoveAwayStep, MoveBackStep,
     DeleteSourceStep, CreateLevelsStep, RemoveFileStep, CheckLinksStep, RemoveItemStep,
     LookAgainStep DEF HostWorks
<1>3. QED BY <1>1, <1>2

-----------------------------------------------------------------------------
(* The scans.                                                              *)

OnlyCallsMove == UNCHANGED <<fs, script, changes, disturbed, disturbances>>

(* A scan refuses, goes on to the target or completes the prompt.          *)
Scanned(c) ==
  \/ FilesOver(c, "refused")
  \/ /\ call[c].pc = "source"
     /\ \E kind \in Kinds \ {Nothing} : GoOn(c, kind, TRUE)
     /\ call[c].request.source.ps \in Paths
     /\ call[c].request.tool \in {"move_file", "rename_file"} => Covered(call[c].request.source.ps)
  \/ \E kind \in Kinds \ {Nothing}, mode \in Modes, from \in Paths, to \in Paths :
       /\ Prompt(c, kind, mode, from, to)
       /\ mode \in {"delete", "tree"} => ~IsRoot(from)
       /\ mode = "create" => RequestedTarget(Request(c)) \in Paths /\ LevelsJudged(MissingLevels(RequestedTarget(Request(c))))
       /\ PermitInv(c) => Permits(mode, from, to)

LEMMA PromptScanned ==
  ASSUME NEW c, NEW kind \in Kinds \ {Nothing}, NEW mode \in Modes, NEW from \in Paths,
         NEW to \in Paths, Prompt(c, kind, mode, from, to),
         mode \in {"delete", "tree"} => ~IsRoot(from),
         mode = "create" =>
           RequestedTarget(Request(c)) \in Paths /\ LevelsJudged(MissingLevels(RequestedTarget(Request(c)))),
         PermitInv(c) => Permits(mode, from, to)
  PROVE  Scanned(c)
  BY DEF Scanned

(* A scan changes its own call.                                            *)
LEMMA ScannedOther ==
  ASSUME call \in [FileCalls -> FileCallRecords], NEW c \in FileCalls, Scanned(c), NEW d \in FileCalls, d # c
  PROVE  call'[d] = call[d]
<1>1. ASSUME NEW reply, FilesOver(c, reply) PROVE call'[d] = call[d]
  BY <1>1 DEF FilesOver
<1>2. ASSUME NEW kind, GoOn(c, kind, TRUE) PROVE call'[d] = call[d]
  BY <1>2 DEF GoOn
<1>3. ASSUME NEW kind, NEW mode, NEW from, NEW to, Prompt(c, kind, mode, from, to)
      PROVE  call'[d] = call[d]
  <2> DEFINE levels == IF mode = "create" THEN MissingLevels(RequestedTarget(Request(c))) ELSE {}
  <2>1. call' = [call EXCEPT ![c].pc = "prompt", ![c].kind = kind, ![c].mode = mode,
                             ![c].from = from, ![c].to = to, ![c].levels = levels]
    BY <1>3 DEF Prompt
  <2> HIDE DEF levels
  <2>2. QED BY <2>1
<1>4. QED BY <1>1, <1>2, <1>3 DEF Scanned

LEMMA GoOnScanned ==
  ASSUME NEW c, NEW kind \in Kinds \ {Nothing}, NEW allowed, GoOn(c, kind, allowed),
         call[c].pc = "source", call[c].request.source.ps \in Paths,
         allowed /\ call[c].request.tool \in {"move_file", "rename_file"} =>
           Covered(call[c].request.source.ps)
  PROVE  Scanned(c)
<1>1. CASE allowed
  <2>1. GoOn(c, kind, TRUE)
    BY <1>1 DEF GoOn
  <2>2. QED BY <1>1, <2>1 DEF Scanned
<1>2. CASE ~allowed
  BY <1>2 DEF Scanned, GoOn
<1>3. QED BY <1>1, <1>2

(* The boundary lets a protected resolution pass by an entry only.         *)
LEMMA BoundaryCovers ==
  ASSUME NEW r, NEW resolutions, NEW link, NEW directory,
         BoundaryAllows(r, resolutions, TRUE, link, directory)
  PROVE  \A p \in resolutions : Covered(p)
  BY DEF BoundaryAllows, Covered

LEMMA DirsArePaths == Dirs \subseteq Paths /\ AllowPaths \subseteq Paths
  BY PathsAssumption DEF Dirs

(* A path that has something protected in it is refused itself: it is a    *)
(* volume, or lies in the protected directory below the volume.            *)
LEMMA ProtectsAbove ==
  ASSUME NEW y, IsPath(y), Len(y) > 0, NEW q \in Paths, Within(q, y), InProtected(q)
  PROVE  /\ RefuseResolved(y, TRUE)
         /\ IsRoot(y) \/ \E e \in Dirs : Len(e) = 2 /\ Within(y, e) /\ Within(q, e)
<1>1. PICK d \in Dirs : Within(q, d)
  BY DEF InProtected
<1>2. PICK e \in Dirs : Len(e) = 2 /\ Within(d, e)
  BY DirsAssumption
<1>3. IsPath(q) /\ IsPath(d) /\ IsPath(e) /\ Len(y) \in Nat
  BY DirsArePaths, PathIsSeq, PathLength
<1>4. Within(q, e)
  BY <1>1, <1>2, <1>3, WithinTrans
<1>5. CASE Len(y) = 1
  BY <1>5 DEF IsRoot, RefuseResolved, IsProtectedPath
<1>6. CASE Len(y) # 1
  <2>1. Len(e) =< Len(y)
    <3>1. \A n \in Nat : n > 0 /\ n # 1 => 2 =< n
      OBVIOUS
    <3>2. QED BY <1>2, <1>3, <1>6, <3>1
  <2>2. Within(y, e)
    BY <1>3, <1>4, <2>1, WithinCompare
  <2>3. QED BY <1>2, <1>4, <2>2 DEF RefuseResolved, IsProtectedPath, Containing, Dirs
<1>7. QED BY <1>5, <1>6

(* What lies within a path that an entry lets pass lies below an entry.    *)
LEMMA EntryAbove ==
  ASSUME NEW y, IsPath(y), NEW q \in Paths, Within(q, y), ~IsRoot(q), RefuseResolved(y, TRUE), Covered(y)
  PROVE  BelowEntry(q)
<1>1. PICK a \in AllowPaths : Below(y, a) \/ (IsRoot(a) /\ y = a)
  BY DEF Covered, WritePathAllowed
<1>2. IsPath(a) /\ IsPath(q) /\ Len(a) \in Nat /\ Len(q) \in Nat /\ Len(y) \in Nat
  BY DirsArePaths, PathIsSeq, PathLength
<1>3. CASE IsRoot(a) /\ y = a
  BY <1>3 DEF Below, BelowEntry
<1>4. CASE Below(y, a)
  <2>1. Within(y, a) /\ Within(q, a)
    BY <1>2, <1>4, WithinTrans DEF Below
  <2>2. q # a
    <3>1. SUFFICES ASSUME q = a PROVE FALSE
      OBVIOUS
    <3>2. Len(y) =< Len(a)
      BY <3>1 DEF Within
    <3>3. QED BY <1>2, <1>4, <2>1, <3>2, WithinBoth DEF Below
  <2>3. QED BY <2>1, <2>2 DEF Below, BelowEntry
<1>5. QED BY <1>1, <1>3, <1>4

LEMMA SmallestOf ==
  ASSUME NEW T, T \subseteq Nat, T # {}
  PROVE  \E n \in T : \A m \in T : n =< m
<1> DEFINE R == OpToRel(<, Nat)
<1>1. IsWellFoundedOn(R, Nat)
  BY NatLessThanWellFounded
<1>2. \A m, n \in Nat : m < n => <<m, n>> \in R
  BY Zenon DEF OpToRel
<1> HIDE DEF R
<1>3. \E n \in T : \A m \in T : <<m, n>> \notin R
  BY <1>1, WFMin
<1>4. \A m, n \in Nat : ~(m < n) => n =< m
  OBVIOUS
<1>5. QED BY <1>2, <1>3, <1>4

(* TR-FS-11: every missing level lies within the topmost one, which the    *)
(* boundary let pass.                                                      *)
LEMMA LevelsBelowTop ==
  ASSUME FilesInv, NEW p \in Paths, TopMissing(p) # Nothing => Covered(TopMissing(p))
  PROVE  LevelsJudged(MissingLevels(p))
<1> DEFINE top == TopMissing(p)
<1>1. SUFFICES ASSUME NEW q \in MissingLevels(p), InProtected(q) PROVE BelowEntry(q)
  BY DEF LevelsJudged
<1>2. \A s \in MissingLevels(p) : s \in Paths /\ Within(p, s) /\ fs[s] = Nothing
  BY DEF MissingLevels, Levels
<1>3. \E s \in MissingLevels(p) : \A t \in MissingLevels(p) : Len(s) =< Len(t)
  <2> DEFINE T == {Len(s) : s \in MissingLevels(p)}
  <2>1. T \subseteq Nat /\ Len(q) \in T
    BY <1>2, PathIsSeq
  <2>2. PICK n \in T : \A m \in T : n =< m
    BY <2>1, SmallestOf
  <2>3. QED BY <2>2
<1>4. top \in MissingLevels(p) /\ \A t \in MissingLevels(p) : Len(top) =< Len(t)
  BY <1>3 DEF TopMissing
<1>5. top \in Paths /\ Covered(top)
  BY <1>2, <1>4, PathsAssumption
<1> HIDE DEF top
<1>6. IsPath(top) /\ IsPath(q) /\ IsPath(p) /\ Len(top) > 0
  BY <1>2, <1>5, PathIsSeq
<1>7. Within(q, top)
  BY <1>2, <1>4, <1>6, WithinCompare
<1>8. ~IsRoot(q)
  BY <1>2 DEF FilesInv, TreeInv, Rooted
<1>9. QED BY <1>1, <1>2, <1>5, <1>6, <1>7, <1>8, ProtectsAbove, EntryAbove

LEMMA ScanSourceStep ==
  ASSUME FilesInv, NEW c \in FileCalls, ScanSource(c)
  PROVE  OnlyCallsMove /\ Scanned(c)
<1> DEFINE r == Request(c)
           kind == Kind(r.source.ps)
<1>1. call[c].pc = "source" /\ OnlyCallsMove
  BY DEF ScanSource, AtCall, OnlyCallsMove
<1>2. CASE kind = Nothing
  BY <1>1, <1>2 DEF ScanSource, Scanned
<1>3. CASE kind # Nothing
  <2>1. /\ kind \in Kinds \ {Nothing} /\ r.source.ps \in Paths
        /\ fs[r.source.ps] # Nothing /\ fs[r.source.ps].kind = kind
    BY <1>3, Shaped, KindOf DEF Kinds
  <2>2. IsRoot(r.source.ps) => kind = "dir"
    BY <2>1, Shaped DEF TreeInv, Rooted
  <2>3. CASE DeleteFile(c, kind)
    <3>1. CASE DecideFileDelete(r.source, kind)
      <4>1. Prompt(c, kind, "delete", r.source.ps, r.source.ps)
        BY <2>3, <3>1 DEF DeleteFile
      <4>2. Covered(r.source.ps) /\ kind # "dir"
        BY <3>1, BoundaryCovers DEF DecideFileDelete
      <4>3. QED BY <1>1, <2>1, <2>2, <4>1, <4>2, PromptScanned DEF Permits, Modes
    <3>2. CASE ~DecideFileDelete(r.source, kind)
      BY <1>1, <2>3, <3>2 DEF DeleteFile, Scanned
    <3>3. QED BY <3>1, <3>2
  <2>4. CASE DeleteDirectory(c, kind)
    <3>1. CASE Prompt(c, kind, "tree", r.source.ps, r.source.ps)
      <4>1. CASE RefuseResolved(r.source.ps, TRUE)
        BY <1>1, <2>4, <4>1 DEF DeleteDirectory, Scanned, DecideDeleteScan
      <4>2. CASE ~RefuseResolved(r.source.ps, TRUE)
        <5>1. ~IsRoot(r.source.ps)
          BY <4>2 DEF RefuseResolved, IsProtectedPath
        <5>2. QED BY <1>1, <2>1, <3>1, <4>2, <5>1, PromptScanned DEF Permits, Modes
      <4>3. QED BY <4>1, <4>2
    <3>2. CASE ~Prompt(c, kind, "tree", r.source.ps, r.source.ps)
      BY <1>1, <2>4, <3>2 DEF DeleteDirectory, Scanned
    <3>3. QED BY <3>1, <3>2
  <2>5. CASE CopySource(c, kind)
    <3>1. r.tool = "copy_file" /\ \E allowed \in BOOLEAN : GoOn(c, kind, allowed)
      BY <2>5 DEF CopySource, GoOn
    <3>2. QED BY <1>1, <2>1, <3>1, GoOnScanned DEF Request
  <2>6. CASE MoveSource(c, kind)
    <3> DEFINE allowed == /\ DecideFileOpSource(r.source, kind, FALSE, TRUE)
                          /\ \/ IsCaseOnlyChange(r.source, r.target)
                             \/ DecidePathRelation(r.source.name, r.target.name, kind = "dir")
    <3>1. GoOn(c, kind, allowed)
      BY <2>6 DEF MoveSource
    <3>2. allowed => Covered(r.source.ps)
      BY BoundaryCovers DEF DecideFileOpSource
    <3> HIDE DEF allowed
    <3>3. QED BY <1>1, <2>1, <3>1, <3>2, GoOnScanned DEF Request
  <2>7. CASE RenameSource(c, kind)
    <3> DEFINE from == Full(r.source.ps)
               allowed == /\ DecideFileOpSource(r.source, kind, FALSE, TRUE)
                          /\ \/ IsCaseOnlyChange(from, Renaming(r))
                             \/ DecidePathRelation(from.name, Renaming(r).name, kind = "dir")
    <3>1. GoOn(c, kind, allowed)
      BY <2>7 DEF RenameSource
    <3>2. allowed => Covered(r.source.ps)
      BY BoundaryCovers DEF DecideFileOpSource
    <3> HIDE DEF allowed
    <3>3. QED BY <1>1, <2>1, <3>1, <3>2, GoOnScanned DEF Request
  <2>8. QED BY <1>3, <2>3, <2>4, <2>5, <2>6, <2>7 DEF ScanSource
<1>4. QED BY <1>2, <1>3

LEMMA ScanTargetStep ==
  ASSUME FilesInv, NEW c \in FileCalls, ScanTarget(c)
  PROVE  OnlyCallsMove /\ Scanned(c)
<1> DEFINE r == Request(c)
           to == r.target
           kind == call[c].kind
<1>1. call[c].pc = "target" /\ OnlyCallsMove
  BY DEF ScanTarget, AtCall, OnlyCallsMove
<1>2. /\ r \in FileRequests[c] /\ LexicallyAllowed(r)
      /\ r.tool # "create_directory" => kind # Nothing /\ r.source.ps \in Paths
      /\ kind \in Kinds
  BY <1>1, Shaped DEF FilesInv, FileCallInv, Request, FileCallRecords
<1>3. r.tool \in {"copy_file", "move_file", "create_directory"} => to.net \in Paths
  BY <1>2, RequestsAssumption
<1>4. PermitInv(c) /\ r.tool \in {"move_file", "rename_file"} => Covered(r.source.ps)
  BY <1>1 DEF PermitInv, Request
<1>5. CASE FilesOver(c, "refused")
  BY <1>1, <1>5 DEF Scanned
<1>6. CASE CopyTarget(c, to) /\ ~FilesOver(c, "refused")
  <2>1. /\ r.tool = "copy_file" /\ DecideFileOpTarget(to, Kind(to.ps), kind = "dir", r.overwrite)
        /\ Prompt(c, kind, "copy", r.source.ps, to.net)
    BY <1>6 DEF CopyTarget
  <2>a. BoundaryAllows(to, {to.ps, to.net}, TRUE, Kind(to.ps) = "link", Kind(to.ps) = "dir")
    BY <2>1 DEF DecideFileOpTarget
  <2>b. \A p \in {to.ps, to.net} : Covered(p)
    BY <2>a, BoundaryCovers
  <2>2. Covered(to.net)
    BY <2>b
  <2>3. QED BY <1>1, <1>2, <1>3, <2>1, <2>2, PromptScanned DEF Permits, Modes
<1>7. CASE MoveTarget(c, to) /\ ~FilesOver(c, "refused")
  <2>1. r.tool = "move_file"
    BY <1>7 DEF MoveTarget
  <2>2. CASE IsCaseOnlyChange(r.source, r.target)
    <3>1. Prompt(c, kind, "case", r.source.ps, to.net)
      BY <1>7, <2>2 DEF MoveTarget
    <3>2. QED BY <1>1, <1>2, <1>3, <1>4, <2>1, <3>1, PromptScanned DEF Permits, Modes
  <2>3. CASE ~IsCaseOnlyChange(r.source, r.target)
    <3>1. /\ DecideFileOpTarget(to, Kind(to.ps), kind = "dir", r.overwrite)
          /\ \E mode \in {"rename", "cross"} : Prompt(c, kind, mode, r.source.ps, to.net)
      BY <1>7, <2>3 DEF MoveTarget
    <3>2. Covered(to.net)
      BY <3>1, BoundaryCovers DEF DecideFileOpTarget
    <3>3. QED BY <1>1, <1>2, <1>3, <1>4, <2>1, <3>1, <3>2, PromptScanned DEF Permits, Modes
  <2>4. QED BY <2>2, <2>3
<1>8. CASE RenameTarget(c) /\ ~FilesOver(c, "refused")
  <2> DEFINE p == Append(Parent(r.source.ps), r.target.name)
  <2>1. r.tool = "rename_file"
    BY <1>8 DEF RenameTarget
  <2>2. p \in Paths
    BY <1>2, <2>1, RequestsAssumption DEF LexicallyAllowed
  <2>3. Renaming(r).ps = p /\ Renaming(r).net = p /\ Renaming(r).name = p
    BY DEF Renaming, Written
  <2> HIDE DEF p
  <2>4. CASE IsCaseOnlyChange(Full(r.source.ps), Renaming(r))
    <3>1. Prompt(c, kind, "case", r.source.ps, p)
      BY <1>8, <2>3, <2>4 DEF RenameTarget
    <3>2. p = r.source.ps
      BY <2>3, <2>4 DEF IsCaseOnlyChange, Full, Written
    <3>3. QED BY <1>1, <1>2, <1>4, <2>1, <2>2, <3>1, <3>2, PromptScanned DEF Permits, Modes
  <2>5. CASE ~IsCaseOnlyChange(Full(r.source.ps), Renaming(r))
    <3>1. /\ DecideFileOpTarget(Renaming(r), Kind(Renaming(r).ps), kind = "dir", r.overwrite)
          /\ Prompt(c, kind, "rename", r.source.ps, p)
      BY <1>8, <2>3, <2>5 DEF RenameTarget
    <3>2. Covered(p)
      BY <2>3, <3>1, BoundaryCovers DEF DecideFileOpTarget
    <3>3. QED BY <1>1, <1>2, <1>4, <2>1, <2>2, <3>1, <3>2, PromptScanned DEF Permits, Modes
  <2>6. QED BY <2>4, <2>5
<1>9. CASE CreateDirectory(c, to) /\ ~FilesOver(c, "refused")
  <2>1. /\ r.tool = "create_directory" /\ DecideCreateDirectory(to, Kind(to.ps), TopMissing(to.ps))
        /\ Prompt(c, "dir", "create", to.net, to.net)
    BY <1>9 DEF CreateDirectory
  <2>a. BoundaryAllows(to, {to.ps, to.net}, TRUE, FALSE, FALSE)
    BY <2>1 DEF DecideCreateDirectory
  <2>b. \A p \in {to.ps, to.net} : Covered(p)
    BY <2>a, BoundaryCovers
  <2>2. Covered(to.net)
    BY <2>b
  <2>3. "dir" \in Kinds \ {Nothing}
    BY NotDir DEF Kinds
  <2>4. RequestedTarget(r) = to.ps /\ to.ps \in Paths
    BY <1>2, <2>1, RequestsAssumption DEF RequestedTarget
  <2>5. LevelsJudged(MissingLevels(to.ps))
    <3>1. TopMissing(to.ps) # Nothing => Covered(TopMissing(to.ps))
      BY <2>1, BoundaryCovers DEF DecideCreateDirectory
    <3>2. QED BY <2>4, <3>1, LevelsBelowTop
  <2>6. QED BY <1>1, <1>3, <2>1, <2>2, <2>3, <2>4, <2>5, PromptScanned DEF Permits, Modes
<1>10. QED BY <1>5, <1>6, <1>7, <1>8, <1>9 DEF ScanTarget

-----------------------------------------------------------------------------
(* The invariant is kept.                                                  *)

(* A step that changes one call keeps the invariant when the call does.    *)
LEMMA OneFileCall ==
  ASSUME FilesInv, NEW c \in FileCalls,
         fs' \in Files, Rooted(fs'),
         call' \in [FileCalls -> FileCallRecords], \A d \in FileCalls \ {c} : call'[d] = call[d],
         script' \in [FileCalls -> ScriptRecords], \A d \in FileCalls \ {c} : script'[d] = script[d],
         \A e \in changes' : e.call \in FileCalls /\ call'[e.call].answer = "agreed",
         FileCallInv(c)', FileScriptInv(c)'
  PROVE  FilesInv'
<1>1. Shape' /\ TreeInv' /\ HistoryInv'
  BY DEF Shape, TreeInv, Rooted, HistoryInv, Files
<1>2. ASSUME NEW d \in FileCalls PROVE FileCallInv(d)' /\ FileScriptInv(d)'
  <2>1. CASE d = c
    BY <2>1
  <2>2. CASE d # c
    <3>1. call'[d] = call[d] /\ script'[d] = script[d] /\ FileCallInv(d) /\ FileScriptInv(d)
      BY <2>2 DEF FilesInv
    <3>2. FileCallInv(d)'
      BY <3>1 DEF FileCallInv, Planned
    <3>3. FileScriptInv(d)'
      BY <3>1 DEF FileScriptInv, Legal, Request
    <3>4. QED BY <3>2, <3>3
  <2>3. QED BY <2>1, <2>2
<1>3. QED BY <1>1, <1>2 DEF FilesInv

(* A step of the server changes one call and no file.                      *)
LEMMA QuietCall ==
  ASSUME FilesInv, NEW c \in FileCalls, NEW q \in FileCallRecords, call' = [call EXCEPT ![c] = q],
         OnlyCallsMove, call[c].answer = "agreed" => q.answer = "agreed",
         FileCallInv(c)', FileScriptInv(c)'
  PROVE  FilesInv'
<1>1. /\ fs \in Files /\ TreeInv /\ call \in [FileCalls -> FileCallRecords]
      /\ script \in [FileCalls -> ScriptRecords] /\ HistoryInv
  BY Shaped DEF FilesInv
<1>2. call' \in [FileCalls -> FileCallRecords] /\ call'[c] = q /\ \A d \in FileCalls \ {c} : call'[d] = call[d]
  BY <1>1
<1>3. fs' = fs /\ script' = script /\ changes' = changes
  BY DEF OnlyCallsMove
<1>4. \A e \in changes' : e.call \in FileCalls /\ call'[e.call].answer = "agreed"
  BY <1>1, <1>2, <1>3 DEF HistoryInv
<1>5. fs' \in Files /\ Rooted(fs') /\ script' \in [FileCalls -> ScriptRecords]
      /\ \A d \in FileCalls \ {c} : script'[d] = script[d]
  BY <1>1, <1>3 DEF TreeInv
<1>6. QED BY <1>2, <1>4, <1>5, OneFileCall

LEMMA FilesOverKeeps ==
  ASSUME FilesInv, NEW c \in FileCalls, NEW reply \in FileReplies, FilesOver(c, reply), OnlyCallsMove,
         call[c].pc \in Asked \cup {"host"}
  PROVE  FilesInv'
<1> DEFINE q == [call[c] EXCEPT !.pc = "over", !.reply = reply,
                   !.answer = IF call[c].answer = "open" THEN "refused" ELSE call[c].answer]
<1>1. call' = [call EXCEPT ![c] = q]
  BY FilesOverIs
<1>2. call[c] \in FileCallRecords /\ script'[c] = script[c] /\ FileCallInv(c) /\ FileScriptInv(c)
  BY Shaped DEF OnlyCallsMove, FilesInv
<1>3. /\ q \in FileCallRecords /\ q.pc = "over" /\ q.answer # "open"
      /\ call[c].answer = "agreed" <=> q.answer = "agreed"
      /\ q.request = call[c].request /\ q.levels = call[c].levels /\ q.kind = call[c].kind /\ q.mode = call[c].mode
      /\ q.from = call[c].from /\ q.to = call[c].to
  BY <1>2 DEF FileCallRecords
<1> HIDE DEF q
<1>4. call'[c] = q
  BY <1>1, Shaped
<1>5. FileCallInv(c)'
  BY <1>2, <1>3, <1>4 DEF FileCallInv, Planned, Asked
<1>6. FileScriptInv(c)'
  BY <1>2, <1>3, <1>4 DEF FileScriptInv, Legal, Request
<1>7. QED BY <1>1, <1>3, <1>5, <1>6, QuietCall

LEMMA PromptKeeps ==
  ASSUME FilesInv, NEW c \in FileCalls, NEW kind \in Kinds \ {Nothing}, NEW mode \in Modes,
         NEW from \in Paths, NEW to \in Paths, Prompt(c, kind, mode, from, to), OnlyCallsMove,
         mode \in {"delete", "tree"} => ~IsRoot(from),
         mode = "create" => RequestedTarget(Request(c)) \in Paths,
         call[c].pc \in {"source", "target"}
  PROVE  FilesInv'
<1> DEFINE levels == IF mode = "create" THEN MissingLevels(RequestedTarget(Request(c))) ELSE {}
           q == [call[c] EXCEPT !.pc = "prompt", !.kind = kind, !.mode = mode,
                                !.from = from, !.to = to, !.levels = levels]
<1>0. levels \in SUBSET Paths
  BY DEF MissingLevels, Levels
<1> HIDE DEF levels
<1>1. call' = [call EXCEPT ![c] = q]
  BY Shaped DEF Prompt, FileCallRecords, levels
<1>2. call[c] \in FileCallRecords /\ script'[c] = script[c] /\ FileCallInv(c) /\ FileScriptInv(c)
  BY Shaped DEF OnlyCallsMove, FilesInv
<1>3. /\ q \in FileCallRecords /\ q.pc = "prompt" /\ q.answer = call[c].answer /\ q.reply = call[c].reply
      /\ q.request = call[c].request /\ q.kind = kind /\ q.mode = mode
      /\ q.from = from /\ q.to = to
  BY <1>0, <1>2 DEF FileCallRecords, Asked
<1> HIDE DEF q
<1>4. call'[c] = q
  BY <1>1, Shaped
<1>5. /\ call[c].answer = "open" /\ call[c].reply = "none" /\ script[c] = NoScript
      /\ call[c].request \in FileRequests[c]
  BY <1>2 DEF FileCallInv, Asked
<1>6. FileCallInv(c)'
  BY <1>2, <1>3, <1>4, <1>5 DEF FileCallInv, Planned
<1>7. FileScriptInv(c)'
  BY <1>2, <1>3, <1>4, <1>5 DEF FileScriptInv, Legal, NoScript
<1>8. QED BY <1>1, <1>3, <1>5, <1>6, <1>7, QuietCall

LEMMA GoOnKeeps ==
  ASSUME FilesInv, NEW c \in FileCalls, NEW kind \in Kinds \ {Nothing}, GoOn(c, kind, TRUE), OnlyCallsMove,
         call[c].pc = "source", call[c].request.source.ps \in Paths
  PROVE  FilesInv'
<1> DEFINE q == [call[c] EXCEPT !.pc = "target", !.kind = kind]
<1>1. call' = [call EXCEPT ![c] = q]
  BY Shaped DEF GoOn, FileCallRecords
<1>2. call[c] \in FileCallRecords /\ script'[c] = script[c] /\ FileCallInv(c) /\ FileScriptInv(c)
  BY Shaped DEF OnlyCallsMove, FilesInv
<1>3. /\ q \in FileCallRecords /\ q.pc = "target" /\ q.answer = call[c].answer /\ q.reply = call[c].reply
      /\ q.request = call[c].request /\ q.kind = kind /\ q.mode = call[c].mode
      /\ q.from = call[c].from /\ q.to = call[c].to
  BY <1>2 DEF FileCallRecords, Asked
<1> HIDE DEF q
<1>4. call'[c] = q
  BY <1>1, Shaped
<1>5. /\ call[c].answer = "open" /\ call[c].reply = "none" /\ script[c] = NoScript
      /\ call[c].from = Nothing /\ call[c].to = Nothing /\ call[c].mode = Nothing
      /\ call[c].request \in FileRequests[c] /\ LexicallyAllowed(call[c].request)
  BY <1>2 DEF FileCallInv, Asked
<1>6. FileCallInv(c)'
  BY <1>2, <1>3, <1>4, <1>5 DEF FileCallInv, Asked
<1>7. FileScriptInv(c)'
  BY <1>2, <1>3, <1>4, <1>5 DEF FileScriptInv, Legal, NoScript
<1>8. QED BY <1>1, <1>3, <1>5, <1>6, <1>7, QuietCall

LEMMA ScannedKeeps ==
  ASSUME FilesInv, NEW c \in FileCalls, ScanSource(c) \/ ScanTarget(c)
  PROVE  FilesInv'
<1>1. call[c].pc \in {"source", "target"}
  BY DEF ScanSource, ScanTarget, AtCall
<1>2. OnlyCallsMove /\ Scanned(c)
  BY ScanSourceStep, ScanTargetStep
<1>3. CASE FilesOver(c, "refused")
  BY <1>1, <1>2, <1>3, FilesOverKeeps DEF FileReplies, Asked
<1>4. CASE ~FilesOver(c, "refused")
  BY <1>1, <1>2, <1>4, PromptKeeps, GoOnKeeps DEF Scanned
<1>5. QED BY <1>3, <1>4

LEMMA FileAskKeeps ==
  ASSUME FilesInv, NEW c \in FileCalls, FileAsk(c)
  PROVE  FilesInv'
<1>1. PICK r \in FileRequests[c] :
        call' = [call EXCEPT ![c] =
         IF LexicallyAllowed(r)
           THEN [Ready EXCEPT !.request = r,
                   !.pc = IF r.tool = "create_directory" THEN "target" ELSE "source"]
           ELSE [Ready EXCEPT !.request = r, !.pc = "over", !.answer = "refused",
                              !.reply = "refused"]]
  BY DEF FileAsk
<1> DEFINE q == IF LexicallyAllowed(r)
                THEN [Ready EXCEPT !.request = r,
                        !.pc = IF r.tool = "create_directory" THEN "target" ELSE "source"]
                ELSE [Ready EXCEPT !.request = r, !.pc = "over", !.answer = "refused",
                                   !.reply = "refused"]
<1>2. call[c].pc = "idle" /\ call[c] \in FileCallRecords /\ FileCallInv(c) /\ FileScriptInv(c)
      /\ fs' = fs /\ script' = script /\ changes' = changes
  BY Shaped DEF FileAsk, AtCall, FilesInv
<1>3. /\ q \in FileCallRecords /\ q.pc \in {"source", "target", "over"} /\ q.request = r
      /\ q.from = Nothing /\ q.to = Nothing /\ q.mode = Nothing
      /\ q.pc # "over" => q.answer = "open" /\ q.reply = "none" /\ LexicallyAllowed(r)
      /\ q.pc = "over" => q.answer = "refused"
      /\ q.answer # "agreed"
      /\ q.pc = "target" => r.tool = "create_directory"
  BY DEF FileCallRecords, Ready, Requests, Asked, Kinds, FileReplies
<1>4. call' = [call EXCEPT ![c] = q]
  BY <1>1
<1> HIDE DEF q
<1>5. call'[c] = q /\ script'[c] = script[c] /\ \A d \in FileCalls \ {c} : call'[d] = call[d]
  BY <1>2, <1>4, Shaped
<1>6. call[c].answer = "open" /\ script[c] = NoScript
  BY <1>2 DEF FileCallInv
<1>7. FileCallInv(c)'
  BY <1>3, <1>5, <1>6 DEF FileCallInv, Asked
<1>8. FileScriptInv(c)'
  BY <1>5, <1>6 DEF FileScriptInv, Legal, NoScript
<1>9. /\ fs' \in Files /\ Rooted(fs') /\ script' \in [FileCalls -> ScriptRecords]
      /\ call' \in [FileCalls -> FileCallRecords]
      /\ \A d \in FileCalls \ {c} : script'[d] = script[d]
  BY <1>2, <1>3, <1>4, Shaped DEF TreeInv
<1>10. \A e \in changes' : e.call \in FileCalls /\ call'[e.call].answer = "agreed"
  BY <1>2, <1>5, <1>6 DEF FilesInv, HistoryInv
<1>11. QED BY <1>5, <1>7, <1>8, <1>9, <1>10, OneFileCall

LEMMA FileConfirmKeeps ==
  ASSUME FilesInv, NEW c \in FileCalls, FileConfirm(c)
  PROVE  FilesInv'
<1>1. call[c].pc = "prompt" /\ fs' = fs /\ changes' = changes
  BY DEF FileConfirm, AtCall
<1>2. CASE FilesOver(c, "refused") /\ UNCHANGED script
  <2>1. OnlyCallsMove
    BY <1>2 DEF FileConfirm, OnlyCallsMove
  <2>2. QED BY <1>1, <1>2, <2>1, FilesOverKeeps DEF FileReplies, Asked
<1>3. CASE StartScript(c)
  <2> DEFINE q == [call[c] EXCEPT !.pc = "host", !.answer = "agreed"]
             s == Fresh(FirstStep(call[c].mode))
  <2>1. call' = [call EXCEPT ![c] = q] /\ script' = [script EXCEPT ![c] = s]
    BY <1>3, Shaped DEF StartScript, FileCallRecords
  <2>2. call[c] \in FileCallRecords /\ FileCallInv(c) /\ Planned(c)
    BY <1>1, Shaped DEF FilesInv, FileCallInv
  <2>3. /\ FirstStep(call[c].mode) \in WorkStages(call[c].mode)
        /\ FirstStep(call[c].mode) \in {"remove", "links", "target", "source"}
    BY <2>2 DEF Planned, Modes, FirstStep, WorkStages
  <2>4. s \in ScriptRecords /\ s.pc = FirstStep(call[c].mode)
    BY <2>3 DEF Fresh, NoScript, ScriptRecords, Stages
  <2>5. /\ q \in FileCallRecords /\ q.pc = "host" /\ q.answer = "agreed" /\ q.reply = call[c].reply
        /\ q.request = call[c].request /\ q.levels = call[c].levels /\ q.kind = call[c].kind /\ q.mode = call[c].mode
        /\ q.from = call[c].from /\ q.to = call[c].to
    BY <2>2 DEF FileCallRecords
  <2> HIDE DEF q, s
  <2>6. /\ call'[c] = q /\ script'[c] = s /\ \A d \in FileCalls \ {c} : call'[d] = call[d]
        /\ \A d \in FileCalls \ {c} : script'[d] = script[d]
        /\ call' \in [FileCalls -> FileCallRecords] /\ script' \in [FileCalls -> ScriptRecords]
    BY <2>1, <2>4, <2>5, Shaped
  <2>7. call[c].reply = "none"
    BY <1>1, <2>2 DEF FileCallInv, Asked
  <2>8. FileCallInv(c)'
    BY <2>2, <2>3, <2>4, <2>5, <2>6, <2>7 DEF FileCallInv, Planned, Asked
  <2>9. FileScriptInv(c)'
    BY <2>3, <2>4, <2>5, <2>6 DEF FileScriptInv, Legal
  <2>10. \A e \in changes' : e.call \in FileCalls /\ call'[e.call].answer = "agreed"
    BY <1>1, <2>5, <2>6 DEF FilesInv, HistoryInv
  <2>11. fs' \in Files /\ Rooted(fs')
    BY <1>1, Shaped DEF TreeInv
  <2>12. QED BY <2>6, <2>8, <2>9, <2>10, <2>11, OneFileCall
<1>4. QED BY <1>2, <1>3 DEF FileConfirm

LEMMA HostRuns ==
  ASSUME NEW c, HostWorks(c) \/ HostThrows(c)
  PROVE  script[c].pc # "none"
  BY DEF HostWorks, HostThrows, CheckSource, CheckTarget, CopyFile, MeasureCopy, Walk, MakeTarget,
     CopyItem, CopiedAll, MoveItem, MoveAway, MoveBack, DeleteSource, CreateLevels, RemoveFile,
     CheckLinks, RemoveItem, LookAgain, AtHost

(* What a call asked for stays as it is while its command runs.            *)
LEMMA HostFrozen ==
  ASSUME FilesInv, NEW c \in FileCalls, FileScriptStep(c)
  PROVE  /\ call' \in [FileCalls -> FileCallRecords]
         /\ \A d \in FileCalls :
              /\ call'[d].request = call[d].request /\ call'[d].kind = call[d].kind
              /\ call'[d].levels = call[d].levels
              /\ call'[d].mode = call[d].mode /\ call'[d].from = call[d].from
              /\ call'[d].to = call[d].to /\ call'[d].answer = call[d].answer
              /\ d # c => call'[d] = call[d] /\ script'[d] = script[d]
         /\ \/ call'[c] = call[c] /\ (AtCall(c, "host") => script'[c].pc # "none")
            \/ call'[c].pc = "over" /\ script'[c].pc = "none"
<1>1. HostFrame(c) /\ call \in [FileCalls -> FileCallRecords]
  BY Shaped DEF FileScriptStep
<1>2. CASE call' = call /\ (AtCall(c, "host") => script'[c].pc # "none")
  BY <1>1, <1>2 DEF HostFrame
<1>3. CASE ~(call' = call /\ (AtCall(c, "host") => script'[c].pc # "none"))
  <2>1. PICK reply \in FileReplies \ {"none"} :
          call' = [call EXCEPT ![c] = [call[c] EXCEPT !.pc = "over", !.reply = reply]]
    BY <1>1, <1>3 DEF HostFrame, Answered
  <2> DEFINE q == [call[c] EXCEPT !.pc = "over", !.reply = reply]
  <2>2. /\ q \in FileCallRecords /\ q.pc = "over" /\ q.request = call[c].request /\ q.levels = call[c].levels /\ q.kind = call[c].kind
        /\ q.mode = call[c].mode /\ q.from = call[c].from /\ q.to = call[c].to
        /\ q.answer = call[c].answer
    BY <1>1 DEF FileCallRecords
  <2>3. script'[c].pc = "none"
    BY <1>1, <1>3 DEF HostFrame, Answered
  <2> HIDE DEF q
  <2>4. call' = [call EXCEPT ![c] = q]
    BY <2>1 DEF q
  <2>5. QED BY <1>1, <2>2, <2>3, <2>4 DEF HostFrame
<1>4. QED BY <1>2, <1>3

LEMMA HostKeeps ==
  ASSUME FilesInv, NEW c \in FileCalls, HostWorks(c) \/ HostThrows(c)
  PROVE  FilesInv'
<1>1. FileScriptStep(c)
  BY HostWorksStep
<1>2. /\ script[c].pc # "none" /\ call[c].answer = "agreed" /\ Planned(c)
      /\ call[c].pc \in {"host", "over"} /\ FileCallInv(c)
  BY HostRuns, ScriptRuns DEF FilesInv
<1>3. /\ call' \in [FileCalls -> FileCallRecords]
      /\ \A d \in FileCalls :
           /\ call'[d].request = call[d].request /\ call'[d].kind = call[d].kind
           /\ call'[d].levels = call[d].levels
           /\ call'[d].mode = call[d].mode /\ call'[d].from = call[d].from
           /\ call'[d].to = call[d].to /\ call'[d].answer = call[d].answer
           /\ d # c => call'[d] = call[d] /\ script'[d] = script[d]
      /\ \/ call'[c] = call[c] /\ (AtCall(c, "host") => script'[c].pc # "none")
         \/ call'[c].pc = "over" /\ script'[c].pc = "none"
  BY <1>1, HostFrozen
<1>4. script' \in [FileCalls -> ScriptRecords] /\ Legal(c, script'[c])
  BY <1>1 DEF FileScriptStep, HostFrame
<1>5. fs' \in Files /\ Rooted(fs')
  <2>1. CASE Looks
    BY <2>1, Shaped DEF Looks, TreeInv
  <2>2. CASE Lawful(c, fs')
    BY <2>2 DEF Lawful
  <2>3. QED BY <1>1, <2>1, <2>2 DEF FileScriptStep
<1>6. \A e \in changes' : e.call \in FileCalls /\ call'[e.call].answer = "agreed"
  <2>1. \A e \in changes : e.call \in FileCalls /\ call[e.call].answer = "agreed"
    BY DEF FilesInv, HistoryInv
  <2>2. \A e \in changes' : e \in changes \/ e.call = c
    BY <1>1 DEF FileScriptStep, Looks, Changes
  <2>3. QED BY <1>2, <1>3, <2>1, <2>2
<1>7. FileCallInv(c)'
  <2>1. Planned(c)'
    BY <1>2, <1>3 DEF Planned
  <2>2. call'[c].answer = "agreed" /\ call'[c].pc \in {"host", "over"}
    BY <1>2, <1>3
  <2>3. call'[c].pc = "host" => script'[c].pc # "none" /\ call'[c].reply = "none"
    BY <1>2, <1>3 DEF FileCallInv, AtCall
  <2>4. QED BY <2>1, <2>2, <2>3 DEF FileCallInv, Asked
<1>8. FileScriptInv(c)'
  <2>1. Legal(c, script'[c]) => Legal(c, script[c])'
    BY <1>3 DEF Legal, Request
  <2>2. QED BY <1>2, <1>3, <1>4, <2>1 DEF FileScriptInv
<1>9. QED BY <1>3, <1>4, <1>5, <1>6, <1>7, <1>8, OneFileCall

LEMMA MeddleKeeps ==
  ASSUME FilesInv, NEW p \in Paths, Meddle(p)
  PROVE  FilesInv'
<1>1. PICK o \in OtherObjects(p) : fs' = At(p, o)
  BY DEF Meddle
<1>2. /\ o \in Objects \cup {Nothing} /\ ~IsRoot(p) /\ ParentIsDir(p) /\ Content(p) = {}
      /\ UNCHANGED <<call, script, changes>>
  BY DEF Meddle, OtherObjects
<1>3. fs' \in Files /\ Rooted(fs')
  BY <1>1, <1>2, Shaped, AtKeeps
<1>4. Shape' /\ TreeInv' /\ HistoryInv'
  BY <1>2, <1>3 DEF FilesInv, Shape, TreeInv, Rooted, HistoryInv, Files
<1>5. \A c \in FileCalls : FileCallInv(c)' /\ FileScriptInv(c)'
  BY <1>2 DEF FilesInv, FileCallInv, Planned, FileScriptInv, Legal, Request
<1>6. QED BY <1>4, <1>5 DEF FilesInv

LEMMA FilesInvInit == FilesInit => FilesInv
<1> SUFFICES ASSUME FilesInit PROVE FilesInv
  OBVIOUS
<1>1. fs \in Files /\ Rooted(fs)
  BY TreesAssumption DEF FilesInit, Rooted, Files
<1>2. Ready \in FileCallRecords /\ NoScript \in ScriptRecords
  BY DEF Ready, FileCallRecords, NoScript, ScriptRecords, Asked, Kinds, FileReplies
<1>3. Shape /\ TreeInv /\ HistoryInv
  BY <1>1, <1>2 DEF FilesInit, Shape, TreeInv, HistoryInv, Files
<1>4. ASSUME NEW c \in FileCalls PROVE FileCallInv(c) /\ FileScriptInv(c)
  BY DEF FilesInit, FileCallInv, FileScriptInv, Legal, Ready, NoScript, Asked
<1>5. QED BY <1>3, <1>4 DEF FilesInv

LEMMA FilesInvStep == FilesInv /\ [FilesNext]_filesVars => FilesInv'
<1> SUFFICES ASSUME FilesInv, [FilesNext]_filesVars PROVE FilesInv'
  OBVIOUS
<1>1. CASE UNCHANGED filesVars
  BY <1>1 DEF filesVars, FilesInv, Shape, TreeInv, Rooted, HistoryInv, FileCallInv, Planned,
     FileScriptInv, Legal, Request
<1>2. ASSUME NEW c \in FileCalls, FileAsk(c) PROVE FilesInv'
  BY <1>2, FileAskKeeps
<1>3. ASSUME NEW c \in FileCalls, ServerStep(c) PROVE FilesInv'
  <2>1. CASE ScanSource(c) \/ ScanTarget(c)
    BY <2>1, ScannedKeeps
  <2>2. CASE FileRefuse(c)
    BY <2>2, FilesOverKeeps DEF FileRefuse, OnlyCallsMove, FileReplies
  <2>3. CASE FileConfirm(c)
    BY <2>3, FileConfirmKeeps
  <2>4. QED BY <1>3, <2>1, <2>2, <2>3 DEF ServerStep
<1>4. ASSUME NEW c \in FileCalls, FileAnswerLost(c) PROVE FilesInv'
  BY <1>4, FilesOverKeeps DEF FileAnswerLost, AtCall, OnlyCallsMove, FileReplies
<1>5. ASSUME NEW c \in FileCalls, HostWorks(c) \/ HostThrows(c) PROVE FilesInv'
  BY <1>5, HostKeeps
<1>6. ASSUME NEW p \in Paths, Meddle(p) PROVE FilesInv'
  BY <1>6, MeddleKeeps
<1>7. QED BY <1>1, <1>2, <1>3, <1>4, <1>5, <1>6 DEF FilesNext

LEMMA FilesInvariant == FilesSpec => []FilesInv
  BY FilesInvInit, FilesInvStep, PTL DEF FilesSpec

(* The types of all variables, the files are a tree at all times, and a    *)
(* host command runs for an agreed call only.                              *)
THEOREM FilesTypeCorrect == FilesSpec => []FilesTypeOK
<1>1. FilesInv => FilesTypeOK
  <2> SUFFICES ASSUME FilesInv PROVE FilesTypeOK
    OBVIOUS
  <2>1. fs \in [Paths -> Objects \cup {Nothing}] /\ IsTree(fs)
    BY Shaped, HasParent, KindOf, NotDir DEF Files, IsTree, ParentIsDir
  <2>2. ASSUME NEW c \in FileCalls
        PROVE  /\ call[c].pc \in Asked \cup {"idle", "host", "over"}
               /\ call[c].answer \in {"open", "agreed", "refused"}
               /\ call[c].reply \in {"none", "refused", "ok", "warning", "error", "partial", "both", "lost"}
               /\ AtCall(c, "host") => call[c].reply = "none" /\ script[c].pc # "none"
               /\ AtCall(c, "prompt") => call[c].from \in Paths /\ call[c].to \in Paths
               /\ script[c].pc # "none" => call[c].answer = "agreed"
               /\ script[c].todo \subseteq Paths
    <3>1. call[c] \in FileCallRecords /\ script[c] \in ScriptRecords /\ FileCallInv(c) /\ FileScriptInv(c)
      BY Shaped DEF FilesInv
    <3>2. QED BY <3>1 DEF FileCallRecords, ScriptRecords, FileReplies, FileCallInv, FileScriptInv, Planned, AtCall
  <2>3. QED BY <2>1, <2>2 DEF FilesTypeOK
<1>2. QED BY <1>1, FilesInvariant, PTL

-----------------------------------------------------------------------------
(* What is recorded of the changes.                                        *)

(* What a call asked for is settled by its confirmation.                   *)
LEMMA AgreedFrozen ==
  ASSUME FilesInv, [FilesNext]_filesVars, NEW d \in FileCalls, call[d].answer = "agreed"
  PROVE  /\ call'[d].request = call[d].request /\ call'[d].kind = call[d].kind
         /\ call'[d].levels = call[d].levels
         /\ call'[d].mode = call[d].mode /\ call'[d].from = call[d].from
         /\ call'[d].to = call[d].to /\ call'[d].answer = "agreed"
<1>0. call \in [FileCalls -> FileCallRecords] /\ FileCallInv(d) /\ call[d] \in FileCallRecords
  BY Shaped DEF FilesInv
<1>1. CASE UNCHANGED filesVars \/ \E p \in Paths : Meddle(p)
  BY <1>1 DEF filesVars, Meddle
<1>2. ASSUME NEW c \in FileCalls, FileAsk(c) \/ ServerStep(c)
      PROVE  call'[d] = call[d]
  <2>1. call[c].pc \in Asked \cup {"idle"}
    BY <1>2 DEF FileAsk, ServerStep, ScanSource, ScanTarget, FileRefuse, FileConfirm, AtCall, Asked
  <2>2. c # d
    BY <1>0, <2>1 DEF FileCallInv
  <2>3. CASE FileAsk(c)
    BY <1>0, <2>2, <2>3 DEF FileAsk
  <2>4. CASE ScanSource(c) \/ ScanTarget(c)
    <3>1. Scanned(c)
      BY <2>4, ScanSourceStep, ScanTargetStep
    <3>2. QED BY <1>0, <2>2, <3>1, ScannedOther
  <2>5. CASE FileRefuse(c) \/ FileConfirm(c)
    BY <1>0, <2>2, <2>5 DEF FileRefuse, FileConfirm, FilesOver, StartScript
  <2>6. QED BY <1>2, <2>3, <2>4, <2>5 DEF ServerStep
<1>3. ASSUME NEW c \in FileCalls, FileAnswerLost(c)
      PROVE  /\ call'[d].request = call[d].request /\ call'[d].kind = call[d].kind
             /\ call'[d].levels = call[d].levels
             /\ call'[d].mode = call[d].mode /\ call'[d].from = call[d].from
             /\ call'[d].to = call[d].to /\ call'[d].answer = "agreed"
  <2>1. call' = [call EXCEPT ![c] =
           [call[c] EXCEPT !.pc = "over", !.reply = "lost",
                           !.answer = IF call[c].answer = "open" THEN "refused" ELSE call[c].answer]]
    BY <1>3, FilesOverIs DEF FileAnswerLost
  <2>2. CASE c = d
    BY <1>0, <2>1, <2>2 DEF FileCallRecords
  <2>3. CASE c # d
    BY <1>0, <2>1, <2>3
  <2>4. QED BY <2>2, <2>3
<1>4. ASSUME NEW c \in FileCalls, HostWorks(c) \/ HostThrows(c)
      PROVE  /\ call'[d].request = call[d].request /\ call'[d].kind = call[d].kind
             /\ call'[d].levels = call[d].levels
             /\ call'[d].mode = call[d].mode /\ call'[d].from = call[d].from
             /\ call'[d].to = call[d].to /\ call'[d].answer = "agreed"
  BY <1>4, HostWorksStep, HostFrozen
<1>5. QED BY <1>1, <1>2, <1>3, <1>4 DEF FilesNext

(* Only a lawful change of an agreed call is recorded.                     *)
LEMMA RecordedIs ==
  ASSUME FilesInv, [FilesNext]_filesVars, changes' # changes
  PROVE  \E c \in FileCalls :
           /\ call[c].answer = "agreed" /\ Planned(c)
           /\ Changes(c, fs') /\ Lawful(c, fs') /\ FileScriptStep(c)
<1>1. ASSUME NEW c \in FileCalls, ServerStep(c) PROVE changes' = changes
  BY <1>1 DEF ServerStep, ScanSource, ScanTarget, FileRefuse, FileConfirm
<1>2. PICK c \in FileCalls : HostWorks(c) \/ HostThrows(c)
  BY <1>1 DEF FilesNext, filesVars, FileAsk, FileAnswerLost, Meddle
<1>3. FileScriptStep(c)
  BY <1>2, HostWorksStep
<1>4. Changes(c, fs') /\ Lawful(c, fs')
  BY <1>3 DEF FileScriptStep, Looks
<1>5. QED BY <1>2, <1>3, <1>4, HostRuns, ScriptRuns

LEMMA EntryIs ==
  ASSUME NEW c, Changes(c, fs'), NEW e \in changes', e \notin changes
  PROVE  /\ e.call = c /\ e.path \in Paths /\ e.before = fs[e.path] /\ e.after = fs'[e.path]
         /\ fs'[e.path] # fs[e.path]
  BY DEF Changes

(* TR-FS-08: what a host command finds at the target of a call is replaced *)
(* only by a call with overwrite, only when it is a file and only by one,  *)
(* also when it came after the check.                                      *)
THEOREM FilesReplacedByConsent == FilesSpec => []NoSilentReplace
<1>1. FilesInit => NoSilentReplace
  BY DEF FilesInit, NoSilentReplace
<1>2. FilesInv /\ NoSilentReplace /\ [FilesNext]_filesVars => NoSilentReplace'
  <2> SUFFICES ASSUME FilesInv, NoSilentReplace, [FilesNext]_filesVars,
                      NEW e \in changes',
                      call'[e.call].mode \in {"copy", "rename", "cross", "create"},
                      Within(e.path, call'[e.call].to), e.before # Nothing
               PROVE  /\ call'[e.call].request.overwrite
                      /\ e.before.kind = "file" /\ e.after.kind = "file"
    BY DEF NoSilentReplace, Request
  <2>1. CASE e \in changes
    <3>1. e.call \in FileCalls /\ call[e.call].answer = "agreed"
      BY <2>1 DEF FilesInv, HistoryInv
    <3>2. /\ call'[e.call].request = call[e.call].request /\ call'[e.call].mode = call[e.call].mode
          /\ call'[e.call].to = call[e.call].to
      BY <3>1, AgreedFrozen
    <3>3. QED BY <2>1, <3>2 DEF NoSilentReplace, Request
  <2>2. CASE e \notin changes
    <3>1. PICK c \in FileCalls :
            call[c].answer = "agreed" /\ Changes(c, fs') /\ Lawful(c, fs') /\ FileScriptStep(c)
      BY <2>2, RecordedIs
    <3>2. /\ e.call = c /\ e.path \in Paths /\ e.before = fs[e.path] /\ e.after = fs'[e.path]
          /\ fs'[e.path] # fs[e.path]
      BY <2>2, <3>1, EntryIs
    <3>3. Replaces(c, e.path, fs')
      BY <3>1, <3>2 DEF Lawful
    <3>4. call'[c].request = call[c].request /\ call'[c].mode = call[c].mode /\ call'[c].to = call[c].to
      BY <3>1, AgreedFrozen
    <3>5. QED BY <3>2, <3>3, <3>4 DEF Replaces, Request
  <2>3. QED BY <2>1, <2>2
<1>3. QED BY <1>1, <1>2, FilesInvariant, PTL DEF FilesSpec

-----------------------------------------------------------------------------
(* The refinement of ConfirmedChange.                                      *)

ChangedPaths(c) == {e.path : e \in {f \in changes : f.call = c}}

LEMMA TouchedSame ==
  ASSUME NEW c \in FileCalls,
         \/ call[c].from = Nothing /\ call'[c].from = Nothing
         \/ /\ call'[c].from = call[c].from /\ call'[c].to = call[c].to
            /\ call'[c].mode = call[c].mode /\ call'[c].kind = call[c].kind
            /\ call'[c].request = call[c].request /\ call'[c].levels = call[c].levels
  PROVE  Touched(c)' = Touched(c)
<1>1. CASE call[c].from = Nothing /\ call'[c].from = Nothing
  BY <1>1 DEF Touched, Shown, Unshown
<1>2. CASE /\ call'[c].from = call[c].from /\ call'[c].to = call[c].to
           /\ call'[c].mode = call[c].mode /\ call'[c].kind = call[c].kind
           /\ call'[c].request = call[c].request /\ call'[c].levels = call[c].levels
  <2>1. TempPath(c)' = TempPath(c) /\ MakesLevels(c)' = MakesLevels(c) /\ Request(c)' = Request(c)
    BY <1>2 DEF TempPath, MakesLevels, Request
  <2>2. QED BY <1>2, <2>1 DEF Touched, Shown, Unshown, Tree
<1>3. QED BY <1>1, <1>2

(* A step that shows nothing more and changes nothing is an answer or a    *)
(* stutter.                                                                *)
LEMMA AnswerMaps ==
  ASSUME NEW c \in FileCalls, changes' = changes,
         \A d \in FileCalls : Touched(d)' = Touched(d),
         \A d \in FileCalls \ {c} : call'[d].answer = call[d].answer,
         \/ call'[c].answer = call[c].answer
         \/ call[c].answer = "open" /\ call'[c].answer \in {"agreed", "refused"}
  PROVE  [Consent!ConsentNext]_(Consent!ccvars)
<1>1. [d \in FileCalls |-> Touched(d)]' = [d \in FileCalls |-> Touched(d)]
  OBVIOUS
<1>2. [d \in FileCalls |-> {e.path : e \in {f \in changes : f.call = d}}]'
        = [d \in FileCalls |-> {e.path : e \in {f \in changes : f.call = d}}]
  OBVIOUS
<1>3. CASE call'[c].answer = call[c].answer
  <2>1. [d \in FileCalls |-> call[d].answer]' = [d \in FileCalls |-> call[d].answer]
    BY <1>3
  <2>2. QED BY <1>1, <1>2, <2>1 DEF Consent!ccvars
<1>4. CASE call[c].answer = "open" /\ call'[c].answer = "agreed"
  <2>1. [d \in FileCalls |-> call[d].answer]'
          = [[d \in FileCalls |-> call[d].answer] EXCEPT ![c] = "agreed"]
    BY <1>4
  <2>2. Consent!Agree(c)
    BY <1>1, <1>2, <1>4, <2>1 DEF Consent!Agree
  <2>3. QED BY <2>2 DEF Consent!ConsentNext
<1>5. CASE call[c].answer = "open" /\ call'[c].answer = "refused"
  <2>1. [d \in FileCalls |-> call[d].answer]'
          = [[d \in FileCalls |-> call[d].answer] EXCEPT ![c] = "refused"]
    BY <1>5
  <2>2. Consent!Refuse(c)
    BY <1>1, <1>2, <1>5, <2>1 DEF Consent!Refuse
  <2>3. QED BY <2>2 DEF Consent!ConsentNext
<1>6. QED BY <1>3, <1>4, <1>5

LEMMA ShowMaps ==
  ASSUME NEW c \in FileCalls, changes' = changes,
         \A d \in FileCalls \ {c} : Touched(d)' = Touched(d),
         \A d \in FileCalls : call'[d].answer = call[d].answer,
         Touched(c) = {}, Touched(c)' \subseteq Paths, call[c].answer = "open"
  PROVE  Consent!ConsentNext
<1>1. [d \in FileCalls |-> Touched(d)]'
        = [[d \in FileCalls |-> Touched(d)] EXCEPT ![c] = Touched(c)']
  OBVIOUS
<1>2. [d \in FileCalls |-> call[d].answer]' = [d \in FileCalls |-> call[d].answer]
  OBVIOUS
<1>3. [d \in FileCalls |-> {e.path : e \in {f \in changes : f.call = d}}]'
        = [d \in FileCalls |-> {e.path : e \in {f \in changes : f.call = d}}]
  OBVIOUS
<1>4. Consent!Show(c)
  BY <1>1, <1>2, <1>3 DEF Consent!Show
<1>5. QED BY <1>4 DEF Consent!ConsentNext

LEMMA TouchedPaths ==
  ASSUME NEW c, call[c].from = Nothing \/ (call[c].to \in Paths /\ call[c].levels \subseteq Paths)
  PROVE  Touched(c) \subseteq Paths
  BY DEF Touched, Shown, Unshown, Tree, Subtrees, Levels

LEMMA TouchedTrees ==
  ASSUME NEW c, call[c].from # Nothing
  PROVE  /\ call[c].mode # "create" => Tree(call[c].from) \subseteq Touched(c)
         /\ Tree(call[c].to) \subseteq Touched(c)
         /\ call[c].mode = "case" => Tree(TempPath(c)) \subseteq Touched(c)
         /\ MakesLevels(c) => Levels[call[c].to] \subseteq Touched(c)
  BY DEF Touched, Shown, Unshown

(* What a call reaches, its prompt shows or leaves out.                    *)
LEMMA ReachedIsTouched ==
  ASSUME FilesInv, NEW c \in FileCalls, Planned(c), NEW q \in Paths, Reaches(c, q)
  PROVE  q \in Touched(c)
<1>1. call[c].from \in Paths /\ call[c].to \in Paths /\ call[c].from # Nothing
  BY PathsAssumption DEF Planned
<1>2. CASE (Within(q, call[c].from) /\ call[c].mode # "create") \/ Within(q, call[c].to)
  BY <1>1, <1>2, TouchedTrees DEF Tree, Subtrees
<1>3. CASE call[c].mode = "case" /\ ~IsRoot(call[c].from) /\ Within(q, TempPath(c))
  <2>1. IsPath(TempPath(c)) /\ Len(TempPath(c)) = Len(call[c].from) /\ Len(call[c].from) > 0
    BY <1>1, TempIs, PathIsSeq
  <2>2. TempPath(c) \in Paths
    BY <1>3, <2>1, WithinIsPath
  <2>3. QED BY <1>1, <1>3, <2>2, TouchedTrees DEF Tree, Subtrees
<1>4. CASE MakesLevels(c) /\ Within(call[c].to, q)
  BY <1>1, <1>4, TouchedTrees DEF Levels
<1>5. QED BY <1>2, <1>3, <1>4 DEF Reaches

LEMMA ChangeMaps ==
  ASSUME FilesInv, NEW c \in FileCalls, call[c].answer = "agreed", Planned(c),
         Changes(c, fs'), Lawful(c, fs'),
         \A d \in FileCalls : Touched(d)' = Touched(d) /\ call'[d].answer = call[d].answer
  PROVE  Consent!ConsentNext
<1>1. [d \in FileCalls |-> Touched(d)]' = [d \in FileCalls |-> Touched(d)]
  OBVIOUS
<1>2. [d \in FileCalls |-> call[d].answer]' = [d \in FileCalls |-> call[d].answer]
  OBVIOUS
<1>3. \A e \in changes' \ changes : e.call = c /\ e.path \in Touched(c)
  <2>1. ASSUME NEW e \in changes' \ changes PROVE e.call = c /\ e.path \in Touched(c)
    <3>1. e.call = c /\ e.path \in Paths /\ fs'[e.path] # fs[e.path]
      BY EntryIs
    <3>2. Reaches(c, e.path)
      BY <3>1 DEF Lawful
    <3>3. QED BY <3>1, <3>2, ReachedIsTouched
  <2>2. QED BY <2>1
<1>4. changes \subseteq changes'
  BY DEF Changes
<1>5. ChangedPaths(c) \subseteq ChangedPaths(c)' /\ ChangedPaths(c)' \subseteq ChangedPaths(c) \cup Touched(c)
  BY <1>3, <1>4 DEF ChangedPaths
<1>6. \A d \in FileCalls \ {c} : ChangedPaths(d)' = ChangedPaths(d)
  BY <1>3, <1>4 DEF ChangedPaths
<1>7. [d \in FileCalls |-> ChangedPaths(d)]'
        = [[d \in FileCalls |-> ChangedPaths(d)] EXCEPT ![c] = ChangedPaths(c)']
  BY <1>6
<1>8. Consent!Change(c)
  BY <1>1, <1>2, <1>5, <1>7 DEF Consent!Change, ChangedPaths
<1>9. QED BY <1>8 DEF Consent!ConsentNext

LEMMA FilesConsentInit == FilesInit => Consent!ConsentInit
<1> SUFFICES ASSUME FilesInit PROVE Consent!ConsentInit
  OBVIOUS
<1>1. \A c \in FileCalls : call[c].from = Nothing /\ call[c].answer = "open"
  BY DEF FilesInit, Ready
<1>2. [c \in FileCalls |-> Touched(c)] = [c \in FileCalls |-> {}]
  BY <1>1 DEF Touched, Shown, Unshown
<1>3. [c \in FileCalls |-> call[c].answer] = [c \in FileCalls |-> "open"]
  BY <1>1
<1>4. [c \in FileCalls |-> {e.path : e \in {f \in changes : f.call = c}}] = [c \in FileCalls |-> {}]
  BY DEF FilesInit
<1>5. QED BY <1>2, <1>3, <1>4 DEF Consent!ConsentInit

LEMMA FilesOverMaps ==
  ASSUME FilesInv, NEW c \in FileCalls, NEW reply \in FileReplies, FilesOver(c, reply), changes' = changes
  PROVE  [Consent!ConsentNext]_(Consent!ccvars)
<1> DEFINE q == [call[c] EXCEPT !.pc = "over", !.reply = reply,
                   !.answer = IF call[c].answer = "open" THEN "refused" ELSE call[c].answer]
<1>1. call' = [call EXCEPT ![c] = q] /\ call \in [FileCalls -> FileCallRecords]
  BY FilesOverIs, Shaped
<1>2. /\ q.from = call[c].from /\ q.to = call[c].to /\ q.mode = call[c].mode /\ q.kind = call[c].kind
      /\ q.request = call[c].request /\ q.levels = call[c].levels
      /\ q.answer = call[c].answer \/ (call[c].answer = "open" /\ q.answer = "refused")
  BY <1>1 DEF FileCallRecords
<1> HIDE DEF q
<1>3. call'[c] = q /\ \A d \in FileCalls \ {c} : call'[d] = call[d]
  BY <1>1
<1>4. \A d \in FileCalls : Touched(d)' = Touched(d)
  BY <1>2, <1>3, TouchedSame
<1>5. QED BY <1>2, <1>3, <1>4, AnswerMaps

LEMMA ScannedMaps ==
  ASSUME FilesInv, NEW c \in FileCalls, ScanSource(c) \/ ScanTarget(c)
  PROVE  [Consent!ConsentNext]_(Consent!ccvars)
<1>1. Scanned(c) /\ changes' = changes
  BY ScanSourceStep, ScanTargetStep DEF OnlyCallsMove
<1>2. /\ call[c].answer = "open" /\ call[c].from = Nothing /\ call \in [FileCalls -> FileCallRecords]
      /\ Touched(c) = {}
  BY Shaped DEF ScanSource, ScanTarget, AtCall, FilesInv, FileCallInv, Touched, Shown, Unshown, Asked
<1>3. CASE FilesOver(c, "refused")
  BY <1>1, <1>3, FilesOverMaps DEF FileReplies
<1>4. ASSUME NEW kind \in Kinds \ {Nothing}, GoOn(c, kind, TRUE)
      PROVE  [Consent!ConsentNext]_(Consent!ccvars)
  <2>1. /\ call'[c].from = Nothing /\ call'[c].answer = call[c].answer
        /\ \A d \in FileCalls \ {c} : call'[d] = call[d]
    BY <1>2, <1>4 DEF GoOn, FileCallRecords
  <2>2. \A d \in FileCalls : Touched(d)' = Touched(d)
    BY <1>2, <2>1, TouchedSame
  <2>3. QED BY <1>1, <2>1, <2>2, AnswerMaps
<1>5. ASSUME NEW kind \in Kinds \ {Nothing}, NEW mode \in Modes, NEW from \in Paths, NEW to \in Paths,
             Prompt(c, kind, mode, from, to), mode = "create" => RequestedTarget(Request(c)) \in Paths
      PROVE  [Consent!ConsentNext]_(Consent!ccvars)
  <2>1. /\ call'[c].to = to /\ call'[c].answer = call[c].answer
        /\ \A d \in FileCalls \ {c} : call'[d] = call[d]
        /\ call'[c].levels = IF mode = "create" THEN MissingLevels(RequestedTarget(Request(c))) ELSE {}
    BY <1>2, <1>5 DEF Prompt, FileCallRecords
  <2>2. \A d \in FileCalls \ {c} : Touched(d)' = Touched(d)
    BY <2>1, TouchedSame
  <2>a. call'[c].levels \subseteq Paths
    BY <1>5, <2>1 DEF MissingLevels, Levels
  <2>3. Touched(c)' \subseteq Paths
    BY <2>1, <2>a DEF Touched, Shown, Unshown, Tree, Subtrees, Levels
  <2>4. QED BY <1>1, <1>2, <2>1, <2>2, <2>3, ShowMaps
<1>6. QED BY <1>1, <1>3, <1>4, <1>5 DEF Scanned

LEMMA FilesConsentStep ==
  FilesInv /\ [FilesNext]_filesVars => [Consent!ConsentNext]_(Consent!ccvars)
<1> SUFFICES ASSUME FilesInv, [FilesNext]_filesVars
             PROVE  [Consent!ConsentNext]_(Consent!ccvars)
  OBVIOUS
<1>0. call \in [FileCalls -> FileCallRecords]
  BY Shaped
<1>1. CASE call' = call /\ changes' = changes
  <2>1. \A d \in FileCalls : Touched(d)' = Touched(d) /\ call'[d].answer = call[d].answer
    BY <1>1, TouchedSame
  <2>2. QED BY <1>1, <2>1 DEF Consent!ccvars
<1>2. ASSUME NEW c \in FileCalls, FileAsk(c) PROVE [Consent!ConsentNext]_(Consent!ccvars)
  <2>1. /\ call[c].from = Nothing /\ call[c].answer = "open" /\ changes' = changes
    BY <1>2 DEF FileAsk, AtCall, FilesInv, FileCallInv, Asked
  <2>2. /\ call'[c].from = Nothing /\ call'[c].answer \in {"open", "refused"}
        /\ \A d \in FileCalls \ {c} : call'[d] = call[d]
    BY <1>0, <1>2 DEF FileAsk, Ready
  <2>3. \A d \in FileCalls : Touched(d)' = Touched(d)
    BY <2>1, <2>2, TouchedSame
  <2>4. QED BY <2>1, <2>2, <2>3, AnswerMaps
<1>3. ASSUME NEW c \in FileCalls, ServerStep(c) PROVE [Consent!ConsentNext]_(Consent!ccvars)
  <2>1. CASE ScanSource(c) \/ ScanTarget(c)
    BY <2>1, ScannedMaps
  <2>2. CASE FileRefuse(c)
    BY <2>2, FilesOverMaps DEF FileRefuse, FileReplies
  <2>3. CASE FileConfirm(c)
    <3>1. CASE FilesOver(c, "refused")
      BY <2>3, <3>1, FilesOverMaps DEF FileConfirm, FileReplies
    <3>2. CASE StartScript(c)
      <4>1. call[c].answer = "open" /\ changes' = changes
        BY <2>3 DEF FileConfirm, AtCall, FilesInv, FileCallInv, Asked
      <4>2. /\ call'[c].from = call[c].from /\ call'[c].to = call[c].to
            /\ call'[c].mode = call[c].mode /\ call'[c].kind = call[c].kind
            /\ call'[c].request = call[c].request /\ call'[c].levels = call[c].levels
            /\ call'[c].answer = "agreed"
            /\ \A d \in FileCalls \ {c} : call'[d] = call[d]
        BY <1>0, <3>2 DEF StartScript, FileCallRecords
      <4>3. \A d \in FileCalls : Touched(d)' = Touched(d)
        BY <4>2, TouchedSame
      <4>4. QED BY <4>1, <4>2, <4>3, AnswerMaps
    <3>3. QED BY <2>3, <3>1, <3>2 DEF FileConfirm
  <2>4. QED BY <1>3, <2>1, <2>2, <2>3 DEF ServerStep
<1>4. ASSUME NEW c \in FileCalls, FileAnswerLost(c) PROVE [Consent!ConsentNext]_(Consent!ccvars)
  BY <1>4, FilesOverMaps DEF FileAnswerLost, FileReplies
<1>5. ASSUME NEW c \in FileCalls, HostWorks(c) \/ HostThrows(c)
      PROVE  [Consent!ConsentNext]_(Consent!ccvars)
  <2>1. FileScriptStep(c) /\ call[c].answer = "agreed" /\ Planned(c)
    BY <1>5, HostWorksStep, HostRuns, ScriptRuns
  <2>2. \A d \in FileCalls : Touched(d)' = Touched(d) /\ call'[d].answer = call[d].answer
    BY <2>1, HostFrozen, TouchedSame
  <2>3. CASE Looks
    BY <2>2, <2>3, AnswerMaps DEF Looks
  <2>4. CASE Changes(c, fs') /\ Lawful(c, fs')
    BY <2>1, <2>2, <2>4, ChangeMaps
  <2>5. QED BY <2>1, <2>3, <2>4 DEF FileScriptStep
<1>6. ASSUME NEW p \in Paths, Meddle(p) PROVE [Consent!ConsentNext]_(Consent!ccvars)
  BY <1>1, <1>6 DEF Meddle
<1>7. QED BY <1>1, <1>2, <1>3, <1>4, <1>5, <1>6 DEF FilesNext, filesVars

(* DR-5: the file tools implement ConfirmedChange: a call changes only     *)
(* places that its prompt showed or that are of the three kinds it leaves  *)
(* out (Unshown), and only after an agreement; a refused call changes      *)
(* nothing, whoever else is at work on the same files.                     *)
THEOREM FilesAreConsented == FilesSpec => FilesConsented
  BY FilesConsentInit, FilesConsentStep, FilesInvariant, PTL
  DEF FilesSpec, FilesConsented, Consent!ConsentSpec

-----------------------------------------------------------------------------
(* Protected paths.                                                        *)



(* The temporary name beside a covered source lies below an entry, too.    *)
LEMMA TempCovered ==
  ASSUME FilesInv, NEW c \in FileCalls, call[c].from \in Paths, ~IsRoot(call[c].from),
         Covered(call[c].from), NEW q \in Paths, Within(q, TempPath(c)), InProtected(q)
  PROVE  BelowEntry(q)
<1> DEFINE from == call[c].from
           temp == TempPath(c)
<1>1. /\ IsPath(temp) /\ Len(temp) = Len(from) /\ Parent(temp) = Parent(from) /\ temp[Len(from)] = c
      /\ IsPath(from) /\ Len(from) \in Nat /\ Len(from) > 0 /\ IsPath(q) /\ Len(q) \in Nat
  BY TempIs, PathIsSeq
<1>2. Len(from) # 1
  BY DEF IsRoot
<1>3. /\ IsPath(Parent(from)) /\ Len(Parent(from)) = Len(from) - 1
      /\ Below(from, Parent(from)) /\ Below(temp, Parent(from))
  BY <1>1, ParentIsPath
<1>4. PICK e \in Dirs : Len(e) = 2 /\ Within(temp, e) /\ Within(q, e)
  BY <1>1, <1>2, ProtectsAbove DEF IsRoot
<1>5. IsPath(e)
  BY DirsArePaths, PathIsSeq
<1>6. Len(from) # 2
  <2>1. SUFFICES ASSUME Len(from) = 2 PROVE FALSE
    OBVIOUS
  <2>2. temp = e
    BY <1>1, <1>4, <1>5, <2>1, WithinBoth
  <2>3. e[2] = c
    BY <1>1, <2>1, <2>2
  <2>4. QED BY <2>3, DirsAssumption
<1>7. Within(Parent(from), e)
  <2>1. \A n \in Nat : n > 0 /\ n # 1 /\ n # 2 => 2 =< n - 1
    OBVIOUS
  <2>2. Len(e) =< Len(Parent(from))
    BY <1>1, <1>2, <1>3, <1>4, <1>6, <2>1
  <2>3. QED BY <1>1, <1>3, <1>4, <1>5, <2>2, WithinCompare DEF Below
<1>8. Within(from, e)
  BY <1>1, <1>3, <1>5, <1>7, WithinTrans DEF Below
<1>9. RefuseResolved(from, TRUE)
  BY <1>8 DEF RefuseResolved, IsProtectedPath, Containing, Dirs
<1>10. PICK a \in AllowPaths : Below(from, a)
  BY <1>9 DEF Covered, WritePathAllowed
<1>11. IsPath(a) /\ Len(a) \in Nat
  BY DirsArePaths, PathIsSeq
<1>12. Within(Parent(from), a)
  BY <1>1, <1>10, <1>11, BelowParent
<1>13. Within(temp, a) /\ Within(q, a)
  BY <1>1, <1>3, <1>11, <1>12, WithinTrans DEF Below
<1>14. q # a
  <2>1. Len(from) =< Len(q) /\ Len(a) =< Len(from) - 1
    BY <1>1, <1>3, <1>12 DEF Within
  <2>2. QED BY <1>1, <1>11, <2>1
<1>15. QED BY <1>13, <1>14 DEF Below, BelowEntry

(* A protected directory on the way to a covered target is below an entry, *)
(* or is the entry of the target or above it.                              *)
LEMMA LevelCovered ==
  ASSUME NEW y \in Paths, Covered(y), NEW q \in Paths, Within(y, q), ~IsRoot(q), InProtected(q)
  PROVE  BelowEntry(q) \/ \E a \in AllowPaths : Below(y, a) /\ Within(a, q)
<1>1. IsPath(y) /\ IsPath(q) /\ Len(q) \in Nat /\ Len(y) \in Nat
  BY PathIsSeq
<1>2. RefuseResolved(y, TRUE)
  <2>1. PICK d \in Dirs : Within(q, d)
    BY DEF InProtected
  <2>2. Within(y, d)
    BY <1>1, <2>1, DirsArePaths, PathIsSeq, WithinTrans
  <2>3. QED BY <2>2 DEF RefuseResolved, IsProtectedPath, Containing, Dirs
<1>3. PICK a \in AllowPaths : Below(y, a) \/ (IsRoot(a) /\ y = a)
  BY <1>2 DEF Covered, WritePathAllowed
<1>4. a \in Paths /\ IsPath(a) /\ Len(a) \in Nat /\ Within(y, a)
  BY <1>1, <1>3, DirsArePaths, PathIsSeq, WithinSelf DEF Below
<1>5. Below(y, a)
  <2>1. SUFFICES ASSUME IsRoot(a), y = a PROVE FALSE
    BY <1>3
  <2>2. Len(q) = 1
    <3>1. Len(y) = 1 /\ Len(q) =< Len(y)
      BY <2>1 DEF Within, IsRoot
    <3>2. Len(q) > 0
      BY PathIsSeq
    <3>3. QED BY <1>1, <3>1, <3>2
  <2>3. QED BY <2>2 DEF IsRoot
<1>6. Within(q, a) \/ Within(a, q)
  <2>1. Len(a) =< Len(q) \/ Len(q) =< Len(a)
    BY <1>1, <1>4
  <2>2. QED BY <1>1, <1>4, <2>1, WithinCompare
<1>7. CASE Within(a, q)
  BY <1>5, <1>7
<1>8. CASE Within(q, a) /\ ~Within(a, q)
  <2>1. q # a
    BY <1>1, <1>8, WithinSelf
  <2>2. QED BY <1>8, <2>1 DEF Below, BelowEntry
<1>9. QED BY <1>6, <1>7, <1>8

(* The roots of the volumes stay what they are.                            *)
LEMMA RootsKept ==
  ASSUME FilesInv, NEW f \in Files, Rooted(f), NEW p \in Paths, f[p] # fs[p]
  PROVE  ~IsRoot(p)
<1>1. SUFFICES ASSUME IsRoot(p) PROVE FALSE
  OBVIOUS
<1>2. f[p] \in Objects /\ f[p].kind = "dir" /\ fs[p] \in Objects /\ fs[p].kind = "dir"
  BY <1>1, Shaped DEF TreeInv, Rooted, Files
<1>3. QED BY <1>2, ObjectKinds

(* A step of one call leaves the others.                                   *)
LEMMA OtherCallKept ==
  ASSUME FilesInv, NEW c \in FileCalls, NEW d \in FileCalls \ {c},
         FileAsk(d) \/ ServerStep(d) \/ FileAnswerLost(d) \/ HostWorks(d) \/ HostThrows(d)
  PROVE  call'[c] = call[c]
<1>0. call \in [FileCalls -> FileCallRecords]
  BY Shaped
<1>1. CASE HostWorks(d) \/ HostThrows(d)
  BY <1>1, HostWorksStep, HostFrozen
<1>2. CASE ScanSource(d) \/ ScanTarget(d)
  <2>1. Scanned(d)
    BY <1>2, ScanSourceStep, ScanTargetStep
  <2>2. QED BY <1>0, <2>1, ScannedOther
<1>3. CASE FileAsk(d) \/ FileRefuse(d) \/ FileConfirm(d) \/ FileAnswerLost(d)
  BY <1>0, <1>3 DEF FileAsk, FileRefuse, FileConfirm, FileAnswerLost, FilesOver, StartScript
<1>4. QED BY <1>1, <1>2, <1>3 DEF ServerStep

LEMMA PermitInvStep ==
  ASSUME FilesInv, \A c \in FileCalls : PermitInv(c), [FilesNext]_filesVars,
         NEW c \in FileCalls
  PROVE  PermitInv(c)'
<1>0. call \in [FileCalls -> FileCallRecords] /\ PermitInv(c) /\ FileCallInv(c)
  BY Shaped DEF FilesInv
<1>1. CASE call'[c] = call[c]
  BY <1>0, <1>1 DEF PermitInv
<1>2. CASE FileAsk(c)
  BY <1>0, <1>2 DEF FileAsk, Ready, PermitInv
<1>3. CASE FileRefuse(c) \/ FileAnswerLost(c)
  <2>1. PICK reply \in FileReplies : FilesOver(c, reply)
    BY <1>3 DEF FileRefuse, FileAnswerLost, FileReplies
  <2> DEFINE q == [call[c] EXCEPT !.pc = "over", !.reply = reply,
                     !.answer = IF call[c].answer = "open" THEN "refused" ELSE call[c].answer]
  <2>2. call' = [call EXCEPT ![c] = q]
    BY <2>1, FilesOverIs
  <2>3. /\ q.pc = "over" /\ q.mode = call[c].mode /\ q.from = call[c].from /\ q.to = call[c].to
        /\ q.levels = call[c].levels
        /\ q.answer = "agreed" => call[c].answer = "agreed"
    BY <1>0 DEF FileCallRecords
  <2> HIDE DEF q
  <2>a. call'[c] = q
    BY <1>0, <2>2
  <2>4. QED BY <1>0, <2>3, <2>a DEF PermitInv
<1>4. CASE ScanSource(c) \/ ScanTarget(c)
  <2>1. Scanned(c) /\ call[c].answer = "open" /\ call[c].pc \in {"source", "target"}
    BY <1>0, <1>4, ScanSourceStep, ScanTargetStep DEF ScanSource, ScanTarget, AtCall, FileCallInv, Asked
  <2>2. CASE FilesOver(c, "refused")
    <3>1. call'[c].pc = "over" /\ call'[c].answer = "refused"
      BY <1>0, <2>1, <2>2 DEF FilesOver, FileCallRecords
    <3>2. QED BY <3>1 DEF PermitInv
  <2>3. ASSUME NEW kind \in Kinds \ {Nothing}, GoOn(c, kind, TRUE),
               call[c].request.tool \in {"move_file", "rename_file"} => Covered(call[c].request.source.ps)
        PROVE  PermitInv(c)'
    <3>1. /\ call'[c].pc = "target" /\ call'[c].answer = "open"
          /\ call'[c].request = call[c].request
      BY <1>0, <2>1, <2>3 DEF GoOn, FileCallRecords
    <3>2. QED BY <2>3, <3>1 DEF PermitInv
  <2>4. ASSUME NEW kind \in Kinds \ {Nothing}, NEW mode \in Modes, NEW from \in Paths,
               NEW to \in Paths, Prompt(c, kind, mode, from, to), Permits(mode, from, to),
               mode = "create" => LevelsJudged(MissingLevels(RequestedTarget(Request(c))))
        PROVE  PermitInv(c)'
    <3>1. /\ call'[c].pc = "prompt" /\ call'[c].mode = mode /\ call'[c].from = from
          /\ call'[c].to = to
          /\ call'[c].levels = IF mode = "create" THEN MissingLevels(RequestedTarget(Request(c))) ELSE {}
      BY <1>0, <2>4 DEF Prompt, FileCallRecords
    <3>a. LevelsJudged(call'[c].levels)
      BY <2>4, <3>1 DEF LevelsJudged
    <3>2. QED BY <2>4, <3>1, <3>a DEF PermitInv
  <2>5. QED BY <1>0, <2>1, <2>2, <2>3, <2>4 DEF Scanned
<1>5. CASE FileConfirm(c)
  <2>1. call[c].pc = "prompt"
    BY <1>5 DEF FileConfirm, AtCall
  <2>2. call'[c].mode = call[c].mode /\ call'[c].from = call[c].from /\ call'[c].to = call[c].to
        /\ call'[c].levels = call[c].levels /\ call'[c].pc \in {"host", "over"}
    BY <1>0, <1>5 DEF FileConfirm, FilesOver, StartScript, FileCallRecords
  <2>3. QED BY <1>0, <2>1, <2>2 DEF PermitInv
<1>6. CASE HostWorks(c) \/ HostThrows(c)
  <2>1. /\ call'[c].mode = call[c].mode /\ call'[c].from = call[c].from /\ call'[c].to = call[c].to
        /\ call'[c].answer = call[c].answer /\ call'[c].levels = call[c].levels
        /\ call'[c] = call[c] \/ call'[c].pc = "over"
    BY <1>6, HostWorksStep, HostFrozen
  <2>2. QED BY <1>0, <1>1, <2>1 DEF PermitInv
<1>7. ASSUME NEW d \in FileCalls \ {c},
             FileAsk(d) \/ ServerStep(d) \/ FileAnswerLost(d) \/ HostWorks(d) \/ HostThrows(d)
      PROVE  call'[c] = call[c]
  BY <1>7, OtherCallKept
<1>8. CASE UNCHANGED filesVars \/ \E p \in Paths : Meddle(p)
  BY <1>1, <1>8 DEF filesVars, Meddle
<1>9. QED BY <1>1, <1>2, <1>3, <1>4, <1>5, <1>6, <1>7, <1>8 DEF FilesNext, ServerStep

(* What a lawful change reaches of the protected paths is below an entry,  *)
(* or one of the two places that no verdict was about.                     *)
LEMMA ReachedIsCovered ==
  ASSUME FilesInv, NEW c \in FileCalls, PermitInv(c),
         call[c].answer = "agreed", Planned(c), NEW q \in Paths, ~IsRoot(q), Reaches(c, q), InProtected(q)
  PROVE  /\ call[c].mode # "tree"
         /\ \/ BelowEntry(q)
            \/ /\ MakesLevels(c) /\ q \notin call[c].levels /\ fs[q] = Nothing
               /\ \E a \in AllowPaths : Below(call[c].to, a) /\ Within(a, q)
               /\ ~Within(q, call[c].to)
            \/ call[c].mode = "case" /\ call[c].to # call[c].from /\ Within(q, call[c].to)
<1> DEFINE from == call[c].from
           to == call[c].to
           mode == call[c].mode
<1>1. /\ from \in Paths /\ to \in Paths /\ IsPath(from) /\ IsPath(to) /\ Len(from) > 0 /\ Len(to) > 0
      /\ Permits(mode, from, to) /\ LevelsJudged(call[c].levels)
  BY PathIsSeq DEF Planned, PermitInv
<1>2. CASE mode \in {"delete", "tree", "rename", "case", "cross"} /\ Within(q, from)
  <2>1. RefuseResolved(from, TRUE)
    BY <1>1, <1>2, ProtectsAbove
  <2>2. mode # "tree" /\ Covered(from)
    BY <1>1, <1>2, <2>1 DEF Permits
  <2>3. QED BY <1>1, <1>2, <2>1, <2>2, EntryAbove
<1>3. CASE mode \in {"copy", "rename", "cross", "create"} /\ Within(q, to)
  <2>1. RefuseResolved(to, TRUE)
    BY <1>1, <1>3, ProtectsAbove
  <2>2. mode # "tree" /\ Covered(to)
    BY <1>1, <1>3 DEF Permits
  <2>3. QED BY <1>1, <1>3, <2>1, <2>2, EntryAbove
<1>4. CASE mode = "case" /\ ~IsRoot(from) /\ Within(q, TempPath(c))
  <2>1. Covered(from)
    BY <1>1, <1>4 DEF Permits
  <2>2. QED BY <1>1, <1>4, <2>1, TempCovered
<1>5. CASE MakesLevels(c) /\ Within(to, q) /\ fs[q] = Nothing /\ ~Within(q, to)
  <2>1. Covered(to) /\ mode # "tree"
    BY <1>1, <1>5 DEF Permits, MakesLevels
  <2>2. q \in call[c].levels => BelowEntry(q)
    BY <1>1 DEF LevelsJudged
  <2>3. BelowEntry(q) \/ \E a \in AllowPaths : Below(to, a) /\ Within(a, q)
    BY <1>1, <1>5, <2>1, LevelCovered
  <2>4. QED BY <1>5, <2>1, <2>2, <2>3
<1>6. CASE mode = "case" /\ Within(q, to)
  <2>1. CASE to = from
    BY <1>2, <1>6, <2>1
  <2>2. CASE to # from
    BY <1>6, <2>2
  <2>3. QED BY <2>1, <2>2
<1>7. CASE MakesLevels(c) /\ Within(q, to)
  BY <1>3, <1>7 DEF MakesLevels
<1>8. QED BY <1>2, <1>3, <1>4, <1>5, <1>6, <1>7 DEF Reaches

(* DR-6, TR-FS-07: a protected path changes only below an entry, but for a *)
(* level that no verdict was about and the target of a change of case that *)
(* .NET takes elsewhere, and never by a recursive deletion; a link, a      *)
(* relative path and the temporary name included.                          *)
THEOREM ProtectedPathsKept == FilesSpec => []ProtectedKept
<1> DEFINE Inv == FilesInv /\ (\A c \in FileCalls : PermitInv(c)) /\ ProtectedKept
<1>1. FilesInit => Inv
  <2>1. FilesInit => \A c \in FileCalls : PermitInv(c)
    BY DEF FilesInit, PermitInv, Ready
  <2>2. FilesInit => ProtectedKept
    BY DEF FilesInit, ProtectedKept
  <2>3. QED BY <2>1, <2>2, FilesInvInit
<1>2. Inv /\ [FilesNext]_filesVars => Inv'
  <2> SUFFICES ASSUME Inv, [FilesNext]_filesVars PROVE Inv'
    OBVIOUS
  <2>1. FilesInv'
    BY FilesInvStep
  <2>2. \A c \in FileCalls : PermitInv(c)'
    BY PermitInvStep
  <2>a. ASSUME NEW e \in changes', call[e.call].answer = "agreed", e.call \in FileCalls
        PROVE  /\ call'[e.call].mode = call[e.call].mode
               /\ UnjudgedLevel(e)' <=> UnjudgedLevel(e)
               /\ UnjudgedTarget(e)' <=> UnjudgedTarget(e)
    <3>1. /\ call'[e.call].mode = call[e.call].mode /\ call'[e.call].kind = call[e.call].kind
          /\ call'[e.call].from = call[e.call].from /\ call'[e.call].to = call[e.call].to
          /\ call'[e.call].levels = call[e.call].levels
      BY <2>a, AgreedFrozen
    <3>2. MakesLevels(e.call)' <=> MakesLevels(e.call)
      BY <3>1 DEF MakesLevels
    <3>3. QED BY <3>1, <3>2 DEF UnjudgedLevel, UnjudgedTarget
  <2>3. ASSUME NEW e \in changes', IsProtected(e.path)
        PROVE  /\ BelowEntry(e.path) \/ UnjudgedLevel(e)' \/ UnjudgedTarget(e)'
               /\ call'[e.call].mode # "tree"
    <3>1. CASE e \in changes
      <4>1. e.call \in FileCalls /\ call[e.call].answer = "agreed"
        BY <3>1 DEF FilesInv, HistoryInv
      <4>2. /\ BelowEntry(e.path) \/ UnjudgedLevel(e) \/ UnjudgedTarget(e)
            /\ call[e.call].mode # "tree"
        BY <2>3, <3>1 DEF ProtectedKept
      <4>3. QED BY <2>a, <4>1, <4>2
    <3>2. CASE e \notin changes
      <4>1. PICK c \in FileCalls :
              call[c].answer = "agreed" /\ Planned(c) /\ Changes(c, fs') /\ Lawful(c, fs')
        BY <3>2, RecordedIs
      <4>2. /\ e.call = c /\ e.path \in Paths /\ fs'[e.path] # fs[e.path]
            /\ e.before = fs[e.path] /\ e.after = fs'[e.path]
        BY <3>2, <4>1, EntryIs
      <4>3. Reaches(c, e.path) /\ ~IsRoot(e.path)
        BY <4>1, <4>2, RootsKept DEF Lawful
      <4>4. InProtected(e.path)
        BY <2>3, <4>3 DEF InProtected, IsProtected
      <4>5. CASE ~BelowEntry(e.path) /\ MakesLevels(c) /\ e.path \notin call[c].levels
                 /\ fs[e.path] = Nothing /\ ~Within(e.path, call[c].to)
                 /\ \E a \in AllowPaths : Below(call[c].to, a) /\ Within(a, e.path)
        <5>1. e.after = Directory
          BY <4>1, <4>2, <4>5 DEF Lawful, Replaces
        <5>2. UnjudgedLevel(e)
          BY <4>2, <4>5, <5>1 DEF UnjudgedLevel
        <5>3. call[c].mode # "tree"
          BY <4>5 DEF MakesLevels
        <5>4. QED BY <2>a, <4>1, <4>2, <5>2, <5>3
      <4>6. CASE call[c].mode = "case" /\ call[c].to # call[c].from /\ Within(e.path, call[c].to)
        <5>1. UnjudgedTarget(e)
          BY <4>2, <4>6 DEF UnjudgedTarget
        <5>2. QED BY <2>a, <4>1, <4>2, <4>6, <5>1
      <4>7. CASE BelowEntry(e.path)
        <5>1. call[c].mode # "tree"
          BY <4>1, <4>2, <4>3, <4>4, ReachedIsCovered
        <5>2. QED BY <2>a, <4>1, <4>2, <4>7, <5>1
      <4>8. QED BY <4>1, <4>2, <4>3, <4>4, <4>5, <4>6, <4>7, ReachedIsCovered
    <3>3. QED BY <3>1, <3>2
  <2>4. ProtectedKept'
    BY <2>3 DEF ProtectedKept
  <2>5. QED BY <2>1, <2>2, <2>4
<1>3. Inv => ProtectedKept
  OBVIOUS
<1>4. QED BY <1>1, <1>2, <1>3, PTL DEF FilesSpec

-----------------------------------------------------------------------------
(* A move never loses the object.                                          *)

ImageIn(f, p) ==
  {<<SubSeq(q, Len(p) + 1, Len(q)), f[q]>> : q \in {r \in Tree(p) : f[r] # Nothing}}

Moving == {"rename", "case", "cross"}

(* Where the object of a call k of c is whole at each step of its command. *)
Trail(f, k, c, s) ==
  /\ s.pc \in {"target", "move", "away", "copy", "measure", "delete"} => ImageIn(f, k.from) = s.origin
  /\ s.pc = "back" => ImageIn(f, Append(Parent(k.from), c)) = s.origin
  /\ s.pc = "measure" => /\ f[k.from] # Nothing /\ f[k.from].kind = "file"
                         /\ f[k.to] \in {f[k.from], [kind |-> "file", data |-> Part]}
  /\ s.pc \in {"delete", "look"} => ImageIn(f, k.to) = s.origin
  /\ s.pc = "none" => \/ ImageIn(f, k.from) = s.origin \/ ImageIn(f, k.to) = s.origin
                      \/ k.mode = "case" /\ ImageIn(f, Append(Parent(k.from), c)) = s.origin

VanishInv(c) ==
  /\ script[c].pc = "source" => script[c].origin = {}
  /\ script[c].origin # {} => call[c].answer = "agreed"
  /\ call[c].mode \in Moving /\ c \notin disturbed /\ script[c].origin # {} =>
       Trail(fs, call[c], c, script[c])

LEMMA ImageSame ==
  ASSUME NEW f, NEW g, NEW p, \A q \in Tree(p) : f[q] = g[q]
  PROVE  ImageIn(f, p) = ImageIn(g, p)
<1>1. {r \in Tree(p) : f[r] # Nothing} = {r \in Tree(p) : g[r] # Nothing}
  OBVIOUS
<1>2. QED BY <1>1 DEF ImageIn

(* The names below a place stay when the place gets another name.          *)
LEMMA TailSame ==
  ASSUME NEW s, NEW q, NEW p, IsPath(s), IsPath(q), IsPath(p), Within(s, q), NEW m, m = Moved(s, q, p)
  PROVE  SubSeq(m, Len(p) + 1, Len(m)) = SubSeq(s, Len(q) + 1, Len(s))
<1>1. /\ Len(s) \in Nat /\ Len(q) \in Nat /\ Len(p) \in Nat /\ Len(q) =< Len(s)
      /\ IsMoved(m, s, q, p)
  BY PathLength, MovedPoints DEF Within
<1>2. /\ m \in Seq(Letters) /\ s \in Seq(Letters) /\ Len(m) = Len(p) + (Len(s) - Len(q))
      /\ \A i \in 1 .. Len(s) - Len(q) : m[Len(p) + i] = s[Len(q) + i]
  BY <1>1 DEF IsMoved, IsPath
<1> DEFINE a == SubSeq(m, Len(p) + 1, Len(m))
           b == SubSeq(s, Len(q) + 1, Len(s))
<1>3. /\ a \in Seq(Letters) /\ Len(a) = Len(s) - Len(q)
      /\ \A i \in 1 .. Len(s) - Len(q) : a[i] = m[Len(p) + i]
  BY <1>1, <1>2
<1>4. /\ b \in Seq(Letters) /\ Len(b) = Len(s) - Len(q)
      /\ \A i \in 1 .. Len(s) - Len(q) : b[i] = s[Len(q) + i]
  BY <1>1, <1>2
<1> HIDE DEF a, b
<1>5. \A i \in 1 .. Len(s) - Len(q) : a[i] = b[i]
  BY <1>2, <1>3, <1>4
<1>6. a = b
  BY <1>3, <1>4, <1>5
<1>7. QED BY <1>6 DEF a, b

LEMMA RenamedImage ==
  ASSUME FilesInv, NEW p \in Paths, NEW q \in Paths, Fits(p, q)
  PROVE  ImageIn(Renamed(p, q), q) = ImageIn(fs, p)
<1> DEFINE f == Renamed(p, q)
<1>1. IsPath(p) /\ IsPath(q)
  BY PathIsSeq
<1>2. /\ \A s \in Paths : Within(s, q) =>
           f[s] = IF Moved(s, q, p) \in Paths THEN fs[Moved(s, q, p)] ELSE Nothing
      /\ Tree(p) = {r \in Paths : Within(r, p)} /\ Tree(q) = {r \in Paths : Within(r, q)}
  BY RenamedIs DEF Tree, Subtrees
<1> HIDE DEF f
<1>3. ASSUME NEW s \in Paths, Within(s, q), f[s] # Nothing
      PROVE  \E t \in Paths : /\ Within(t, p) /\ fs[t] # Nothing /\ fs[t] = f[s]
                              /\ SubSeq(t, Len(p) + 1, Len(t)) = SubSeq(s, Len(q) + 1, Len(s))
  <2>1. Moved(s, q, p) \in Paths /\ fs[Moved(s, q, p)] = f[s]
    BY <1>2, <1>3
  <2>2. Within(Moved(s, q, p), p)
    BY <1>1, <1>3, PathIsSeq, MovedWithin
  <2>3. SubSeq(Moved(s, q, p), Len(p) + 1, Len(Moved(s, q, p))) = SubSeq(s, Len(q) + 1, Len(s))
    BY <1>1, <1>3, PathIsSeq, TailSame
  <2>4. QED BY <1>3, <2>1, <2>2, <2>3
<1>4. ASSUME NEW t \in Paths, Within(t, p), fs[t] # Nothing
      PROVE  \E s \in Paths : /\ Within(s, q) /\ f[s] # Nothing /\ fs[t] = f[s]
                              /\ SubSeq(t, Len(p) + 1, Len(t)) = SubSeq(s, Len(q) + 1, Len(s))
  <2>1. Moved(t, p, q) \in Paths
    <3>1. CASE t = p
      BY <1>1, <3>1, MovedSelf
    <3>2. CASE t # p
      <4>1. t \in Content(p)
        BY <1>2, <1>4, <3>2 DEF Content
      <4>2. QED BY <4>1 DEF Fits, Moved
    <3>3. QED BY <3>1, <3>2
  <2>2. IsPath(t) /\ Within(Moved(t, p, q), q) /\ Moved(Moved(t, p, q), q, p) = t
    BY <1>1, <1>4, PathIsSeq, MovedWithin, MovedBack
  <2>3. f[Moved(t, p, q)] = fs[t]
    BY <1>2, <1>4, <2>1, <2>2
  <2>4. SubSeq(Moved(t, p, q), Len(q) + 1, Len(Moved(t, p, q))) = SubSeq(t, Len(p) + 1, Len(t))
    BY <1>1, <1>4, <2>2, TailSame
  <2>5. QED BY <1>4, <2>1, <2>2, <2>3, <2>4
<1>5. ASSUME NEW e \in ImageIn(f, q) PROVE e \in ImageIn(fs, p)
  <2>1. PICK s \in {r \in Tree(q) : f[r] # Nothing} : e = <<SubSeq(s, Len(q) + 1, Len(s)), f[s]>>
    BY DEF ImageIn
  <2>2. PICK t \in Paths : /\ Within(t, p) /\ fs[t] # Nothing /\ fs[t] = f[s]
                           /\ SubSeq(t, Len(p) + 1, Len(t)) = SubSeq(s, Len(q) + 1, Len(s))
    BY <1>2, <1>3, <2>1
  <2>3. e = <<SubSeq(t, Len(p) + 1, Len(t)), fs[t]>> /\ t \in {r \in Tree(p) : fs[r] # Nothing}
    BY <1>2, <2>1, <2>2
  <2>4. QED BY <2>3 DEF ImageIn
<1>6. ASSUME NEW e \in ImageIn(fs, p) PROVE e \in ImageIn(f, q)
  <2>1. PICK t \in {r \in Tree(p) : fs[r] # Nothing} : e = <<SubSeq(t, Len(p) + 1, Len(t)), fs[t]>>
    BY DEF ImageIn
  <2>2. PICK s \in Paths : /\ Within(s, q) /\ f[s] # Nothing /\ fs[t] = f[s]
                           /\ SubSeq(t, Len(p) + 1, Len(t)) = SubSeq(s, Len(q) + 1, Len(s))
    BY <1>2, <1>4, <2>1
  <2>3. e = <<SubSeq(s, Len(q) + 1, Len(s)), f[s]>> /\ s \in {r \in Tree(q) : f[r] # Nothing}
    BY <1>2, <2>1, <2>2
  <2>4. QED BY <2>3 DEF ImageIn
<1>7. ImageIn(f, q) = ImageIn(fs, p)
  BY <1>5, <1>6
<1>8. QED BY <1>7 DEF f

(* A file has nothing below it: its image is its content.                  *)
LEMMA FileImage ==
  ASSUME fs \in Files, TreeInv, NEW p \in Paths, Kind(p) = "file"
  PROVE  ImageIn(fs, p) = {<<SubSeq(p, Len(p) + 1, Len(p)), fs[p]>>}
<1>1. {r \in Tree(p) : fs[r] # Nothing} = {p}
  <2>1. \A q \in Paths : Within(q, p) /\ q # p => fs[q] = Nothing
    BY NoContent
  <2>2. fs[p] # Nothing /\ Within(p, p)
    BY KindOf, NotDir, PathIsSeq, WithinSelf
  <2>3. QED BY <2>1, <2>2 DEF Tree, Subtrees
<1>2. QED BY <1>1 DEF ImageIn

LEMMA EmptyTail ==
  ASSUME NEW p \in Paths
  PROVE  SubSeq(p, Len(p) + 1, Len(p)) = << >>
<1>1. p \in Seq(Names) /\ Len(p) \in Nat
  BY PathIsSeq
<1>2. QED BY <1>1

LEMMA TrailFields ==
  ASSUME NEW f, NEW k, NEW l, NEW c, NEW s, Trail(f, k, c, s),
         l.from = k.from, l.to = k.to, l.mode = k.mode
  PROVE  Trail(f, l, c, s)
  BY DEF Trail

(* Where nobody changed what the prompt showed, the trail is the same.     *)
LEMMA TrailKept ==
  ASSUME FilesInv, NEW c \in FileCalls, call[c].mode \in Moving, call[c].answer = "agreed",
         NEW g, \A q \in Touched(c) : g[q] = fs[q], Trail(fs, call[c], c, script[c])
  PROVE  Trail(g, call[c], c, script[c])
<1>1. /\ call[c].from \in Paths /\ call[c].to \in Paths /\ call[c].from # Nothing
      /\ Legal(c, script[c]) /\ script[c] \in ScriptRecords
  BY PathsAssumption, Shaped DEF FilesInv, FileCallInv, Planned, FileScriptInv
<1>2. /\ Tree(call[c].from) \subseteq Touched(c) /\ Tree(call[c].to) \subseteq Touched(c)
      /\ call[c].mode = "case" => Tree(TempPath(c)) \subseteq Touched(c)
  <2>1. call[c] \in FileCallRecords /\ call[c].mode # "create"
    BY Shaped DEF Moving
  <2>2. QED BY <1>1, <2>1, TouchedTrees
<1>3. ImageIn(g, call[c].from) = ImageIn(fs, call[c].from) /\ ImageIn(g, call[c].to) = ImageIn(fs, call[c].to)
  BY <1>2, ImageSame
<1>4. call[c].mode = "case" => ImageIn(g, TempPath(c)) = ImageIn(fs, TempPath(c))
  BY <1>2, ImageSame
<1>5. script[c].pc = "back" => call[c].mode = "case"
  BY <1>1, WorksOf DEF Legal, Moving, Modes
<1>6. g[call[c].from] = fs[call[c].from] /\ g[call[c].to] = fs[call[c].to]
  <2>1. call[c].from \in Tree(call[c].from) /\ call[c].to \in Tree(call[c].to)
    BY <1>1, PathIsSeq, WithinSelf DEF Tree, Subtrees
  <2>2. QED BY <1>2, <2>1
<1>7. QED BY <1>3, <1>4, <1>5, <1>6 DEF Trail, TempPath

(* The end of a command leaves the object where it was, and no file.       *)
LEMMA EndTrail ==
  ASSUME FilesInv, NEW c \in FileCalls, script[c].pc # "none", NEW reply, Ends(c, reply), Looks
  PROVE  /\ script'[c].pc = "none" /\ script'[c].origin = script[c].origin
         /\ call[c].mode \in Moving /\ script[c].pc # "source" /\ Trail(fs, call[c], c, script[c]) =>
              Trail(fs', call[c], c, script'[c])
<1>1. script'[c].pc = "none" /\ script'[c].origin = script[c].origin /\ fs' = fs
  BY Shaped DEF Ends, Looks, ScriptRecords
<1>2. script[c].pc \in WorkStages(call[c].mode) /\ call[c].mode \in Modes
  BY ScriptRuns DEF Planned
<1>3. call[c].mode \in Moving /\ script[c].pc # "source" =>
        script[c].pc \in {"target", "move", "away", "back", "copy", "measure", "delete", "look"}
  BY <1>2 DEF Moving, WorkStages
<1>4. script[c].pc = "back" => call[c].mode = "case"
  BY <1>2, WorksOf
<1>5. QED BY <1>1, <1>3, <1>4 DEF Trail

LEMMA StepTrail ==
  ASSUME FilesInv, NEW c \in FileCalls, NEW pc \in Stages, Step(c, pc)
  PROVE  script'[c].pc = pc /\ script'[c].origin = script[c].origin
  BY Shaped DEF Step, ScriptRecords

(* The steps of a command that moves nothing.                              *)
LEMMA OtherTrail ==
  ASSUME FilesInv, NEW c \in FileCalls,
         \/ Walk(c) \/ MakeTarget(c) \/ (\E p \in Paths : CopyItem(c, p)) \/ CopiedAll(c)
         \/ CreateLevels(c) \/ RemoveFile(c) \/ CheckLinks(c) \/ RemoveItem(c)
  PROVE  script'[c].pc # "source" /\ call[c].mode \notin Moving
<1>1. script[c].pc \in {"walk", "make", "items", "remove", "links"}
  BY DEF Walk, MakeTarget, CopyItem, CopiedAll, CreateLevels, RemoveFile, CheckLinks, RemoveItem, AtHost
<1>2. call[c].mode \notin Moving
  BY <1>1, ScriptRuns, WorksOf DEF Planned, Moving
<1>3. script'[c].pc # "source"
  BY <1>1, Shaped DEF Walk, MakeTarget, CopyItem, CopiedAll, CreateLevels, RemoveFile, CheckLinks,
     RemoveItem, AtHost, Step, Throws, Ends, ScriptRecords
<1>4. QED BY <1>2, <1>3

OwnTrail(c) ==
  /\ script'[c].pc # "source"
  /\ call[c].mode \in Moving /\ script'[c].origin # {} /\ c \notin disturbed =>
       Trail(fs', call[c], c, script'[c])

LEMMA EndOwn ==
  ASSUME FilesInv, NEW c \in FileCalls, VanishInv(c), script[c].pc # "none", NEW reply,
         Ends(c, reply), Looks
  PROVE  OwnTrail(c)
<1>1. script'[c].pc = "none" /\ script'[c].origin = script[c].origin
  BY EndTrail
<1>2. script'[c].origin # {} => script[c].pc # "source"
  BY <1>1 DEF VanishInv
<1>3. QED BY <1>1, <1>2, EndTrail DEF OwnTrail, VanishInv

LEMMA CheckSourceOwn ==
  ASSUME FilesInv, NEW c \in FileCalls, VanishInv(c), CheckSource(c)
  PROVE  OwnTrail(c)
<1>1. script[c].pc = "source" /\ Looks /\ fs' = fs
  BY DEF CheckSource, Looks
<1>2. CASE Throws(c)
  BY <1>1, <1>2, EndOwn DEF Throws
<1>3. CASE ~Throws(c)
  <2>1. script'[c].pc = "target" /\ script'[c].origin = Image(call[c].from)
    BY <1>3, Shaped DEF CheckSource, ScriptRecords
  <2>2. Image(call[c].from) = ImageIn(fs, call[c].from)
    BY DEF Image, ImageIn
  <2>3. QED BY <1>1, <2>1, <2>2 DEF OwnTrail, Trail
<1>4. QED BY <1>2, <1>3

LEMMA CheckTargetOwn ==
  ASSUME FilesInv, NEW c \in FileCalls, VanishInv(c), CheckTarget(c)
  PROVE  OwnTrail(c)
<1>1. script[c].pc = "target" /\ Looks /\ fs' = fs
  BY DEF CheckTarget, Looks
<1>2. CASE ~TargetPasses(c)
  BY <1>1, <1>2, EndOwn DEF Throws, CheckTarget
<1>3. CASE TargetPasses(c)
  <2>1. script'[c].pc = NextStep(c) /\ script'[c].origin = script[c].origin
    BY <1>3, Shaped DEF CheckTarget, ScriptRecords
  <2>2. call[c].mode \in {"copy", "rename", "case", "cross", "create"}
    BY <1>1, ScriptRuns, WorksOf DEF Planned
  <2>3. /\ NextStep(c) # "source"
        /\ call[c].mode \in Moving => NextStep(c) \in {"move", "away", "copy"}
    BY <2>2 DEF NextStep, Moving
  <2>4. QED BY <1>1, <2>1, <2>3 DEF OwnTrail, VanishInv, Trail
<1>4. QED BY <1>2, <1>3

LEMMA MoveItemOwn ==
  ASSUME FilesInv, NEW c \in FileCalls, VanishInv(c), MoveItem(c)
  PROVE  OwnTrail(c)
<1> DEFINE from == call[c].from
           to == call[c].to
<1>1. /\ script[c].pc = "move" /\ fs' = Renamed(from, to) /\ Step(c, "look")
      /\ IF call[c].kind = "file" /\ script[c].seen THEN Kind(from) = "file" /\ Kind(to) = "file"
         ELSE Fits(from, to)
  BY ChangesIs DEF MoveItem
<1>2. script'[c].pc = "look" /\ script'[c].origin = script[c].origin
  BY <1>1, StepTrail DEF Stages
<1>3. from \in Paths /\ to \in Paths
  BY <1>1, ScriptRuns DEF Planned
<1>4. Fits(from, to)
  <2>1. CASE Kind(from) = "file"
    <3>1. Content(from) = {}
      BY <2>1, Shaped, NoContent
    <3>2. QED BY <1>3, <3>1 DEF Fits
  <2>2. CASE Kind(from) # "file"
    BY <1>1, <2>2
  <2>3. QED BY <2>1, <2>2
<1>5. ImageIn(fs', to) = ImageIn(fs, from)
  BY <1>1, <1>3, <1>4, RenamedImage
<1>6. QED BY <1>1, <1>2, <1>5 DEF OwnTrail, VanishInv, Trail

LEMMA MoveAwayOwn ==
  ASSUME FilesInv, NEW c \in FileCalls, VanishInv(c), MoveAway(c)
  PROVE  OwnTrail(c)
<1> DEFINE from == call[c].from
           temp == TempPath(c)
<1>1. /\ script[c].pc = "away" /\ fs' = Renamed(from, temp) /\ Step(c, "back") /\ Fits(from, temp)
  BY ChangesIs DEF MoveAway
<1>2. script'[c].pc = "back" /\ script'[c].origin = script[c].origin
  BY <1>1, StepTrail DEF Stages
<1>3. from \in Paths /\ temp \in Paths
  BY <1>1, ScriptRuns DEF Planned, Fits
<1>4. ImageIn(fs', temp) = ImageIn(fs, from)
  BY <1>1, <1>3, RenamedImage
<1>5. QED BY <1>1, <1>2, <1>4 DEF OwnTrail, VanishInv, Trail, TempPath

LEMMA MoveBackOwn ==
  ASSUME FilesInv, NEW c \in FileCalls, VanishInv(c), MoveBack(c)
  PROVE  OwnTrail(c)
<1> DEFINE to == call[c].to
           temp == TempPath(c)
<1>1. /\ script[c].pc = "back" /\ fs' = Renamed(temp, to) /\ Ends(c, "ok") /\ Fits(temp, to)
      /\ Kind(temp) = call[c].kind
  BY ChangesIs DEF MoveBack
<1>2. script'[c].pc = "none" /\ script'[c].origin = script[c].origin
  BY <1>1, Shaped DEF Ends, ScriptRecords
<1>3. to \in Paths /\ temp \in Paths
  BY <1>1, ScriptRuns, Shaped, KindOf DEF Planned
<1>4. ImageIn(fs', to) = ImageIn(fs, temp)
  BY <1>1, <1>3, RenamedImage
<1>5. QED BY <1>1, <1>2, <1>4 DEF OwnTrail, VanishInv, Trail, TempPath

(* A copy leaves its source, and is the whole file or a part of it.        *)
LEMMA CopyFileDoes ==
  ASSUME FilesInv, NEW c \in FileCalls, CopyFile(c)
  PROVE  /\ script'[c].pc \in {"measure", "none"} /\ script'[c].origin = script[c].origin
         /\ fs[call[c].from] # Nothing /\ fs[call[c].from].kind = "file"
         /\ ImageIn(fs', call[c].from) = ImageIn(fs, call[c].from)
         /\ fs'[call[c].from] = fs[call[c].from]
         /\ fs'[call[c].to] \in {fs'[call[c].from], [kind |-> "file", data |-> Part]}
<1> DEFINE from == call[c].from
           to == call[c].to
<1>1. script[c].pc = "copy" /\ Kind(from) = "file" /\ from # to /\ MayWrite(c, to)
  BY DEF CopyFile
<1>2. PICK copy \in {fs[from], [kind |-> "file", data |-> Part]} :
        /\ Changes(c, At(to, copy))
        /\ Step(c, "measure") \/ Ends(c, "partial")
  BY DEF CopyFile
<1>3. fs' = At(to, copy)
  BY <1>2, ChangesIs
<1>4. script'[c].pc \in {"measure", "none"} /\ script'[c].origin = script[c].origin
  BY <1>2, Shaped DEF Step, Ends, ScriptRecords
<1>5. from \in Paths /\ to \in Paths /\ IsPath(from) /\ IsPath(to) /\ Len(to) > 0
  BY <1>1, ScriptRuns, PathIsSeq DEF Planned
<1>6. fs[from] # Nothing /\ fs[from].kind = "file"
  BY <1>1, Shaped, KindOf, NotDir
<1>7. ~Within(to, from)
  <2>1. SUFFICES ASSUME Within(to, from) PROVE FALSE
    OBVIOUS
  <2>2. Within(Parent(to), from) /\ Parent(to) \in Paths /\ fs[Parent(to)] # Nothing
        /\ fs[Parent(to)].kind = "dir"
    BY <1>1, <1>5, <2>1, BelowParent, Shaped, ParentDir DEF Below, MayWrite
  <2>3. CASE Parent(to) = from
    BY <1>6, <2>2, <2>3
  <2>4. CASE Parent(to) # from
    BY <1>5, <1>6, <2>2, <2>4, Shaped DEF TreeInv, Rooted, Below
  <2>5. QED BY <2>3, <2>4
<1>8. fs'[to] = copy /\ \A q \in Paths \ {to} : fs'[q] = fs[q]
  BY <1>3, <1>5, Shaped DEF At, Files
<1>9. ImageIn(fs', from) = ImageIn(fs, from)
  BY <1>7, <1>8, ImageSame DEF Tree, Subtrees
<1>10. fs'[from] = fs[from] /\ fs'[to] \in {fs'[from], [kind |-> "file", data |-> Part]}
  BY <1>1, <1>2, <1>5, <1>8
<1>11. QED BY <1>4, <1>6, <1>9, <1>10

LEMMA CopyFileOwn ==
  ASSUME FilesInv, NEW c \in FileCalls, VanishInv(c), CopyFile(c)
  PROVE  OwnTrail(c)
<1>1. script[c].pc = "copy"
  BY DEF CopyFile
<1>2. ImageIn(fs, call[c].from) = script[c].origin \/ ~(call[c].mode \in Moving
        /\ script'[c].origin # {} /\ c \notin disturbed)
  BY <1>1, CopyFileDoes DEF VanishInv, Trail
<1>3. QED BY <1>2, CopyFileDoes DEF OwnTrail, Trail

(* A copy that is as long as the source is whole.                          *)
LEMMA MeasuredWhole ==
  ASSUME FilesInv, NEW c \in FileCalls, NEW from \in Paths, NEW to \in Paths,
         ImageIn(fs, from) = script[c].origin, fs[from] # Nothing, fs[from].kind = "file",
         fs[to] \in {fs[from], [kind |-> "file", data |-> Part]}, Kind(to) = "file",
         \A d \in Measured(c) : MayAgree(fs[to].data, d)
  PROVE  ImageIn(fs, to) = script[c].origin
<1>1. Kind(from) = "file" /\ fs[from] \in Objects
  BY Shaped DEF Kind, Files
<1>2. script[c].origin = {<< <<>>, fs[from]>>}
  BY <1>1, Shaped, FileImage, EmptyTail
<1>3. ImageIn(fs, to) = {<< <<>>, fs[to]>>}
  BY Shaped, FileImage, EmptyTail
<1>4. fs[from].data \in Measured(c)
  BY <1>2 DEF Measured
<1>5. fs[to] = fs[from]
  <2>1. CASE fs[to] = [kind |-> "file", data |-> Part]
    <3>1. fs[from].data = Part
      BY <1>4, <2>1 DEF MayAgree
    <3>2. fs[from] = [kind |-> "file", data |-> Part]
      <4>1. fs[from] \in [kind : {"file"}, data : Versions \cup {Part}]
        BY <1>1 DEF Objects
      <4>2. QED BY <3>1, <4>1
    <3>3. QED BY <2>1, <3>2
  <2>2. QED BY <2>1
<1>6. QED BY <1>2, <1>3, <1>5

LEMMA MeasureCopyOwn ==
  ASSUME FilesInv, NEW c \in FileCalls, VanishInv(c), MeasureCopy(c)
  PROVE  OwnTrail(c)
<1> DEFINE from == call[c].from
           to == call[c].to
<1>1. script[c].pc = "measure" /\ Looks /\ fs' = fs
  BY DEF MeasureCopy, Looks
<1>2. CASE Throws(c) \/ Ends(c, "ok")
  BY <1>1, <1>2, EndOwn DEF Throws
<1>3. CASE ~(Throws(c) \/ Ends(c, "ok"))
  <2>1. /\ Kind(to) = "file" /\ \A d \in Measured(c) : MayAgree(fs[to].data, d)
        /\ Step(c, "delete")
    BY <1>3 DEF MeasureCopy
  <2>2. script'[c].pc = "delete" /\ script'[c].origin = script[c].origin
    BY <2>1, StepTrail DEF Stages
  <2>3. from \in Paths /\ to \in Paths
    BY <1>1, ScriptRuns DEF Planned
  <2>4. SUFFICES ASSUME call[c].mode \in Moving, script'[c].origin # {}, c \notin disturbed
                 PROVE  Trail(fs', call[c], c, script'[c])
    BY <2>2 DEF OwnTrail
  <2>5. /\ ImageIn(fs, from) = script[c].origin /\ fs[from] # Nothing /\ fs[from].kind = "file"
        /\ fs[to] \in {fs[from], [kind |-> "file", data |-> Part]}
    BY <1>1, <2>2, <2>4 DEF VanishInv, Trail
  <2>6. ImageIn(fs, to) = script[c].origin
    BY <2>1, <2>3, <2>5, MeasuredWhole
  <2>7. QED BY <1>1, <2>2, <2>5, <2>6 DEF Trail
<1>4. QED BY <1>2, <1>3

LEMMA DeleteSourceOwn ==
  ASSUME FilesInv, NEW c \in FileCalls, VanishInv(c), DeleteSource(c)
  PROVE  OwnTrail(c)
<1> DEFINE from == call[c].from
           to == call[c].to
<1>1. script[c].pc = "delete" /\ fs' = At(from, Nothing) /\ Step(c, "look")
  BY ChangesIs DEF DeleteSource
<1>2. script'[c].pc = "look" /\ script'[c].origin = script[c].origin
  BY <1>1, StepTrail DEF Stages
<1>3. from \in Paths /\ ~Within(from, to)
  BY <1>1, ScriptRuns DEF Planned, FilesInv, FileScriptInv, Legal
<1>4. \A q \in Tree(to) : fs'[q] = fs[q]
  BY <1>1, <1>3, Shaped DEF At, Files, Tree, Subtrees
<1>5. ImageIn(fs', to) = ImageIn(fs, to)
  BY <1>4, ImageSame
<1>6. QED BY <1>1, <1>2, <1>5 DEF OwnTrail, VanishInv, Trail

LEMMA OwnStep ==
  ASSUME FilesInv, NEW c \in FileCalls, VanishInv(c), HostWorks(c) \/ HostThrows(c)
  PROVE  OwnTrail(c)
<1>1. CASE HostThrows(c)
  BY <1>1, EndOwn DEF HostThrows, Throws, Looks
<1>2. CASE LookAgain(c)
  <2>1. script[c].pc = "look" /\ Looks
    BY <1>2 DEF LookAgain
  <2>2. call[c].mode \in {"delete", "tree", "rename", "cross", "create"}
    BY <2>1, ScriptRuns, WorksOf DEF Planned
  <2>3. \E reply : Ends(c, reply)
    BY <1>2, <2>2 DEF LookAgain, Throws
  <2>4. QED BY <2>1, <2>3, EndOwn
<1>3. CASE \/ Walk(c) \/ MakeTarget(c) \/ (\E p \in Paths : CopyItem(c, p)) \/ CopiedAll(c)
           \/ CreateLevels(c) \/ RemoveFile(c) \/ CheckLinks(c) \/ RemoveItem(c)
  BY <1>3, OtherTrail DEF OwnTrail
<1>4. QED BY <1>1, <1>2, <1>3, CheckSourceOwn, CheckTargetOwn, CopyFileOwn, MeasureCopyOwn,
          MoveItemOwn, MoveAwayOwn, MoveBackOwn, DeleteSourceOwn DEF HostWorks

(* What others change where a call has a prompt is recorded.               *)
LEMMA DisturbedStep ==
  ASSUME FilesInv, [FilesNext]_filesVars, NEW c \in FileCalls, VanishInv(c),
         ~(HostWorks(c) \/ HostThrows(c))
  PROVE  /\ \/ script'[c] = script[c]
            \/ script'[c].pc \notin {"none"} /\ script'[c].origin = {}
         /\ disturbed \subseteq disturbed'
         /\ c \notin disturbed' /\ script[c].origin # {} =>
              \A q \in Touched(c) : fs'[q] = fs[q]
<1>0. script \in [FileCalls -> ScriptRecords]
  BY Shaped
<1>1. CASE UNCHANGED filesVars
  BY <1>1 DEF filesVars
<1>2. ASSUME NEW d \in FileCalls, FileAsk(d) \/ FileAnswerLost(d) \/ ScanSource(d) \/ ScanTarget(d)
                                  \/ FileRefuse(d)
      PROVE  fs' = fs /\ script' = script /\ disturbed' = disturbed
  BY <1>2 DEF FileAsk, FileAnswerLost, ScanSource, ScanTarget, FileRefuse
<1>3. ASSUME NEW d \in FileCalls, FileConfirm(d)
      PROVE  /\ fs' = fs /\ disturbed' = disturbed
             /\ script'[c] = script[c] \/ (script'[c].pc # "none" /\ script'[c].origin = {})
  <2>1. fs' = fs /\ disturbed' = disturbed
    BY <1>3 DEF FileConfirm
  <2>2. CASE UNCHANGED script
    BY <2>1, <2>2
  <2>3. CASE StartScript(d)
    <3>1. call[d].mode \in Modes
      BY <1>3 DEF FileConfirm, AtCall, FilesInv, FileCallInv, Planned
    <3>2. FirstStep(call[d].mode) # "none"
      BY <3>1 DEF FirstStep, Modes
    <3>3. Fresh(FirstStep(call[d].mode)).pc # "none" /\ Fresh(FirstStep(call[d].mode)).origin = {}
      BY <3>2 DEF Fresh, NoScript
    <3>4. QED BY <1>0, <2>1, <2>3, <3>3 DEF StartScript
  <2>4. QED BY <1>3, <2>1, <2>2, <2>3 DEF FileConfirm
<1>4. ASSUME NEW d \in FileCalls, d # c, HostWorks(d) \/ HostThrows(d)
      PROVE  /\ script'[c] = script[c] /\ disturbed \subseteq disturbed'
             /\ c \notin disturbed' /\ script[c].origin # {} =>
                  \A q \in Touched(c) : fs'[q] = fs[q]
  <2>1. FileScriptStep(d) /\ script'[c] = script[c]
    BY <1>4, HostWorksStep, HostFrozen
  <2>2. CASE Looks
    BY <2>1, <2>2 DEF Looks
  <2>3. CASE Changes(d, fs')
    BY <1>4, <2>1, <2>3 DEF Changes, Disturb
  <2>4. QED BY <2>1, <2>2, <2>3 DEF FileScriptStep
<1>5. ASSUME NEW p \in Paths, Meddle(p)
      PROVE  /\ script'[c] = script[c] /\ disturbed \subseteq disturbed'
             /\ c \notin disturbed' /\ script[c].origin # {} =>
                  \A q \in Touched(c) : fs'[q] = fs[q]
  <2>1. \A q : q # p => fs'[q] = fs[q] \/ q \notin Paths
    BY <1>5, Shaped DEF Meddle, At, Files
  <2>2. script' = script /\ disturbed \subseteq disturbed'
        /\ (c \notin disturbed' /\ script[c].origin # {} => p \notin Touched(c))
    BY <1>5 DEF Meddle
  <2>3. script[c].origin # {} => Touched(c) \subseteq Paths
    <3>1. SUFFICES ASSUME script[c].origin # {} PROVE Touched(c) \subseteq Paths
      OBVIOUS
    <3>2. Planned(c)
      BY <3>1 DEF VanishInv, FilesInv, FileCallInv
    <3>3. call[c] \in FileCallRecords
      BY Shaped
    <3>4. call[c].levels \subseteq Paths
      BY <3>3 DEF FileCallRecords
    <3>5. QED BY <3>2, <3>4, TouchedPaths DEF Planned
  <2>4. QED BY <2>1, <2>2, <2>3
<1>6. QED BY <1>1, <1>2, <1>3, <1>4, <1>5 DEF FilesNext, ServerStep

LEMMA VanishInvStep ==
  ASSUME FilesInv, [FilesNext]_filesVars, NEW c \in FileCalls, VanishInv(c)
  PROVE  VanishInv(c)'
<1>1. CASE HostWorks(c) \/ HostThrows(c)
  <2>1. OwnTrail(c) /\ FileScriptStep(c)
    BY <1>1, OwnStep, HostWorksStep
  <2>2. script[c].pc # "none"
    BY <1>1, HostRuns
  <2>3. /\ call'[c].mode = call[c].mode /\ call'[c].from = call[c].from
        /\ call'[c].to = call[c].to /\ call'[c].answer = "agreed"
    BY <2>1, <2>2, HostFrozen, ScriptRuns
  <2>4. disturbed \subseteq disturbed'
    BY <2>1 DEF FileScriptStep, Looks, Changes, Disturb
  <2>5. call[c].mode \in Moving /\ c \notin disturbed' /\ script'[c].origin # {} =>
          Trail(fs', call'[c], c, script'[c])
    BY <2>1, <2>3, <2>4, TrailFields DEF OwnTrail
  <2>6. QED BY <2>1, <2>3, <2>5 DEF OwnTrail, VanishInv
<1>2. CASE ~(HostWorks(c) \/ HostThrows(c))
  <2>1. CASE script'[c].pc # "source" /\ script'[c].origin = {}
    BY <2>1 DEF VanishInv
  <2>2. CASE script'[c].pc = "source" /\ script'[c].origin = {}
    BY <2>2 DEF VanishInv
  <2>3. CASE script'[c] = script[c] /\ script[c].origin # {}
    <3>1. /\ call'[c].mode = call[c].mode /\ call'[c].from = call[c].from
          /\ call'[c].to = call[c].to /\ call'[c].answer = "agreed" /\ call[c].answer = "agreed"
      BY <2>3, AgreedFrozen DEF VanishInv
    <3>2. call[c].mode \in Moving /\ c \notin disturbed' => Trail(fs', call[c], c, script[c])
      <4>1. /\ disturbed \subseteq disturbed'
            /\ c \notin disturbed' => \A q \in Touched(c) : fs'[q] = fs[q]
        BY <1>2, <2>3, DisturbedStep
      <4>2. QED BY <2>3, <3>1, <4>1, TrailKept DEF VanishInv
    <3>3. QED BY <2>3, <3>1, <3>2, TrailFields DEF VanishInv
  <2>4. QED BY <1>2, <2>1, <2>2, <2>3, DisturbedStep
<1>3. QED BY <1>1, <1>2

(* The object of a move is found by the trail of its command.              *)
LEMMA TrailShows ==
  ASSUME FilesInv, NEW c \in FileCalls, VanishInv(c), call[c].mode \in Moving,
         c \notin disturbed, script[c].origin # {}
  PROVE  \E p \in {call[c].from, call[c].to, TempPath(c)} : Image(p) = script[c].origin
<1>1. Trail(fs, call[c], c, script[c]) /\ script[c].pc # "source"
  BY DEF VanishInv
<1>2. script[c].pc \in {"target", "move", "away", "back", "copy", "measure", "delete", "look", "none"}
  BY <1>1, ScriptRuns DEF WorkStages, Moving
<1>3. \A p : Image(p) = ImageIn(fs, p)
  BY DEF Image, ImageIn
<1>4. QED BY <1>1, <1>2, <1>3 DEF Trail, TempPath

(* TR-FS-10: a move never loses the object (ps.rs, the scripts of          *)
(* move_file and rename_file).  While nobody else touches its paths, it is *)
(* whole at the source, at the target or under the temporary name, at      *)
(* every moment and also when the command broke off at any statement.      *)
THEOREM MovedObjectsStay == FilesSpec => []NothingVanishes
<1> DEFINE VInv == \A c \in FileCalls : VanishInv(c)
<1>1. FilesInit => VInv
  BY DEF FilesInit, VanishInv, NoScript
<1>2. FilesInv /\ VInv /\ [FilesNext]_filesVars => VInv'
  <2> SUFFICES ASSUME FilesInv, VInv, [FilesNext]_filesVars PROVE VInv'
    OBVIOUS
  <2>1. \A c \in FileCalls : VanishInv(c)'
    BY VanishInvStep
  <2>2. QED BY <2>1
<1>3. FilesInv /\ VInv => NothingVanishes
  BY TrailShows DEF NothingVanishes, Moving
<1> HIDE DEF VInv
<1>4. QED BY <1>1, <1>2, <1>3, FilesInvariant, PTL DEF FilesSpec

-----------------------------------------------------------------------------
(* The copy of a directory.                                                *)

There(f, p) == {q \in Tree(p) : f[q] # Nothing}

(* What is not left to do has its copy, and the target holds nothing else. *)
Partly(f, from, to, todo) ==
  /\ ~Within(to, from) /\ ~Within(from, to) /\ f[from] # Nothing
  /\ todo \subseteq There(f, from) \ {from}
  /\ \A q \in todo, r \in There(f, from) : Within(r, q) => r \in todo
  /\ \A p \in There(f, from) \ todo : Moved(p, from, to) \in Paths /\ f[Moved(p, from, to)] = f[p]
  /\ \A q \in There(f, to) : \E p \in There(f, from) \ todo : q = Moved(p, from, to)

LEMMA TreeIs ==
  ASSUME NEW p \in Paths
  PROVE  /\ Tree(p) = {q \in Paths : Within(q, p)} /\ p \in Tree(p)
         /\ \A f : There(f, p) = {q \in Paths : Within(q, p) /\ f[q] # Nothing}
  BY PathIsSeq, WithinSelf DEF Tree, Subtrees, There

(* Two trees, none in the other, have no path in common.                   *)
LEMMA TreesApart ==
  ASSUME NEW p \in Paths, NEW q \in Paths, ~Within(p, q), ~Within(q, p), NEW r \in Paths
  PROVE  ~(Within(r, p) /\ Within(r, q))
<1>1. IsPath(p) /\ IsPath(q) /\ IsPath(r) /\ Len(p) \in Nat /\ Len(q) \in Nat
  BY PathIsSeq
<1>2. QED BY <1>1, WithinCompare

LEMMA MovedOnce ==
  ASSUME NEW p \in Paths, NEW r \in Paths, NEW from \in Paths, NEW to \in Paths,
         Within(p, from), Within(r, from), Moved(p, from, to) = Moved(r, from, to)
  PROVE  p = r
<1>1. IsPath(p) /\ IsPath(r) /\ IsPath(from) /\ IsPath(to)
  BY PathIsSeq
<1>2. Moved(Moved(p, from, to), to, from) = p /\ Moved(Moved(r, from, to), to, from) = r
  BY <1>1, MovedBack
<1>3. QED BY <1>2

(* What is above an object in a tree is an object of the tree.             *)
LEMMA ParentThere ==
  ASSUME NEW f, Rooted(f), NEW from \in Paths, NEW p \in There(f, from), p # from
  PROVE  Parent(p) \in There(f, from) /\ Below(p, Parent(p)) /\ Within(Parent(p), from)
         /\ Len(Parent(p)) = Len(p) - 1 /\ f[Parent(p)].kind = "dir"
<1>1. p \in Paths /\ Within(p, from) /\ f[p] # Nothing
  BY TreeIs
<1>2. /\ IsPath(p) /\ IsPath(from) /\ Len(p) \in Nat /\ Len(p) > 0
      /\ Len(from) \in Nat /\ Len(from) > 0
  BY <1>1, PathIsSeq
<1>3. ~IsRoot(p)
  <2>1. SUFFICES ASSUME Len(p) = 1 PROVE FALSE
    BY DEF IsRoot
  <2>2. Len(p) =< Len(from)
    BY <1>2, <2>1
  <2>3. QED BY <1>1, <1>2, <2>2, WithinBoth
<1>4. Parent(p) \in Paths /\ Below(p, Parent(p)) /\ Len(Parent(p)) = Len(p) - 1
  BY <1>1, <1>2, <1>3, ParentIsPath
<1>5. Within(Parent(p), from)
  BY <1>1, <1>2, BelowParent DEF Below
<1>6. f[Parent(p)] # Nothing /\ f[Parent(p)].kind = "dir"
  BY <1>1, <1>4 DEF Rooted
<1>7. QED BY <1>4, <1>5, <1>6, TreeIs

(* One more object is copied, after the directory it is in.                *)
LEMMA CopiesOne ==
  ASSUME NEW f, NEW g, NEW from \in Paths, NEW to \in Paths, Rooted(f), NEW todo,
         Partly(f, from, to, todo), NEW p \in todo, Parent(p) \notin todo,
         NEW dst \in Paths, dst = Moved(p, from, to), g[dst] = f[p],
         \A q \in Paths \ {dst} : g[q] = f[q]
  PROVE  /\ Partly(g, from, to, todo \ {p})
         /\ \A q \in Tree(from) : g[q] = f[q]
<1>1. p \in There(f, from) /\ p # from /\ p \in Paths /\ Within(p, from) /\ f[p] # Nothing
  BY TreeIs DEF Partly
<1>2. IsPath(p) /\ IsPath(from) /\ IsPath(to)
  BY <1>1, PathIsSeq
<1>3. Within(dst, to)
  BY <1>1, <1>2, MovedWithin
<1>4. ~Within(dst, from)
  BY <1>3, TreesApart DEF Partly
<1>5. \A q \in Tree(from) : g[q] = f[q]
  BY <1>4, TreeIs
<1>6. There(g, from) = There(f, from)
  BY <1>5 DEF There
<1>7. ASSUME NEW q \in todo \ {p}, NEW r \in There(f, from), Within(r, q) PROVE r # p
  <2>1. SUFFICES ASSUME r = p PROVE FALSE
    OBVIOUS
  <2>2. q \in Paths
    BY <1>7, TreeIs DEF Partly
  <2>3. Within(Parent(p), q)
    BY <1>1, <1>2, <1>7, <2>1, <2>2, PathIsSeq, BelowParent DEF Below
  <2>4. Parent(p) \in There(f, from)
    BY <1>1, ParentThere
  <2>5. QED BY <1>7, <2>3, <2>4 DEF Partly
<1>8. ASSUME NEW r \in There(f, from) \ (todo \ {p})
      PROVE  Moved(r, from, to) \in Paths /\ g[Moved(r, from, to)] = g[r]
  <2>1. r \in Paths /\ Within(r, from) /\ g[r] = f[r]
    BY <1>5, TreeIs
  <2>2. CASE r = p
    BY <2>1, <2>2
  <2>3. CASE r # p
    <3>1. Moved(r, from, to) # dst
      BY <1>1, <2>1, <2>3, MovedOnce
    <3>2. QED BY <1>8, <2>1, <2>3, <3>1 DEF Partly
  <2>4. QED BY <2>2, <2>3
<1>9. ASSUME NEW q \in There(g, to)
      PROVE  \E r \in There(f, from) \ (todo \ {p}) : q = Moved(r, from, to)
  <2>1. CASE q = dst
    BY <1>1, <2>1
  <2>2. CASE q # dst
    <3>1. q \in There(f, to)
      BY <1>9, <2>2, TreeIs
    <3>2. QED BY <3>1 DEF Partly
  <2>3. QED BY <2>1, <2>2
<1>10. g[from] # Nothing /\ todo \ {p} \subseteq There(g, from) \ {from}
  BY <1>5, <1>6, TreeIs DEF Partly
<1>11. \A q \in todo \ {p}, r \in There(g, from) : Within(r, q) => r \in todo \ {p}
  BY <1>6, <1>7 DEF Partly
<1>12. QED BY <1>5, <1>6, <1>8, <1>9, <1>10, <1>11 DEF Partly

(* When nothing is left to do, the target is the image of the source.      *)
LEMMA CopiedImage ==
  ASSUME NEW f, NEW from \in Paths, NEW to \in Paths, Partly(f, from, to, {})
  PROVE  ImageIn(f, to) = ImageIn(f, from)
<1>1. ASSUME NEW p \in There(f, from)
      PROVE  LET m == Moved(p, from, to) IN
             /\ m \in There(f, to) /\ f[m] = f[p]
             /\ SubSeq(m, Len(to) + 1, Len(m)) = SubSeq(p, Len(from) + 1, Len(p))
  <2>1. p \in Paths /\ Within(p, from) /\ f[p] # Nothing
    BY TreeIs
  <2>2. IsPath(p) /\ IsPath(from) /\ IsPath(to)
    BY <2>1, PathIsSeq
  <2>3. Moved(p, from, to) \in Paths /\ f[Moved(p, from, to)] = f[p]
    BY DEF Partly
  <2>4. Within(Moved(p, from, to), to)
    BY <2>1, <2>2, MovedWithin
  <2>5. SubSeq(Moved(p, from, to), Len(to) + 1, Len(Moved(p, from, to))) = SubSeq(p, Len(from) + 1, Len(p))
    BY <2>1, <2>2, TailSame
  <2>6. QED BY <2>1, <2>3, <2>4, <2>5, TreeIs
<1>2. \A p : ImageIn(f, p) = {<<SubSeq(q, Len(p) + 1, Len(q)), f[q]>> : q \in There(f, p)}
  BY DEF ImageIn, There
<1>3. ASSUME NEW e \in ImageIn(f, to) PROVE e \in ImageIn(f, from)
  <2>1. PICK q \in There(f, to) : e = <<SubSeq(q, Len(to) + 1, Len(q)), f[q]>>
    BY <1>2
  <2>2. PICK p \in There(f, from) : q = Moved(p, from, to)
    BY DEF Partly
  <2>3. e = <<SubSeq(p, Len(from) + 1, Len(p)), f[p]>>
    BY <1>1, <2>1, <2>2
  <2>4. QED BY <1>2, <2>3
<1>4. ASSUME NEW e \in ImageIn(f, from) PROVE e \in ImageIn(f, to)
  <2>1. PICK p \in There(f, from) : e = <<SubSeq(p, Len(from) + 1, Len(p)), f[p]>>
    BY <1>2
  <2>2. PICK m \in There(f, to) : e = <<SubSeq(m, Len(to) + 1, Len(m)), f[m]>>
    BY <1>1, <2>1
  <2>3. QED BY <1>2, <2>2
<1>5. QED BY <1>3, <1>4

(* What the command of a call k that copies has done at each step, unless  *)
(* it copies a directory into itself.                                      *)
CopyTrail(f, k, s) ==
  /\ \/ ImageIn(f, k.from) = s.origin /\ f[k.from] # Nothing /\ f[k.from].kind = k.kind
     \/ s.pc = "items" /\ Within(k.to, k.from)
  /\ s.pc = "measure" => /\ f[k.from].kind = "file"
                         /\ f[k.to] \in {f[k.from], [kind |-> "file", data |-> Part]}
  /\ s.pc \in {"walk", "make"} => f[k.to] = Nothing \/ f[k.to].kind # "dir"
  /\ s.pc = "make" => s.todo = There(f, k.from) \ {k.from}
  /\ s.pc = "items" /\ ~Within(k.to, k.from) => Partly(f, k.from, k.to, s.todo)

Copying(c) == call[c].mode = "copy" /\ script[c].pc \notin {"none", "source"}

ReplyInv(c) ==
  /\ call[c].mode \in Moving \cup {"copy"} /\ script[c].pc \notin {"none", "source"} =>
       script[c].origin # {}
  /\ call[c].mode = "copy" /\ call[c].answer = "agreed" /\ ~script[c].wrote => Untouched(c)
  /\ call[c].mode = "copy" /\ script[c].pc # "none" =>
       (script[c].wrote <=> script[c].pc \in {"copy", "measure", "make", "items"})
  /\ Copying(c) /\ c \notin disturbed => CopyTrail(fs, call[c], script[c])

LEMMA CopyTrailKept ==
  ASSUME NEW f, NEW g, NEW k, k.from \in Paths, k.to \in Paths, NEW s, CopyTrail(f, k, s),
         \A q \in Tree(k.from) \cup Tree(k.to) : g[q] = f[q]
  PROVE  CopyTrail(g, k, s)
<1>1. /\ There(g, k.from) = There(f, k.from) /\ There(g, k.to) = There(f, k.to)
      /\ ImageIn(g, k.from) = ImageIn(f, k.from)
      /\ g[k.from] = f[k.from] /\ g[k.to] = f[k.to]
  BY ImageSame, TreeIs DEF There
<1>2. ASSUME Partly(f, k.from, k.to, s.todo) PROVE Partly(g, k.from, k.to, s.todo)
  <2>1. ASSUME NEW p \in There(f, k.from) \ s.todo
        PROVE  Moved(p, k.from, k.to) \in Paths /\ g[Moved(p, k.from, k.to)] = g[p]
    <3>1. p \in Paths /\ Within(p, k.from) /\ g[p] = f[p]
      BY TreeIs
    <3>2. Moved(p, k.from, k.to) \in Paths /\ f[Moved(p, k.from, k.to)] = f[p]
      BY <1>2, <2>1 DEF Partly
    <3>3. Within(Moved(p, k.from, k.to), k.to)
      BY <3>1, PathIsSeq, MovedWithin
    <3>4. QED BY <3>1, <3>2, <3>3, TreeIs
  <2>2. QED BY <1>1, <1>2, <2>1 DEF Partly
<1>3. QED BY <1>1, <1>2 DEF CopyTrail

-----------------------------------------------------------------------------
(* The steps of a command that copies.                                     *)

OwnCopy(c) ==
  /\ call[c].mode \in Moving \cup {"copy"} /\ script'[c].pc # "none" => script'[c].origin # {}
  /\ call[c].mode = "copy" /\ ~script'[c].wrote => ~script[c].wrote /\ changes' = changes
  /\ call[c].mode = "copy" /\ script'[c].pc # "none" =>
       (script'[c].wrote <=> script'[c].pc \in {"copy", "measure", "make", "items"})
  /\ call[c].mode = "copy" /\ script'[c].pc # "none" /\ c \notin disturbed =>
       CopyTrail(fs', call[c], script'[c])

LEMMA EndCopy ==
  ASSUME FilesInv, NEW c \in FileCalls, ReplyInv(c), script[c].pc # "none", NEW reply, Ends(c, reply), Looks
  PROVE  OwnCopy(c)
<1>1. script'[c].pc = "none" /\ script'[c].wrote = script[c].wrote /\ changes' = changes
  BY Shaped DEF Ends, Looks, ScriptRecords
<1>2. QED BY <1>1 DEF OwnCopy

LEMMA StepFields ==
  ASSUME FilesInv, NEW c \in FileCalls, NEW pc \in Stages, Step(c, pc)
  PROVE  /\ script'[c].pc = pc /\ script'[c].origin = script[c].origin
         /\ script'[c].wrote = script[c].wrote /\ script'[c].todo = script[c].todo
  BY Shaped DEF Step, ScriptRecords

LEMMA CheckSourceCopy ==
  ASSUME FilesInv, NEW c \in FileCalls, ReplyInv(c), CheckSource(c)
  PROVE  OwnCopy(c)
<1> DEFINE from == call[c].from
<1>1. script[c].pc = "source" /\ Looks /\ fs' = fs /\ changes' = changes
  BY DEF CheckSource, Looks
<1>2. CASE Throws(c)
  BY <1>1, <1>2, EndCopy DEF Throws
<1>3. CASE ~Throws(c)
  <2>1. /\ Kind(from) # Nothing /\ Kind(from) = call[c].kind
        /\ script'[c].pc = "target" /\ script'[c].origin = Image(from)
        /\ script'[c].wrote = script[c].wrote
    BY <1>3, Shaped DEF CheckSource, ScriptRecords
  <2>2. from \in Paths /\ fs[from] # Nothing /\ fs[from].kind = call[c].kind
    BY <2>1, Shaped, KindOf
  <2>3. Image(from) = ImageIn(fs, from)
    BY DEF Image, ImageIn
  <2>4. <<SubSeq(from, Len(from) + 1, Len(from)), fs[from]>> \in ImageIn(fs, from)
    BY <2>2, TreeIs DEF ImageIn
  <2>5. Image(from) # {}
    BY <2>3, <2>4
  <2> HIDE DEF from
  <2>6. call[c].mode = "copy" => ~script[c].wrote
    BY <1>1 DEF ReplyInv
  <2>7. QED BY <1>1, <2>1, <2>2, <2>3, <2>5, <2>6 DEF OwnCopy, CopyTrail, from
<1>4. QED BY <1>2, <1>3

LEMMA CheckTargetCopy ==
  ASSUME FilesInv, NEW c \in FileCalls, ReplyInv(c), CheckTarget(c)
  PROVE  OwnCopy(c)
<1>1. script[c].pc = "target" /\ Looks /\ fs' = fs /\ changes' = changes
  BY DEF CheckTarget, Looks
<1>2. CASE ~TargetPasses(c)
  BY <1>1, <1>2, EndCopy DEF Throws, CheckTarget
<1>3. CASE TargetPasses(c)
  <2>1. /\ script'[c].pc = NextStep(c) /\ script'[c].origin = script[c].origin
        /\ script'[c].wrote = (NextStep(c) = "copy")
    BY <1>3, Shaped DEF CheckTarget, ScriptRecords
  <2>2. call[c].mode = "copy" => NextStep(c) \in {"walk", "copy"} /\ Kind(call[c].to) \in {Nothing, "file"}
    BY <1>3 DEF NextStep, TargetPasses
  <2>3. call[c].to \in Paths
    BY <1>1, ScriptRuns DEF Planned
  <2>4. call[c].mode = "copy" => fs[call[c].to] = Nothing \/ fs[call[c].to].kind # "dir"
    BY <2>2, <2>3, Shaped, KindOf, NotDir
  <2>5. call[c].mode \in Moving \cup {"copy"} => script[c].origin # {}
    BY <1>1 DEF ReplyInv
  <2>6. call[c].mode = "copy" => ~script[c].wrote
    BY <1>1 DEF ReplyInv
  <2>7. QED BY <1>1, <2>1, <2>2, <2>4, <2>5, <2>6 DEF OwnCopy, ReplyInv, Copying, CopyTrail
<1>4. QED BY <1>2, <1>3

LEMMA CopyFileCopy ==
  ASSUME FilesInv, NEW c \in FileCalls, ReplyInv(c), CopyFile(c)
  PROVE  OwnCopy(c)
<1>1. script[c].pc = "copy"
  BY DEF CopyFile
<1>2. script'[c].wrote = script[c].wrote
  BY Shaped DEF CopyFile, Step, Ends, ScriptRecords
<1>3. call[c].mode = "copy" => script[c].wrote
  BY <1>1 DEF ReplyInv
<1>4. QED BY <1>1, <1>2, <1>3, CopyFileDoes DEF OwnCopy, ReplyInv, Copying, CopyTrail

LEMMA MeasureCopyCopy ==
  ASSUME FilesInv, NEW c \in FileCalls, ReplyInv(c), MeasureCopy(c)
  PROVE  OwnCopy(c)
<1>1. script[c].pc = "measure" /\ Looks
  BY DEF MeasureCopy, Looks
<1>2. CASE Throws(c) \/ Ends(c, "ok")
  BY <1>1, <1>2, EndCopy DEF Throws
<1>3. CASE ~(Throws(c) \/ Ends(c, "ok"))
  <2>1. call[c].mode # "copy" /\ Step(c, "delete")
    BY <1>3 DEF MeasureCopy
  <2>2. script'[c].origin = script[c].origin
    BY <2>1, StepFields DEF Stages
  <2>3. QED BY <1>1, <2>1, <2>2 DEF OwnCopy, ReplyInv
<1>4. QED BY <1>2, <1>3

LEMMA WalkCopy ==
  ASSUME FilesInv, NEW c \in FileCalls, ReplyInv(c), Walk(c)
  PROVE  OwnCopy(c)
<1>1. script[c].pc = "walk" /\ Looks /\ fs' = fs /\ changes' = changes
  BY DEF Walk, Looks
<1>2. CASE Throws(c)
  BY <1>1, <1>2, EndCopy DEF Throws
<1>3. CASE ~Throws(c)
  <2>1. /\ script'[c].pc = "make" /\ script'[c].todo = Content(call[c].from)
        /\ script'[c].wrote = TRUE /\ script'[c].origin = script[c].origin
    BY <1>3, Shaped DEF Walk, ScriptRecords
  <2>2. Content(call[c].from) = There(fs, call[c].from) \ {call[c].from}
    BY DEF Content, There
  <2>3. QED BY <1>1, <2>1, <2>2 DEF OwnCopy, ReplyInv, Copying, CopyTrail
<1>4. QED BY <1>2, <1>3

(* The target is there before anything is copied into it.                  *)
LEMMA MakeTargetCopy ==
  ASSUME FilesInv, NEW c \in FileCalls, ReplyInv(c), MakeTarget(c)
  PROVE  OwnCopy(c)
<1> DEFINE from == call[c].from
           to == call[c].to
<1>1. /\ call[c].mode = "copy" /\ script[c].pc = "make" /\ MayMake(to) /\ fs' = Made(to)
      /\ Step(c, "items")
  BY ChangesIs DEF MakeTarget, AtHost
<1>2. /\ script'[c].pc = "items" /\ script'[c].origin = script[c].origin
      /\ script'[c].wrote = script[c].wrote /\ script'[c].todo = script[c].todo
  BY <1>1, StepFields DEF Stages
<1>3. from \in Paths /\ to \in Paths /\ call[c].answer = "agreed"
  BY <1>1, ScriptRuns DEF Planned
<1>4. call[c].kind = "dir"
  BY <1>1, <1>3 DEF FilesInv, FileScriptInv, Legal
<1>5. SUFFICES ASSUME c \notin disturbed, ~Within(to, from) PROVE CopyTrail(fs', call[c], script'[c])
  BY <1>1, <1>2 DEF OwnCopy, ReplyInv, CopyTrail
<1>6. CopyTrail(fs, call[c], script[c])
  BY <1>1, <1>5 DEF ReplyInv, Copying
<1>7. /\ ImageIn(fs, from) = script[c].origin /\ fs[from] # Nothing /\ fs[from].kind = "dir"
      /\ fs[to] = Nothing \/ fs[to].kind # "dir"
      /\ script[c].todo = There(fs, from) \ {from}
  BY <1>1, <1>4, <1>6 DEF CopyTrail
<1>8. IsPath(from) /\ IsPath(to)
  BY <1>3, PathIsSeq
<1>9. to \in Levels[to] /\ \A q \in Paths : q \in Levels[to] <=> Within(to, q)
  BY <1>3, <1>8, WithinSelf DEF Levels
<1>10. fs[to] = Nothing
  <2>1. Kind(to) \in {Nothing, "dir"}
    BY <1>1, <1>9 DEF MayMake
  <2>2. QED BY <1>3, <1>7, <2>1, Shaped, KindOf
<1>11. ~Within(from, to)
  <2>1. SUFFICES ASSUME Within(from, to) PROVE FALSE
    OBVIOUS
  <2>2. from # to
    BY <1>7, <1>10
  <2>3. QED BY <1>3, <1>7, <1>10, <2>1, <2>2, Shaped DEF TreeInv, Rooted, Below
<1>12. \A q \in Paths : fs'[q] = IF Within(to, q) /\ fs[q] = Nothing THEN Directory ELSE fs[q]
  BY <1>1, <1>3, <1>9 DEF Made, MissingLevels
<1>13. \A q \in Tree(from) : fs'[q] = fs[q]
  <2>1. SUFFICES ASSUME NEW q \in Paths, Within(q, from) PROVE ~Within(to, q)
    BY <1>3, <1>12, TreeIs
  <2>2. QED BY <1>5, <1>8, <2>1, PathIsSeq, WithinTrans
<1>14. There(fs', from) = There(fs, from) /\ ImageIn(fs', from) = ImageIn(fs, from)
       /\ fs'[from] = fs[from]
  BY <1>3, <1>13, ImageSame, TreeIs DEF There
<1>15. fs'[to] = Directory /\ fs[from] = Directory
  <2>1. fs'[to] = Directory
    BY <1>3, <1>8, <1>10, <1>12, WithinSelf
  <2>2. fs[from] \in Objects
    BY <1>3, <1>7, Shaped DEF Files
  <2>3. fs[from] = Directory
    BY <1>7, <2>2 DEF Objects, Directory
  <2>4. QED BY <2>1, <2>3
<1>16. There(fs', to) = {to}
  <2>1. Directory # Nothing
    BY <1>7, <1>15
  <2>2. ASSUME NEW q \in Paths, Within(q, to), q # to PROVE fs'[q] = Nothing
    <3>1. fs[q] = Nothing
      BY <1>3, <1>10, <2>2, Shaped DEF TreeInv, Rooted, Below
    <3>2. ~Within(to, q)
      BY <1>8, <2>2, PathIsSeq, WithinBoth DEF Within
    <3>3. QED BY <1>12, <3>1, <3>2
  <2>3. QED BY <1>3, <1>15, <2>1, <2>2, TreeIs
<1>17. There(fs', from) \ script[c].todo = {from}
  BY <1>3, <1>7, <1>14, TreeIs
<1>18. Moved(from, from, to) = to
  BY <1>8, MovedSelf
<1>19. Partly(fs', from, to, script[c].todo)
  <2>1. \A q \in script[c].todo, r \in There(fs', from) : Within(r, q) => r \in script[c].todo
    <3>1. SUFFICES ASSUME NEW q \in script[c].todo, Within(from, q) PROVE FALSE
      BY <1>7, <1>14
    <3>2. q \in Paths /\ Within(q, from) /\ q # from
      BY <1>3, <1>7, TreeIs
    <3>3. QED BY <1>8, <3>1, <3>2, PathIsSeq, WithinBoth DEF Within
  <2>2. script[c].todo \subseteq There(fs', from) \ {from}
    BY <1>7, <1>14
  <2>3. fs'[from] # Nothing
    BY <1>7, <1>14
  <2>4. QED BY <1>3, <1>5, <1>11, <1>14, <1>15, <1>16, <1>17, <1>18, <2>1, <2>2, <2>3 DEF Partly
<1>20. QED BY <1>2, <1>4, <1>7, <1>14, <1>19 DEF CopyTrail

(* Above a place for a copy there is the directory that was copied before. *)
LEMMA CopiedAbove ==
  ASSUME NEW f, Rooted(f), NEW from \in Paths, NEW to \in Paths, NEW todo,
         Partly(f, from, to, todo), NEW p \in todo, Parent(p) \notin todo,
         NEW q \in Paths, Below(Moved(p, from, to), q)
  PROVE  f[q] # Nothing
<1> DEFINE dst == Moved(p, from, to)
           mp == Moved(Parent(p), from, to)
<1>1. p \in There(f, from) /\ p # from /\ p \in Paths /\ Within(p, from)
  BY TreeIs DEF Partly
<1>2. /\ Parent(p) \in There(f, from) /\ Below(p, Parent(p)) /\ Within(Parent(p), from)
      /\ Len(Parent(p)) = Len(p) - 1 /\ f[Parent(p)].kind = "dir" /\ f[Parent(p)] # Nothing
  BY <1>1, ParentThere, TreeIs
<1>3. mp \in Paths /\ f[mp] = f[Parent(p)]
  BY <1>2 DEF Partly
<1>4. IsPath(p) /\ IsPath(Parent(p)) /\ IsPath(from) /\ IsPath(to) /\ IsPath(q) /\ IsPath(mp)
  BY <1>1, <1>2, <1>3, TreeIs, PathIsSeq
<1>5. Below(dst, mp)
  BY <1>2, <1>4, MovedTree
<1>6. IsMoved(dst, p, from, to) /\ IsMoved(mp, Parent(p), from, to)
  BY <1>1, <1>2, <1>4, MovedPoints
<1> HIDE DEF dst, mp
<1>7. /\ IsPath(dst) /\ Len(dst) = Len(to) + (Len(p) - Len(from))
      /\ Len(mp) = Len(to) + ((Len(p) - 1) - Len(from))
  BY <1>2, <1>6 DEF IsMoved
<1>8. Len(mp) \in Nat /\ Len(dst) \in Nat /\ Len(q) \in Nat /\ Len(mp) = Len(dst) - 1
  <2>1. Len(mp) \in Nat /\ Len(dst) \in Nat /\ Len(q) \in Nat /\ Len(p) \in Nat
        /\ Len(from) \in Nat /\ Len(to) \in Nat
    BY <1>4, <1>7, PathLength
  <2>2. QED BY <1>7, <2>1
<1>9. Within(dst, q) /\ dst # q /\ Within(dst, mp)
  BY <1>5 DEF Below, dst
<1>10. Len(q) =< Len(mp)
  <2>1. ~(Len(dst) =< Len(q))
    BY <1>4, <1>7, <1>9, WithinBoth
  <2>2. QED BY <1>8, <2>1
<1>11. Within(mp, q)
  BY <1>4, <1>7, <1>9, <1>10, WithinCompare
<1>12. QED BY <1>2, <1>3, <1>11 DEF Rooted, Below

LEMMA CopyItemCopy ==
  ASSUME FilesInv, NEW c \in FileCalls, ReplyInv(c), NEW p \in Paths, CopyItem(c, p)
  PROVE  OwnCopy(c)
<1> DEFINE from == call[c].from
           to == call[c].to
           dst == Destination(c, p)
<1>1. /\ script[c].pc = "items" /\ p \in script[c].todo /\ Parent(p) \notin script[c].todo
      /\ dst \in Paths /\ script' = [script EXCEPT ![c].todo = @ \ {p}]
      /\ \/ Kind(p) = "dir" /\ MayMake(dst) /\ Changes(c, Made(dst))
         \/ Kind(p) = "file" /\ Changes(c, At(dst, fs[p]))
  BY DEF CopyItem
<1>2. /\ script'[c].pc = "items" /\ script'[c].origin = script[c].origin
      /\ script'[c].wrote = script[c].wrote /\ script'[c].todo = script[c].todo \ {p}
  BY <1>1, Shaped DEF ScriptRecords
<1>3. from \in Paths /\ to \in Paths /\ call[c].mode = "copy"
  BY <1>1, ScriptRuns, WorksOf DEF Planned
<1>4. SUFFICES ASSUME c \notin disturbed, ~Within(to, from) PROVE CopyTrail(fs', call[c], script'[c])
  BY <1>1, <1>2, <1>3 DEF OwnCopy, ReplyInv, CopyTrail
<1>5. CopyTrail(fs, call[c], script[c])
  BY <1>1, <1>3, <1>4 DEF ReplyInv, Copying
<1>6. /\ ImageIn(fs, from) = script[c].origin /\ fs[from] # Nothing
      /\ fs[from].kind = call[c].kind /\ Partly(fs, from, to, script[c].todo)
  BY <1>1, <1>4, <1>5 DEF CopyTrail
<1>7. dst = Moved(p, from, to)
  BY DEF Destination, Moved
<1>8. fs'[dst] = fs[p] /\ \A q \in Paths \ {dst} : fs'[q] = fs[q]
  <2>1. CASE Kind(p) = "file" /\ Changes(c, At(dst, fs[p]))
    <3>1. fs' = At(dst, fs[p])
      BY <2>1, ChangesIs
    <3> HIDE DEF dst
    <3>2. QED BY <1>1, <3>1, Shaped DEF At, Files
  <2>2. CASE Kind(p) = "dir" /\ MayMake(dst) /\ Changes(c, Made(dst))
    <3>1. fs' = Made(dst)
      BY <2>2, ChangesIs
    <3>2. fs[p] = Directory
      BY <2>2, Shaped, KindOf, NotDir, ObjectKinds
    <3> HIDE DEF dst
    <3>3. dst \in Levels[dst] /\ \A q \in Paths : q \in Levels[dst] <=> Within(dst, q)
      BY <1>1, PathIsSeq, WithinSelf DEF Levels
    <3>4. \A q \in Paths : fs'[q] = IF Within(dst, q) /\ fs[q] = Nothing THEN Directory ELSE fs[q]
      BY <3>1, <3>3 DEF Made, MissingLevels
    <3>5. fs[dst] = Nothing \/ fs[dst] = Directory
      <4>1. Kind(dst) \in {Nothing, "dir"}
        BY <2>2, <3>3 DEF MayMake
      <4>2. QED BY <1>1, <4>1, Shaped, KindOf, ObjectKinds
    <3>6. fs'[dst] = Directory
      BY <1>1, <3>3, <3>4, <3>5
    <3>7. ASSUME NEW q \in Paths \ {dst}, Within(dst, q) PROVE fs[q] # Nothing
      <4>1. Below(Moved(p, from, to), q)
        BY <1>7, <3>7 DEF Below
      <4>2. QED BY <1>1, <1>3, <1>6, <4>1, Shaped, CopiedAbove DEF TreeInv
    <3>8. QED BY <3>2, <3>4, <3>6, <3>7
  <2>3. QED BY <1>1, <2>1, <2>2
<1> HIDE DEF dst
<1>9. Partly(fs', from, to, script[c].todo \ {p}) /\ \A q \in Tree(from) : fs'[q] = fs[q]
  <2> HIDE DEF from, to
  <2>1. Rooted(fs) /\ fs'[Moved(p, from, to)] = fs[p] /\ Moved(p, from, to) \in Paths
    BY <1>1, <1>7, <1>8, Shaped DEF TreeInv
  <2>2. \A q \in Paths \ {Moved(p, from, to)} : fs'[q] = fs[q]
    BY <1>7, <1>8
  <2>3. Partly(fs, from, to, script[c].todo) /\ p \in script[c].todo
        /\ Parent(p) \notin script[c].todo
    BY <1>1, <1>6
  <2> HIDE DEF Partly
  <2>4. QED BY <1>3, <2>1, <2>2, <2>3, CopiesOne
<1>10. ImageIn(fs', from) = ImageIn(fs, from) /\ fs'[from] = fs[from]
  BY <1>3, <1>9, ImageSame, TreeIs
<1>11. QED BY <1>2, <1>6, <1>9, <1>10 DEF CopyTrail

LEMMA CopiedAllCopy ==
  ASSUME FilesInv, NEW c \in FileCalls, ReplyInv(c), CopiedAll(c)
  PROVE  OwnCopy(c)
<1>1. script[c].pc = "items" /\ Looks /\ Ends(c, "ok")
  BY DEF CopiedAll
<1>2. QED BY <1>1, EndCopy

(* The steps of a command that moves: it keeps what it has seen.           *)
LEMMA MovingCopy ==
  ASSUME FilesInv, NEW c \in FileCalls, ReplyInv(c),
         MoveItem(c) \/ MoveAway(c) \/ MoveBack(c) \/ DeleteSource(c)
  PROVE  OwnCopy(c)
<1>1. script[c].pc \in {"move", "away", "back", "delete"}
  BY DEF MoveItem, MoveAway, MoveBack, DeleteSource
<1>2. call[c].mode # "copy"
  BY <1>1, ScriptRuns, WorksOf DEF Planned
<1>3. script'[c].origin = script[c].origin
  BY Shaped DEF MoveItem, MoveAway, MoveBack, DeleteSource, Step, Ends, ScriptRecords
<1>4. QED BY <1>1, <1>2, <1>3 DEF OwnCopy, ReplyInv

LEMMA OwnCopyStep ==
  ASSUME FilesInv, NEW c \in FileCalls, ReplyInv(c), HostWorks(c) \/ HostThrows(c)
  PROVE  OwnCopy(c)
<1>1. CASE HostThrows(c)
  BY <1>1, EndCopy DEF HostThrows, Throws, Looks
<1>2. CASE LookAgain(c)
  <2>1. script[c].pc = "look" /\ Looks
    BY <1>2 DEF LookAgain
  <2>2. call[c].mode \in {"delete", "tree", "rename", "cross", "create"}
    BY <2>1, ScriptRuns, WorksOf DEF Planned
  <2>3. \E reply : Ends(c, reply)
    BY <1>2, <2>2 DEF LookAgain, Throws
  <2>4. QED BY <2>1, <2>3, EndCopy
<1>3. CASE CreateLevels(c) \/ RemoveFile(c) \/ CheckLinks(c) \/ RemoveItem(c)
  <2>1. call[c].mode \notin Moving
    BY <1>3, OtherTrail
  <2>2. script[c].pc \in {"make", "remove", "links"} /\ (script[c].pc = "make" => call[c].mode = "create")
    BY <1>3 DEF CreateLevels, RemoveFile, CheckLinks, RemoveItem, AtHost
  <2>3. call[c].mode # "copy"
    BY <2>2, ScriptRuns, WorksOf DEF Planned
  <2>4. QED BY <2>1, <2>3 DEF OwnCopy
<1>4. CASE \E p \in Paths : CopyItem(c, p)
  BY <1>4, CopyItemCopy
<1>5. QED BY <1>1, <1>2, <1>3, <1>4, CheckSourceCopy, CheckTargetCopy, CopyFileCopy,
          MeasureCopyCopy, WalkCopy, MakeTargetCopy, CopiedAllCopy, MovingCopy DEF HostWorks

LEMMA CopyTrailFields ==
  ASSUME NEW f, NEW k, NEW l, NEW s, CopyTrail(f, k, s),
         l.from = k.from, l.to = k.to, l.kind = k.kind
  PROVE  CopyTrail(f, l, s)
  BY DEF CopyTrail

(* A command begins with the confirmation, before it changed anything.     *)
LEMMA CommandBegins ==
  ASSUME FilesInv, [FilesNext]_filesVars, NEW c \in FileCalls, ~(HostWorks(c) \/ HostThrows(c)),
         script'[c] # script[c]
  PROVE  /\ script'[c] = Fresh(FirstStep(call[c].mode)) /\ call'[c].mode = call[c].mode
         /\ call[c].mode \in Modes /\ call[c].answer = "open" /\ changes' = changes
<1>0. script \in [FileCalls -> ScriptRecords] /\ call \in [FileCalls -> FileCallRecords]
  BY Shaped
<1>1. ~UNCHANGED filesVars /\ ~\E p \in Paths : Meddle(p)
  BY DEF filesVars, Meddle
<1>2. ASSUME NEW d \in FileCalls,
             FileAsk(d) \/ FileAnswerLost(d) \/ ScanSource(d) \/ ScanTarget(d) \/ FileRefuse(d)
      PROVE  FALSE
  BY <1>2 DEF FileAsk, FileAnswerLost, ScanSource, ScanTarget, FileRefuse
<1>3. ASSUME NEW d \in FileCalls, HostWorks(d) \/ HostThrows(d) PROVE FALSE
  BY <1>3, HostWorksStep, HostFrozen
<1>4. PICK d \in FileCalls : FileConfirm(d)
  BY <1>1, <1>2, <1>3 DEF FilesNext, ServerStep
<1>5. StartScript(d) /\ changes' = changes /\ call[d].pc = "prompt"
  BY <1>4 DEF FileConfirm, AtCall
<1>6. d = c /\ script'[c] = Fresh(FirstStep(call[c].mode))
  BY <1>0, <1>5 DEF StartScript
<1>7. call[c].mode \in Modes /\ call[c].answer = "open"
  BY <1>5, <1>6 DEF FilesInv, FileCallInv, Planned, Asked
<1>8. call'[c].mode = call[c].mode
  BY <1>0, <1>5, <1>6 DEF StartScript, FileCallRecords
<1>9. QED BY <1>5, <1>6, <1>7, <1>8

LEMMA ReplyInvStep ==
  ASSUME FilesInv, [FilesNext]_filesVars, NEW c \in FileCalls,
         VanishInv(c), ReplyInv(c)
  PROVE  ReplyInv(c)'
<1>1. CASE HostWorks(c) \/ HostThrows(c)
  <2>1. OwnCopy(c) /\ FileScriptStep(c) /\ call[c].answer = "agreed"
    BY <1>1, OwnCopyStep, HostWorksStep, HostRuns, ScriptRuns
  <2>2. /\ call'[c].mode = call[c].mode /\ call'[c].from = call[c].from
        /\ call'[c].to = call[c].to /\ call'[c].kind = call[c].kind
    BY <2>1, HostFrozen
  <2>3. disturbed \subseteq disturbed'
    BY <2>1 DEF FileScriptStep, Looks, Changes, Disturb
  <2>4. Copying(c)' /\ c \notin disturbed' => CopyTrail(fs', call'[c], script'[c])
    BY <2>1, <2>2, <2>3, CopyTrailFields DEF OwnCopy, Copying
  <2>5. call'[c].mode = "copy" /\ ~script'[c].wrote => Untouched(c)'
    BY <2>1, <2>2 DEF OwnCopy, ReplyInv, Untouched
  <2>6. QED BY <2>1, <2>2, <2>4, <2>5 DEF OwnCopy, ReplyInv
<1>2. CASE ~(HostWorks(c) \/ HostThrows(c)) /\ script'[c] # script[c]
  <2>1. /\ script'[c] = Fresh(FirstStep(call[c].mode)) /\ call'[c].mode = call[c].mode
        /\ call[c].mode \in Modes /\ call[c].answer = "open" /\ changes' = changes
    BY <1>2, CommandBegins
  <2>2. Untouched(c)'
    BY <2>1 DEF FilesInv, HistoryInv, Untouched
  <2>3. call[c].mode \in Moving \cup {"copy"} => script'[c].pc = "source" /\ ~script'[c].wrote
    BY <2>1 DEF Fresh, NoScript, FirstStep, Moving
  <2>4. QED BY <2>1, <2>2, <2>3 DEF ReplyInv, Copying
<1>3. CASE ~(HostWorks(c) \/ HostThrows(c)) /\ script'[c] = script[c]
  <2>1. Untouched(c) => Untouched(c)'
    <3>1. CASE changes' = changes
      BY <3>1 DEF Untouched
    <3>2. CASE changes' # changes
      <4>1. PICK d \in FileCalls : HostWorks(d) \/ HostThrows(d)
        BY <3>2 DEF FilesNext, filesVars, FileAsk, FileAnswerLost, Meddle, ServerStep, ScanSource,
           ScanTarget, FileRefuse, FileConfirm
      <4>2. Changes(d, fs') /\ d # c
        BY <1>3, <3>2, <4>1, HostWorksStep DEF FileScriptStep, Looks
      <4>3. QED BY <4>2 DEF Changes, Untouched
    <3>3. QED BY <3>1, <3>2
  <2>2. CASE call[c].answer # "agreed"
    <3>1. script'[c].pc = "none" /\ Untouched(c)
      BY <1>3, <2>2 DEF FilesInv, FileScriptInv, HistoryInv, Untouched
    <3>2. QED BY <2>1, <3>1 DEF ReplyInv, Copying
  <2>3. CASE call[c].answer = "agreed"
    <3>1. /\ call'[c].mode = call[c].mode /\ call'[c].from = call[c].from
          /\ call'[c].to = call[c].to /\ call'[c].kind = call[c].kind
      BY <2>3, AgreedFrozen
    <3>2. Copying(c)' /\ c \notin disturbed' => CopyTrail(fs', call'[c], script'[c])
      <4>1. SUFFICES ASSUME Copying(c)', c \notin disturbed'
                     PROVE  CopyTrail(fs', call'[c], script'[c])
        OBVIOUS
      <4>2. Copying(c) /\ script[c].origin # {}
        BY <1>3, <3>1, <4>1 DEF Copying, ReplyInv
      <4>3. c \notin disturbed /\ \A q \in Touched(c) : fs'[q] = fs[q]
        BY <1>3, <4>1, <4>2, DisturbedStep
      <4>4. call[c].from \in Paths /\ call[c].to \in Paths /\ call[c].from # Nothing
        BY <2>3, PathsAssumption DEF FilesInv, FileCallInv, Planned
      <4>5. Tree(call[c].from) \cup Tree(call[c].to) \subseteq Touched(c)
        <5>1. call[c].mode = "copy"
          BY <4>2 DEF Copying
        <5>2. QED BY <4>4, <5>1, TouchedTrees
      <4>6. CopyTrail(fs', call[c], script[c])
        BY <4>2, <4>3, <4>4, <4>5, CopyTrailKept DEF ReplyInv
      <4>7. QED BY <1>3, <3>1, <4>6, CopyTrailFields
    <3>3. QED BY <1>3, <2>1, <2>3, <3>1, <3>2 DEF ReplyInv
  <2>4. QED BY <2>2, <2>3
<1>4. QED BY <1>1, <1>2, <1>3

-----------------------------------------------------------------------------
(* What a command tells is true.                                           *)

KindIn(f, p) == IF p \notin Paths \/ f[p] = Nothing THEN Nothing ELSE f[p].kind

(* The effect of a call k whose command saw an object at first.            *)
Done(f, k, origin) ==
  CASE k.mode = "copy" -> ImageIn(f, k.from) = origin /\ ImageIn(f, k.to) = origin
    [] k.mode = "case" -> ImageIn(f, k.to) = origin
    [] k.mode \in {"rename", "cross"} -> ImageIn(f, k.to) = origin /\ KindIn(f, k.from) = Nothing
    [] k.mode = "create" -> KindIn(f, k.to) = "dir"
    [] OTHER -> KindIn(f, k.from) = Nothing

IntoItself(k) == k.mode = "copy" /\ k.kind = "dir" /\ Within(k.to, k.from)

LEMMA TrueReplyNext ==
  ASSUME NEW c,
         call'[c].reply = "ok" => Done(fs', call'[c], script'[c].origin) \/ IntoItself(call'[c]),
         call'[c].reply = "error" /\ call'[c].mode = "copy" => Untouched(c)',
         call'[c].reply = "both" => ImageIn(fs', call'[c].to) = script'[c].origin
  PROVE  TrueReply(c)'
  BY DEF TrueReply, Effect, Done, Image, ImageIn, Kind, KindIn, SelfCopy, IntoItself

(* The last statement of a command and the answer of its call.             *)
LEMMA EndTells ==
  ASSUME FilesInv, NEW c \in FileCalls, AtCall(c, "host"), NEW reply, Ends(c, reply),
         reply = "ok" => Done(fs', call[c], script[c].origin) \/ IntoItself(call[c]),
         reply = "error" /\ call[c].mode = "copy" => Untouched(c)',
         reply = "both" => ImageIn(fs', call[c].to) = script[c].origin
  PROVE  TrueReply(c)'
<1>1. script'[c].origin = script[c].origin
  BY Shaped DEF Ends, ScriptRecords
<1>2. /\ call'[c].reply = reply /\ call'[c].mode = call[c].mode
      /\ call'[c].from = call[c].from /\ call'[c].to = call[c].to /\ call'[c].kind = call[c].kind
  BY Shaped DEF Ends, FilesOver, FileCallRecords
<1>3. /\ Done(fs', call[c], script[c].origin) => Done(fs', call'[c], script'[c].origin)
      /\ IntoItself(call[c]) => IntoItself(call'[c])
  BY <1>1, <1>2 DEF Done, IntoItself
<1>4. QED BY <1>1, <1>2, <1>3, TrueReplyNext

(* A thrown error tells of no success; "both" only after the copy was      *)
(* measured, and a plain error of a copy only before the first write.      *)
LEMMA ThrowTells ==
  ASSUME FilesInv, NEW c \in FileCalls, VanishInv(c), ReplyInv(c), c \notin disturbed,
         AtCall(c, "host"), script[c].pc # "none", Throws(c), Looks
  PROVE  TrueReply(c)'
<1>1. Ends(c, Blame(c)) /\ fs' = fs /\ changes' = changes
  BY DEF Throws, Looks
<1>2. Blame(c) # "ok"
  BY DEF Blame
<1>3. Blame(c) = "error" /\ call[c].mode = "copy" => Untouched(c)'
  <2>1. call[c].answer = "agreed"
    BY ScriptRuns
  <2>2. QED BY <1>1, <2>1 DEF Blame, ReplyInv, Untouched
<1>4. Blame(c) = "both" => ImageIn(fs', call[c].to) = script[c].origin
  <2>1. Blame(c) = "both" => call[c].mode = "cross" /\ script[c].pc \in {"delete", "look"}
    BY DEF Blame
  <2>2. QED BY <1>1, <2>1 DEF ReplyInv, VanishInv, Trail, Moving
<1>5. QED BY <1>1, <1>2, <1>3, <1>4, EndTells

(* The answer of copy_file: the copy is whole, and its source is as it was.*)
LEMMA CopyTells ==
  ASSUME FilesInv, NEW c \in FileCalls, VanishInv(c), ReplyInv(c), c \notin disturbed,
         AtCall(c, "host"), MeasureCopy(c) \/ CopiedAll(c), call'[c] # call[c]
  PROVE  TrueReply(c)'
<1> DEFINE from == call[c].from
           to == call[c].to
<1>1. /\ script[c].pc \in {"measure", "items"} /\ Looks /\ fs' = fs
      /\ call[c].mode \in {"copy", "cross"} /\ from \in Paths /\ to \in Paths
  <2>1. script[c].pc \in {"measure", "items"} /\ Looks /\ fs' = fs
    BY DEF MeasureCopy, CopiedAll, Looks
  <2>2. QED BY <2>1, ScriptRuns, WorksOf DEF Planned
<1>2. CASE Throws(c)
  BY <1>1, <1>2, ThrowTells
<1>3. CASE ~Throws(c)
  <2>1. call[c].mode = "copy" /\ Ends(c, "ok")
    BY <1>1, <1>3, ScriptRuns, WorksOf DEF MeasureCopy, CopiedAll, Planned
  <2>2. CopyTrail(fs, call[c], script[c])
    BY <1>1, <2>1 DEF ReplyInv, Copying
  <2>3. CASE CopiedAll(c) /\ Within(to, from)
    <3>1. call[c].kind = "dir" /\ script[c].pc = "items"
      BY <1>1, <2>1, <2>3, ScriptRuns DEF FilesInv, FileScriptInv, Legal, CopiedAll
    <3>2. IntoItself(call[c])
      BY <2>1, <2>3, <3>1 DEF IntoItself
    <3>3. QED BY <2>1, <3>2, EndTells
  <2>4. CASE MeasureCopy(c) \/ ~Within(to, from)
    <3>0. ImageIn(fs, from) = script[c].origin
      BY <2>2, <2>4 DEF CopyTrail, MeasureCopy
    <3>1. ASSUME MeasureCopy(c) PROVE ImageIn(fs, to) = script[c].origin
      <4>1. /\ script[c].pc = "measure" /\ Kind(to) = "file"
            /\ \A d \in Measured(c) : MayAgree(fs[to].data, d)
        BY <1>3, <3>1 DEF MeasureCopy
      <4>2. /\ fs[from] # Nothing /\ fs[from].kind = "file"
            /\ fs[to] \in {fs[from], [kind |-> "file", data |-> Part]}
        BY <2>2, <4>1 DEF CopyTrail
      <4>3. QED BY <1>1, <3>0, <4>1, <4>2, MeasuredWhole
    <3>2. ASSUME CopiedAll(c), ~Within(to, from) PROVE ImageIn(fs, to) = script[c].origin
      <4>1. Partly(fs, from, to, {})
        BY <2>2, <3>2 DEF CopiedAll, CopyTrail
      <4>2. QED BY <1>1, <3>0, <4>1, CopiedImage
    <3>3. Done(fs', call[c], script[c].origin)
      BY <1>1, <2>1, <2>4, <3>0, <3>1, <3>2 DEF Done
    <3>4. QED BY <2>1, <3>3, EndTells
  <2>5. QED BY <2>3, <2>4
<1>4. QED BY <1>2, <1>3

(* A change of case ends with its second rename.                           *)
LEMMA MoveBackTells ==
  ASSUME FilesInv, NEW c \in FileCalls, VanishInv(c), ReplyInv(c), c \notin disturbed,
         AtCall(c, "host"), MoveBack(c)
  PROVE  TrueReply(c)'
<1> DEFINE to == call[c].to
           temp == TempPath(c)
<1>1. /\ script[c].pc = "back" /\ fs' = Renamed(temp, to) /\ Ends(c, "ok") /\ Fits(temp, to)
      /\ Kind(temp) = call[c].kind
  BY ChangesIs DEF MoveBack
<1>2. call[c].mode = "case" /\ to \in Paths /\ temp \in Paths
  BY <1>1, ScriptRuns, WorksOf, Shaped, KindOf DEF Planned
<1>3. ImageIn(fs', to) = ImageIn(fs, temp)
  BY <1>1, <1>2, RenamedImage
<1>4. ImageIn(fs, temp) = script[c].origin
  BY <1>1, <1>2 DEF ReplyInv, VanishInv, Trail, Moving, TempPath
<1>5. Done(fs', call[c], script[c].origin)
  BY <1>2, <1>3, <1>4 DEF Done
<1>6. QED BY <1>1, <1>5, EndTells

(* The last look finds what it answers.                                    *)
LEMMA LookTells ==
  ASSUME FilesInv, NEW c \in FileCalls, VanishInv(c), ReplyInv(c), c \notin disturbed,
         AtCall(c, "host"), LookAgain(c)
  PROVE  TrueReply(c)'
<1> DEFINE from == call[c].from
           to == call[c].to
<1>1. /\ script[c].pc = "look" /\ Looks /\ fs' = fs
      /\ call[c].mode \in {"delete", "tree", "rename", "cross", "create"}
  <2>1. script[c].pc = "look" /\ Looks /\ fs' = fs
    BY DEF LookAgain, Looks
  <2>2. QED BY <2>1, ScriptRuns, WorksOf DEF Planned
<1>2. CASE Throws(c)
  BY <1>1, <1>2, ThrowTells
<1>3. \A p : Kind(p) = KindIn(fs, p)
  BY DEF Kind, KindIn
<1>4. CASE ~Throws(c) /\ call[c].mode \in {"rename", "cross"}
  <2>1. Ends(c, "ok") /\ Kind(from) = Nothing
    BY <1>4 DEF LookAgain
  <2>2. ImageIn(fs, to) = script[c].origin
    BY <1>1, <1>4 DEF ReplyInv, VanishInv, Trail, Moving
  <2>3. Done(fs', call[c], script[c].origin)
    BY <1>1, <1>3, <1>4, <2>1, <2>2 DEF Done
  <2>4. QED BY <2>1, <2>3, EndTells
<1>5. CASE ~Throws(c) /\ call[c].mode = "create"
  <2>1. Ends(c, "ok") /\ Kind(to) = "dir"
    BY <1>5 DEF LookAgain
  <2>2. Done(fs', call[c], script[c].origin)
    BY <1>1, <1>3, <1>5, <2>1 DEF Done
  <2>3. QED BY <2>1, <2>2, EndTells
<1>6. CASE call[c].mode \in {"delete", "tree"}
  <2>1. Ends(c, IF Kind(from) # Nothing THEN "warning" ELSE "ok")
    BY <1>6 DEF LookAgain
  <2>2. Kind(from) = Nothing => Done(fs', call[c], script[c].origin)
    BY <1>1, <1>3, <1>6 DEF Done
  <2>3. QED BY <2>1, <2>2, EndTells
<1>7. QED BY <1>1, <1>2, <1>4, <1>5, <1>6

LEMMA HostTells ==
  ASSUME FilesInv, NEW c \in FileCalls, VanishInv(c), ReplyInv(c), c \notin disturbed,
         AtCall(c, "host"), HostWorks(c) \/ HostThrows(c), call'[c] # call[c]
  PROVE  TrueReply(c)'
<1>1. script[c].pc # "none"
  BY HostRuns
<1>2. CASE HostThrows(c)
  BY <1>1, <1>2, ThrowTells DEF HostThrows, Looks
<1>3. CASE CheckSource(c) \/ CheckTarget(c) \/ Walk(c) \/ CheckLinks(c)
  <2>1. Throws(c) /\ Looks
    BY <1>3 DEF CheckSource, CheckTarget, Walk, CheckLinks
  <2>2. QED BY <1>1, <2>1, ThrowTells
<1>4. CASE CopyFile(c)
  <2>1. Ends(c, "partial")
    BY <1>4 DEF CopyFile
  <2>2. QED BY <2>1, EndTells
<1>5. CASE \/ MakeTarget(c) \/ (\E p \in Paths : CopyItem(c, p)) \/ MoveItem(c) \/ MoveAway(c)
           \/ DeleteSource(c) \/ CreateLevels(c) \/ RemoveFile(c) \/ RemoveItem(c)
  BY <1>5 DEF MakeTarget, CopyItem, MoveItem, MoveAway, DeleteSource, CreateLevels, RemoveFile, RemoveItem
<1>6. QED BY <1>2, <1>3, <1>4, <1>5, CopyTells, MoveBackTells, LookTells DEF HostWorks

LEMMA AnswerTells ==
  ASSUME FilesInv, NEW c \in FileCalls, VanishInv(c), ReplyInv(c), [FilesNext]_filesVars,
         Answers(c), c \notin disturbed'
  PROVE  TrueReply(c)'
<1>0. call[c].pc = "host" /\ call'[c].pc = "over" /\ call'[c] # call[c]
      /\ call \in [FileCalls -> FileCallRecords]
  BY Shaped DEF Answers, AtCall
<1>1. \/ FileAsk(c) \/ ServerStep(c) \/ FileAnswerLost(c) \/ HostWorks(c) \/ HostThrows(c)
  <2>1. ~UNCHANGED filesVars /\ ~\E p \in Paths : Meddle(p)
    BY <1>0 DEF filesVars, Meddle
  <2>2. QED BY <1>0, <2>1, OtherCallKept DEF FilesNext
<1>2. ~FileAsk(c) /\ ~ServerStep(c)
  BY <1>0 DEF FileAsk, ServerStep, ScanSource, ScanTarget, FileRefuse, FileConfirm, AtCall, Asked
<1>3. CASE FileAnswerLost(c)
  <2>1. call'[c].reply = "lost"
    BY <1>0, <1>3 DEF FileAnswerLost, FilesOver, FileCallRecords
  <2>2. QED BY <2>1, TrueReplyNext
<1>4. CASE HostWorks(c) \/ HostThrows(c)
  <2>1. disturbed \subseteq disturbed'
    BY <1>4, HostWorksStep DEF FileScriptStep, Looks, Changes, Disturb
  <2>2. QED BY <1>0, <1>4, <2>1, HostTells DEF AtCall
<1>5. QED BY <1>1, <1>2, <1>3, <1>4

(* TR-FS-09, TR-FS-10: the reports of the file tools (ps.rs, the scripts   *)
(* of copy_file, move_file, rename_file, create_directory and the          *)
(* deletions; server.rs, what is told of an error).  While nobody else     *)
(* touches the paths of a call, a success means the whole effect, but for  *)
(* a directory that was copied into itself, a plain error of a copy that   *)
(* no file changed, and "both copies remain" that the copy is whole; also  *)
(* for a copy of a directory, item after item.                             *)
THEOREM FileAnswersTrue == FilesSpec => FileRepliesTrue
<1> DEFINE VInv == \A c \in FileCalls : VanishInv(c) /\ ReplyInv(c)
           Tells == \A c \in FileCalls : Answers(c) /\ c \notin disturbed' => TrueReply(c)'
<1>1. FilesInit => VInv
  BY DEF FilesInit, VanishInv, ReplyInv, Copying, Untouched, NoScript, Ready
<1>2. FilesInv /\ VInv /\ [FilesNext]_filesVars => VInv' /\ Tells
  <2> SUFFICES ASSUME FilesInv, VInv, [FilesNext]_filesVars PROVE VInv' /\ Tells
    OBVIOUS
  <2>1. \A c \in FileCalls : VanishInv(c)' /\ ReplyInv(c)'
    BY VanishInvStep, ReplyInvStep
  <2>2. Tells
    BY AnswerTells
  <2>3. QED BY <2>1, <2>2
<1> HIDE DEF VInv
<1>3. QED BY <1>1, <1>2, FilesInvariant, PTL DEF FilesSpec, FileRepliesTrue

-----------------------------------------------------------------------------
(* A call goes forward only.                                               *)

(* The statements of the longest way from here to the end of a command.    *)
WorkLeft(pc) ==
  CASE pc = "source" -> 6
    [] pc = "target" -> 5
    [] pc = "copy" -> 4
    [] pc \in {"walk", "measure", "links"} -> 3
    [] pc \in {"make", "delete", "move", "away", "remove"} -> 2
    [] pc \in {"items", "back", "look"} -> 1
    [] pc = "none" -> 0

FileStepsLeft(c) ==
  WorkLeft(script[c].pc) +
    CASE call[c].pc = "source" -> 10
      [] call[c].pc = "target" -> 9
      [] call[c].pc = "prompt" -> 8
      [] call[c].pc = "host" -> 1
      [] OTHER -> 0

(* A step of the call or of its host command, but for one item taken away  *)
(* from below a directory: what is left there is up to the others, too.    *)
FileMoves(c) == call'[c] # call[c] \/ script'[c] # script[c]

(* The list of a tree that is copied becomes shorter.                      *)
ItemsShrink(c) ==
  /\ call'[c] = call[c] /\ script[c].pc = "items" /\ script'[c].pc = "items"
  /\ script'[c].todo \subseteq script[c].todo /\ script'[c].todo # script[c].todo

(* One call of a file tool and its host command make at most ten steps of  *)
(* their own (the scans, the prompt, the answer, one pass through the      *)
(* script), and the copy of a tree takes each item of its list once.       *)
TenSteps ==
  /\ [](\A c \in FileCalls : FileStepsLeft(c) \in 0 .. 10)
  /\ [][\A c \in FileCalls : call[c].pc # "idle" /\ FileMoves(c) =>
          FileStepsLeft(c)' < FileStepsLeft(c) \/ ItemsShrink(c)]_filesVars

LEMMA WorkLeftBound ==
  /\ \A pc \in Stages \cup {"none"} : WorkLeft(pc) \in 0 .. 6
  /\ \A pc \in Stages : WorkLeft(pc) \in 1 .. 6
  /\ WorkLeft("none") = 0
  BY DEF WorkLeft, Stages

LEMMA FileStepsBound ==
  ASSUME FilesInv, NEW c \in FileCalls
  PROVE  FileStepsLeft(c) \in 0 .. 10
<1>1. /\ call[c].pc \in {"idle", "source", "target", "prompt", "host", "over"}
      /\ call[c].pc \in {"source", "target", "prompt"} => script[c].pc = "none"
      /\ script[c].pc \in Stages \cup {"none"}
  BY Shaped DEF FilesInv, FileCallInv, FileCallRecords, ScriptRecords, Asked, NoScript
<1>2. WorkLeft(script[c].pc) \in 0 .. 6 /\ WorkLeft("none") = 0
  BY <1>1, WorkLeftBound
<1> DEFINE n == WorkLeft(script[c].pc)
<1>3. n \in 0 .. 6 /\ (call[c].pc \in {"source", "target", "prompt"} => n = 0)
  BY <1>1, <1>2
<1>4. FileStepsLeft(c) = n +
        CASE call[c].pc = "source" -> 10 [] call[c].pc = "target" -> 9 [] call[c].pc = "prompt" -> 8
          [] call[c].pc = "host" -> 1 [] OTHER -> 0
  BY DEF FileStepsLeft
<1> HIDE DEF n
<1>5. QED BY <1>1, <1>3, <1>4

(* One statement of a command that goes on.                                *)
LEMMA CommandForward ==
  ASSUME FilesInv, NEW c \in FileCalls, HostWorks(c), script'[c].pc # "none",
         script'[c] # script[c]
  PROVE  WorkLeft(script'[c].pc) < WorkLeft(script[c].pc) \/ ItemsShrink(c)
<1> DEFINE Next(pc, to) == script[c].pc = pc /\ script'[c].pc = to
<1>1. script[c].pc # "none"
  BY HostRuns
<1>2. /\ script \in [FileCalls -> ScriptRecords] /\ call[c] \in FileCallRecords
      /\ call[c].mode \in Modes /\ script[c].pc \in WorkStages(call[c].mode)
  BY <1>1, ScriptRuns, Shaped DEF Planned
<1>3. ~Throws(c) /\ \A reply \in FileReplies \ {"none"} : ~Ends(c, reply)
  BY <1>1, ThrowsFrame, EndsFrame
<1>4. CASE CheckSource(c)
  <2>1. Next("source", "target")
    BY <1>2, <1>3, <1>4 DEF CheckSource, ScriptRecords
  <2>2. QED BY <2>1 DEF WorkLeft
<1>5. CASE CheckTarget(c)
  <2>1. Next("target", NextStep(c))
    BY <1>2, <1>3, <1>5 DEF CheckTarget, ScriptRecords
  <2>2. NextStep(c) \in {"walk", "copy", "move", "away", "make"}
    BY <1>2, <2>1, WorksOf DEF NextStep
  <2>3. QED BY <2>1, <2>2 DEF WorkLeft
<1>6. CASE Walk(c)
  <2>1. Next("walk", "make")
    BY <1>2, <1>3, <1>6 DEF Walk, ScriptRecords
  <2>2. QED BY <2>1 DEF WorkLeft
<1>7. CASE \E p \in Paths : CopyItem(c, p)
  <2>1. PICK p \in Paths : CopyItem(c, p)
    BY <1>7
  <2>2. /\ script'[c] = [script[c] EXCEPT !.todo = script[c].todo \ {p}]
        /\ p \in script[c].todo /\ script[c].pc = "items" /\ call' = call
    BY <1>2, <2>1 DEF CopyItem, ScriptRecords
  <2>3. script'[c].pc = "items" /\ script'[c].todo = script[c].todo \ {p}
    BY <1>2, <2>2 DEF ScriptRecords
  <2>4. QED BY <2>2, <2>3 DEF ItemsShrink
<1>8. CASE CopyFile(c) \/ MeasureCopy(c)
  <2>1. Next("copy", "measure") \/ Next("measure", "delete")
    BY <1>2, <1>3, <1>8, StepIs DEF CopyFile, MeasureCopy, FileReplies, Stages
  <2>2. QED BY <2>1 DEF WorkLeft
<1>9. CASE MakeTarget(c) \/ CreateLevels(c) \/ MoveItem(c) \/ MoveAway(c) \/ DeleteSource(c)
           \/ RemoveFile(c) \/ CheckLinks(c) \/ RemoveItem(c)
  <2>1. \/ Next("make", "items") \/ Next("make", "look") \/ Next("move", "look")
        \/ Next("away", "back") \/ Next("delete", "look") \/ Next("remove", "look")
        \/ Next("links", "remove")
    BY <1>2, <1>3, <1>9, StepIs DEF MakeTarget, CreateLevels, MoveItem, MoveAway, DeleteSource,
       RemoveFile, CheckLinks, RemoveItem, AtHost, Stages
  <2>2. QED BY <2>1 DEF WorkLeft
<1>10. ~(CopiedAll(c) \/ MoveBack(c) \/ LookAgain(c))
  BY <1>3 DEF CopiedAll, MoveBack, LookAgain, FileReplies
<1>11. QED BY <1>4, <1>5, <1>6, <1>7, <1>8, <1>9, <1>10 DEF HostWorks

LEMMA HostForward ==
  ASSUME FilesInv, NEW c \in FileCalls, HostWorks(c) \/ HostThrows(c), FileMoves(c)
  PROVE  FileStepsLeft(c)' < FileStepsLeft(c) \/ ItemsShrink(c)
<1>1. /\ script[c].pc \in Stages /\ call[c].pc \in {"host", "over"} /\ call \in [FileCalls -> FileCallRecords]
      /\ script'[c].pc \in Stages \cup {"none"}
  <2>1. FileScriptStep(c)
    BY HostWorksStep
  <2>2. QED BY <2>1, HostRuns, ScriptRuns, Shaped DEF FileScriptStep, HostFrame, ScriptRecords
<1>2. \/ call'[c] = call[c] /\ (AtCall(c, "host") => script'[c].pc # "none")
      \/ call'[c].pc = "over" /\ script'[c].pc = "none"
  BY HostWorksStep, HostFrozen
<1>3. /\ WorkLeft(script[c].pc) \in 1 .. 6 /\ WorkLeft(script'[c].pc) \in 0 .. 6
      /\ script'[c].pc = "none" => WorkLeft(script'[c].pc) = 0
  BY <1>1, WorkLeftBound
<1>4. CASE script'[c].pc = "none"
  BY <1>1, <1>2, <1>3, <1>4 DEF FileStepsLeft
<1>5. CASE script'[c].pc # "none"
  <2>1. call'[c] = call[c]
    BY <1>2, <1>5
  <2>2. HostWorks(c)
    BY <1>1, <1>5, ThrowsFrame, HostRuns DEF HostThrows
  <2>3. WorkLeft(script'[c].pc) < WorkLeft(script[c].pc) \/ ItemsShrink(c)
    BY <1>5, <2>1, <2>2, CommandForward DEF FileMoves
  <2>4. QED BY <1>1, <1>3, <2>1, <2>3 DEF FileStepsLeft
<1>6. QED BY <1>4, <1>5

LEMMA CallForward ==
  ASSUME FilesInv, NEW c \in FileCalls, ServerStep(c) \/ FileAnswerLost(c)
  PROVE  FileStepsLeft(c)' < FileStepsLeft(c)
<1>1. /\ call \in [FileCalls -> FileCallRecords] /\ script \in [FileCalls -> ScriptRecords] /\ FileCallInv(c)
      /\ script[c].pc \in Stages \cup {"none"}
  BY Shaped DEF FilesInv, ScriptRecords
<1>2. call[c].pc \in {"source", "target", "prompt"} => script[c].pc = "none"
  BY <1>1 DEF FileCallInv, Asked, NoScript
<1>3. WorkLeft(script[c].pc) \in 0 .. 6 /\ WorkLeft("none") = 0
  BY <1>1, WorkLeftBound
<1>4. ASSUME NEW reply, FilesOver(c, reply) PROVE call'[c].pc = "over"
  <2> DEFINE q == [call[c] EXCEPT !.pc = "over", !.reply = reply,
                     !.answer = IF call[c].answer = "open" THEN "refused" ELSE call[c].answer]
  <2>1. q.pc = "over"
    BY <1>1 DEF FileCallRecords
  <2>2. call' = [call EXCEPT ![c] = q]
    BY <1>4, FilesOverIs
  <2> HIDE DEF q
  <2>3. QED BY <1>1, <2>1, <2>2
<1>5. CASE ScanSource(c) \/ ScanTarget(c)
  <2>1. OnlyCallsMove /\ Scanned(c) /\ call[c].pc \in {"source", "target"}
    BY <1>5, ScanSourceStep, ScanTargetStep DEF ScanSource, ScanTarget, AtCall
  <2>2. \/ call'[c].pc \in {"over", "prompt"}
        \/ call[c].pc = "source" /\ call'[c].pc = "target"
    <3>1. CASE FilesOver(c, "refused")
      BY <1>4, <3>1
    <3>2. CASE \E kind \in Kinds \ {Nothing} : GoOn(c, kind, TRUE) /\ call[c].pc = "source"
      BY <1>1, <3>2 DEF GoOn, FileCallRecords
    <3>3. CASE \E kind \in Kinds, mode \in Modes, from \in Paths, to \in Paths :
                 Prompt(c, kind, mode, from, to)
      BY <1>1, <3>3 DEF Prompt, FileCallRecords
    <3>4. QED BY <2>1, <3>1, <3>2, <3>3 DEF Scanned
  <2>3. script' = script
    BY <2>1 DEF OnlyCallsMove
  <2>4. QED BY <1>2, <1>3, <2>1, <2>2, <2>3 DEF FileStepsLeft
<1>6. CASE FileRefuse(c)
  <2>1. call[c].pc \in Asked /\ call'[c].pc = "over" /\ script' = script
    BY <1>4, <1>6 DEF FileRefuse
  <2>2. QED BY <1>2, <1>3, <2>1 DEF FileStepsLeft, Asked
<1>7. CASE FileConfirm(c)
  <2>1. call[c].pc = "prompt" /\ call[c].mode \in Modes
    BY <1>1, <1>7 DEF FileConfirm, AtCall, FileCallInv, Planned
  <2>2. \/ call'[c].pc = "over" /\ script' = script
        \/ call'[c].pc = "host" /\ script'[c].pc \in {"remove", "links", "target", "source"}
    <3>1. CASE StartScript(c)
      <4>1. FirstStep(call[c].mode) \in {"remove", "links", "target", "source"}
        BY <2>1 DEF FirstStep, Modes
      <4>2. QED BY <1>1, <3>1, <4>1 DEF StartScript, Fresh, NoScript, FileCallRecords
    <3>2. CASE ~StartScript(c)
      BY <1>4, <1>7, <3>2 DEF FileConfirm
    <3>3. QED BY <3>1, <3>2
  <2>3. WorkLeft(script'[c].pc) \in 0 .. 6
    BY <1>1, <2>2, WorkLeftBound DEF Stages
  <2>4. FileStepsLeft(c) = 8
    BY <1>2, <1>3, <2>1 DEF FileStepsLeft
  <2>5. FileStepsLeft(c)' \in 0 .. 7
    BY <1>2, <1>3, <2>1, <2>2, <2>3 DEF FileStepsLeft
  <2>6. QED BY <2>4, <2>5
<1>8. CASE FileAnswerLost(c)
  <2>1. call[c].pc = "host" /\ call'[c].pc = "over" /\ script' = script
    BY <1>4, <1>8 DEF FileAnswerLost, AtCall
  <2>2. QED BY <1>3, <2>1 DEF FileStepsLeft
<1>9. QED BY <1>5, <1>6, <1>7, <1>8 DEF ServerStep

(* A step of one call leaves the others where they are.                    *)
LEMMA OthersStay ==
  ASSUME FilesInv, NEW c \in FileCalls, NEW d \in FileCalls, c # d,
         FileAsk(c) \/ ServerStep(c) \/ FileAnswerLost(c) \/ HostWorks(c) \/ HostThrows(c)
  PROVE  ~FileMoves(d)
<1>1. call \in [FileCalls -> FileCallRecords] /\ script \in [FileCalls -> ScriptRecords]
  BY Shaped
<1>2. CASE HostWorks(c) \/ HostThrows(c)
  BY <1>2, HostWorksStep, HostFrozen DEF FileMoves
<1>3. CASE FileAsk(c)
  BY <1>1, <1>3 DEF FileAsk, FileMoves
<1>4. CASE ScanSource(c) \/ ScanTarget(c)
  <2>1. OnlyCallsMove /\ Scanned(c)
    BY <1>4, ScanSourceStep, ScanTargetStep
  <2>2. QED BY <1>1, <2>1, ScannedOther DEF OnlyCallsMove, FileMoves
<1>5. CASE FileRefuse(c) \/ FileConfirm(c) \/ FileAnswerLost(c)
  BY <1>1, <1>5 DEF FileRefuse, FileConfirm, FileAnswerLost, FilesOver, StartScript, FileMoves
<1>6. QED BY <1>2, <1>3, <1>4, <1>5 DEF ServerStep

LEMMA FileForward ==
  ASSUME FilesInv, [FilesNext]_filesVars, NEW c \in FileCalls, call[c].pc # "idle", FileMoves(c)
  PROVE  FileStepsLeft(c)' < FileStepsLeft(c) \/ ItemsShrink(c)
<1>1. PICK d \in FileCalls :
        FileAsk(d) \/ ServerStep(d) \/ FileAnswerLost(d) \/ HostWorks(d) \/ HostThrows(d)
  BY DEF FilesNext, Meddle, FileMoves, filesVars
<1>2. d = c
  BY <1>1, OthersStay
<1>3. ~FileAsk(d)
  BY <1>2 DEF FileAsk, AtCall
<1>4. QED BY <1>1, <1>2, <1>3, HostForward, CallForward

(* The scans, the prompt and the scripts of the file tools (server.rs,     *)
(* ps.rs): nothing is scanned twice, asked twice or tried again, whatever  *)
(* others do to the files in between.                                      *)
THEOREM FilesGoForward == FilesSpec => TenSteps
<1>1. FilesInv => \A c \in FileCalls : FileStepsLeft(c) \in 0 .. 10
  BY FileStepsBound
<1>2. FilesInv /\ [FilesNext]_filesVars =>
        [\A c \in FileCalls : call[c].pc # "idle" /\ FileMoves(c) =>
           FileStepsLeft(c)' < FileStepsLeft(c) \/ ItemsShrink(c)]_filesVars
  BY FileForward
<1>3. QED BY <1>1, <1>2, FilesInvariant, PTL DEF FilesSpec, TenSteps

=============================================================================
