-------------------------- MODULE FileStoreProofs --------------------------
(***************************************************************************)
(* Proofs about FileStore, for any tree of paths, any number of requests   *)
(* at a time, of uploads and of mishaps, and either format stored.         *)
(***************************************************************************)
EXTENDS FileStore, SequenceTheorems, FiniteSetTheorems, TLAPS

Formats == {"single", "stream"}
Pcs == {"idle", "dirs", "climb", "create", "write", "stat", "remove", "source",
        "dest", "rename", "open", "reopen", "read", "answer"}

Names == Seq(STRING)
Tasks == {"keep", "unlink", "open", "rmdir"}
Makers == {"upload", "mkdir", "rename"}

Requests ==
    [op : Changes \cup {"download", None}, pc : Pcs, p : Paths \cup {<<>>},
     new : Paths \cup {<<>>}, u : 0..MaxUploads, level : Nat, todo : [Paths -> Tasks],
     file : 0..MaxUploads, format : Formats \cup {None}, got : Seq(Int)]

(***************************************************************************)
(* What a request carries at each of its points.                           *)
(***************************************************************************)
WellFormed(q) ==
    /\ q \in Requests
    /\ q.op = None <=> q.pc = "idle"
    /\ q.pc \in {"dirs", "climb"} => q.op \in Makers
    /\ q.pc \in {"create", "write"} => q.op = "upload"
    /\ q.pc \in {"stat", "remove"} => q.op = "delete"
    /\ q.pc \in {"source", "dest", "rename"} => q.op = "rename"
    /\ q.pc \in {"open", "reopen", "read", "answer"} => q.op = "download"
    /\ q.op # None => q.p \in Paths
    /\ q.op = "rename" => q.new \in Paths
    /\ q.op = "upload" => q.u \in Uploads
    /\ q.pc \in {"write", "read"} => q.file \in Uploads
    /\ q.pc = "reopen" => q.format \in Formats
    /\ Len(q.got) <= 3
    /\ q.pc = "write" => Len(q.got) < 3
    /\ q.pc \notin {"write", "read"} => q.got = <<>>

DiskOK ==
    /\ node \in [Paths -> 0..Directory]
    /\ cells \in [Uploads -> Seq(Int)]
    /\ kind \in [Uploads -> Formats \cup {None}]
    /\ \A u \in Uploads : Len(cells[u]) <= 3

RequestsOK ==
    /\ req \in [Reqs -> Requests]
    /\ \A r \in Reqs : /\ WellFormed(req[r])
                       /\ req[r].op = "upload" => kind[req[r].u] \in Formats

ScanOK ==
    /\ scan \in [pc : {"walk", "hash", "decrypt"}, todo : SUBSET Paths,
                p : Paths \cup {<<>>}, format : Formats \cup {None}]
    /\ scan.pc # "walk" => scan.p \in Paths
    /\ events \subseteq Paths

TypeInv == DiskOK /\ RequestsOK /\ ScanOK

LEMMA Numbers ==
    /\ MaxUploads \in Nat /\ MaxUploads > 0
    /\ Uploads = 1..MaxUploads /\ Directory = MaxUploads + 1
    /\ Directory \in Nat /\ Directory \notin Uploads /\ 0 \notin Uploads
    /\ Uploads \subseteq 0..Directory /\ Uploads \subseteq 0..MaxUploads
    /\ 1 \in Uploads /\ Uploads \subseteq Int
BY BoundAssumption DEF Uploads, Directory

LEMMA RequestType ==
    ASSUME NEW op \in Changes \cup {"download", None}, NEW pc \in Pcs,
           NEW p \in Paths \cup {<<>>}, NEW new \in Paths \cup {<<>>},
           NEW u \in 0..MaxUploads
    PROVE  Request(op, pc, p, new, u) \in Requests
<1>1. <<>> \in Seq(Int)
  OBVIOUS
<1>2. [q \in Paths |-> "keep"] \in [Paths -> Tasks] /\ 0 \in 0..MaxUploads /\ 0 \in Nat
  BY BoundAssumption DEF Tasks
<1> QED
  BY <1>1, <1>2 DEF Request, Requests

LEMMA IdleOK == WellFormed(Idle)
<1>1. <<>> \in Seq(Int) /\ Len(<<>>) = 0
  OBVIOUS
<1>2. Idle \in Requests
  <2>1. /\ None \in Changes \cup {"download", None} /\ "idle" \in Pcs
        /\ <<>> \in Paths \cup {<<>>}
    BY Zenon DEF Pcs
  <2>2. 0 \in 0..MaxUploads
    BY BoundAssumption
  <2> QED
    BY <2>1, <2>2, RequestType, Zenon DEF Idle
<1> QED
  BY <1>1, <1>2, NoneAssumption DEF Idle, Request, WellFormed, Changes

LEMMA ReplaceOK ==
    ASSUME RequestsOK, NEW r \in Reqs, NEW q, WellFormed(q),
           \A u \in Uploads : kind[u] \in Formats => kind'[u] = kind[u],
           q.op = "upload" => kind'[q.u] \in Formats,
           req' = [req EXCEPT ![r] = q]
    PROVE  RequestsOK'
<1>1. q \in Requests
  BY DEF WellFormed
<1>2. req' \in [Reqs -> Requests]
  BY <1>1 DEF RequestsOK
<1>3. ASSUME NEW x \in Reqs
      PROVE  WellFormed(req'[x]) /\ (req'[x].op = "upload" => kind'[req'[x].u] \in Formats)
  <2>1. CASE x = r
    <3>1. req'[x] = q
      BY <2>1 DEF RequestsOK
    <3> QED
      BY <3>1
  <2>2. CASE x # r
    <3>1. req'[x] = req[x]
      BY <2>2 DEF RequestsOK
    <3>2. req[x].op = "upload" => req[x].u \in Uploads
      BY DEF RequestsOK, WellFormed
    <3> QED
      BY <3>1, <3>2 DEF RequestsOK
  <2> QED
    BY <2>1, <2>2
<1> QED
  BY <1>2, <1>3 DEF RequestsOK

LEMMA FinishOK ==
    ASSUME RequestsOK, NEW r \in Reqs, Finish(r), kind' = kind
    PROVE  RequestsOK'
<1>1. Idle.op # "upload"
  BY NoneAssumption DEF Idle, Request
<1> QED
  BY <1>1, IdleOK, ReplaceOK DEF Finish

\* From one point to the next, with everything else kept.
LEMMA GotoOK ==
    ASSUME RequestsOK, NEW r \in Reqs, NEW pc, Goto(r, pc), kind' = kind,
           \/ req[r].pc \in {"dirs", "climb"} /\ req[r].op = "upload" /\ pc = "create"
           \/ req[r].pc \in {"dirs", "climb"} /\ req[r].op = "rename" /\ pc = "rename"
           \/ req[r].pc = "source" /\ pc = "dest"
    PROVE  RequestsOK'
<1> DEFINE q == [req[r] EXCEPT !.pc = pc]
<1>1. WellFormed(req[r]) /\ req[r] \in Requests
  BY DEF RequestsOK, WellFormed
<1>2. pc \in Pcs
  BY DEF Pcs
<1>3. /\ q \in Requests /\ q.pc = pc /\ q.op = req[r].op /\ q.p = req[r].p
      /\ q.new = req[r].new /\ q.u = req[r].u /\ q.todo = req[r].todo
      /\ q.file = req[r].file /\ q.format = req[r].format /\ q.got = req[r].got
  BY <1>1, <1>2 DEF Requests
<1>4. WellFormed(q)
  <2> HIDE DEF q
  <2> QED
    BY <1>1, <1>3, NoneAssumption DEF WellFormed
<1>5. q.op = "upload" => kind[q.u] \in Formats
  <2> HIDE DEF q
  <2> QED
    BY <1>3 DEF RequestsOK
<1> QED
  BY <1>4, <1>5, ReplaceOK DEF Goto

Kept == DiskOK' /\ RequestsOK' /\ ScanOK'

\* A request moves on with one more field changed.
LEMMA FieldsOK ==
    ASSUME RequestsOK, NEW r \in Reqs, NEW q, q \in Requests, kind' = kind,
           q.op = req[r].op, q.p = req[r].p, q.new = req[r].new, q.u = req[r].u,
           \/ q.pc \in {"dirs", "climb"} /\ req[r].op \in Makers /\ q.got = <<>>
           \/ q.pc = "write" /\ req[r].op = "upload" /\ q.file \in Uploads /\ Len(q.got) < 3
           \/ q.pc = "remove" /\ req[r].op = "delete" /\ q.got = <<>>
           \/ q.pc = "reopen" /\ req[r].op = "download" /\ q.format \in Formats
                /\ q.got = <<>>
           \/ q.pc = "read" /\ req[r].op = "download" /\ q.file \in Uploads
                /\ Len(q.got) <= 3,
           req' = [req EXCEPT ![r] = q]
    PROVE  RequestsOK'
<1>1. WellFormed(req[r]) /\ req[r].op \in Changes \cup {"download"}
  BY DEF RequestsOK, Changes, Makers
<1>2. WellFormed(q)
  <2>1. q.got \in Seq(Int) /\ Len(q.got) \in Nat /\ Len(<<>>) = 0
    BY DEF Requests
  <2> QED
    BY <1>1, <2>1, NoneAssumption DEF WellFormed, Makers
<1>3. q.op = "upload" => kind[q.u] \in Formats
  BY DEF RequestsOK
<1> QED
  BY <1>2, <1>3, ReplaceOK

LEMMA WantedType ==
    ASSUME NEW q \in Requests, WellFormed(q), q.op \in Makers
    PROVE  Wanted(q) \in Names /\ Len(Wanted(q)) \in Nat
<1>1. \A p \in Paths : p \in Names /\ Parent(p) \in Names
  <2>1. ASSUME NEW p \in Paths
        PROVE  p \in Names /\ Parent(p) \in Names
    <3>1. p \in Seq(STRING) /\ p # <<>>
      BY PathAssumption
    <3>2. 1 \in 1..Len(p) + 1 /\ Len(p) - 1 \in 1 - 1..Len(p)
      BY <3>1
    <3> QED
      BY <3>1, <3>2, SubSeqProperties DEF Parent, Names
  <2> QED
    BY <2>1
<1>2. q.op \in {"upload", "mkdir", "rename"} /\ q.p \in Paths
      /\ (q.op = "rename" => q.new \in Paths)
  BY NoneAssumption DEF Makers, WellFormed
<1>3. CASE q.op = "mkdir"
  BY <1>1, <1>2, <1>3 DEF Wanted, Names
<1>4. CASE q.op = "upload"
  BY <1>1, <1>2, <1>4 DEF Wanted, Names
<1>5. CASE q.op = "rename"
  BY <1>1, <1>2, <1>5 DEF Wanted, Names
<1> QED
  BY <1>2, <1>3, <1>4, <1>5

\* The first step of create_dir_all.
LEMMA WantDirsOK ==
    ASSUME NEW q, WellFormed(q), q.op \in Makers
    PROVE  /\ WantDirs(q) \in Requests /\ WantDirs(q).pc = "dirs"
           /\ WantDirs(q).level = Len(Wanted(q)) /\ WantDirs(q).op = q.op
           /\ WantDirs(q).p = q.p /\ WantDirs(q).new = q.new /\ WantDirs(q).u = q.u
           /\ WantDirs(q).got = q.got /\ WantDirs(q).todo = q.todo
<1>1. q \in Requests
  BY DEF WellFormed
<1>2. Len(Wanted(q)) \in Nat /\ "dirs" \in Pcs
  BY <1>1, WantedType DEF Pcs
<1> DEFINE n == Len(Wanted(q))
<1>3. WantDirs(q) = [q EXCEPT !.pc = "dirs", !.level = n]
  BY DEF WantDirs
<1> HIDE DEF n
<1>4. n \in Nat
  BY <1>2 DEF n
<1>5. /\ WantDirs(q) \in Requests /\ WantDirs(q).pc = "dirs"
      /\ WantDirs(q).level = n /\ WantDirs(q).op = q.op
      /\ WantDirs(q).p = q.p /\ WantDirs(q).new = q.new /\ WantDirs(q).u = q.u
      /\ WantDirs(q).got = q.got /\ WantDirs(q).todo = q.todo
  BY <1>1, <1>2, <1>3, <1>4 DEF Requests
<1> QED
  BY <1>5 DEF n

LEMMA MakeDirectoryOK ==
    ASSUME TypeInv, NEW r \in Reqs, MakeDirectory(r)
    PROVE  Kept
<1> DEFINE wanted == Wanted(req[r])
           level == req[r].level
           d == SubSeq(wanted, 1, level)
<1>1. WellFormed(req[r]) /\ req[r] \in Requests
  BY DEF TypeInv, RequestsOK, WellFormed
<1>2. /\ ScanOK' /\ cells' = cells /\ kind' = kind
      /\ req[r].pc \in {"dirs", "climb"} /\ req[r].op \in Makers
      /\ req[r].got = <<>> /\ level \in Nat
  BY <1>1 DEF TypeInv, ScanOK, MakeDirectory, OnlyNode, At, WellFormed, Requests
<1>3. node' \in [Paths -> 0..Directory]
  <2>1. node' = node \/ node' = [node EXCEPT ![d] = Directory]
    BY DEF MakeDirectory
  <2>2. Directory \in 0..Directory /\ node \in [Paths -> 0..Directory]
    BY Numbers DEF TypeInv, DiskOK
  <2> HIDE DEF d
  <2> QED
    BY <2>1, <2>2
<1>4. ASSUME NEW pc \in {"dirs", "climb"}, NEW n \in Nat,
             req' = [req EXCEPT ![r].pc = pc, ![r].level = n]
      PROVE  RequestsOK'
  <2> DEFINE q == [req[r] EXCEPT !.pc = pc, !.level = n]
  <2>1. req' = [req EXCEPT ![r] = q]
    BY <1>4 DEF TypeInv, RequestsOK
  <2>2. pc \in Pcs
    BY <1>4 DEF Pcs
  <2>3. /\ q \in Requests /\ q.pc = pc /\ q.op = req[r].op /\ q.p = req[r].p
        /\ q.new = req[r].new /\ q.u = req[r].u /\ q.got = req[r].got
    BY <1>1, <2>2, <1>4 DEF Requests
  <2> HIDE DEF q
  <2> QED
    BY <1>2, <1>4, <2>1, <2>3, FieldsOK DEF TypeInv
<1>5. \/ req' = [req EXCEPT ![r].pc = "climb", ![r].level = level + 1]
      \/ req[r].op = "mkdir" /\ Finish(r)
      \/ req[r].op # "mkdir" /\ Goto(r, After(req[r]))
      \/ At(r, "dirs") /\ level # 0 /\ req' = [req EXCEPT ![r].level = level - 1]
      \/ Finish(r)
  BY DEF MakeDirectory
<1>6. CASE Finish(r)
  BY <1>2, <1>3, <1>6, FinishOK DEF Kept, TypeInv, DiskOK
<1>7. CASE req' = [req EXCEPT ![r].pc = "climb", ![r].level = level + 1]
  <2>1. level + 1 \in Nat /\ "climb" \in {"dirs", "climb"}
    BY <1>2
  <2> HIDE DEF level
  <2>2. RequestsOK'
    BY <1>4, <1>7, <2>1
  <2> QED
    BY <1>2, <1>3, <2>2 DEF Kept, TypeInv, DiskOK
<1>8. CASE At(r, "dirs") /\ level # 0 /\ req' = [req EXCEPT ![r].level = level - 1]
  <2>1. level - 1 \in Nat /\ "dirs" \in {"dirs", "climb"}
    BY <1>2, <1>8
  <2>2. [req[r] EXCEPT !.level = level - 1] = [req[r] EXCEPT !.pc = "dirs", !.level = level - 1]
    <3> HIDE DEF level
    <3> QED
      BY <1>1, <1>8, <2>1 DEF At, Requests
  <2>3. req' = [req EXCEPT ![r].pc = "dirs", ![r].level = level - 1]
    <3>1. req' = [req EXCEPT ![r] = [req[r] EXCEPT !.level = level - 1]]
      BY <1>8 DEF TypeInv, RequestsOK
    <3>2. req' = [req EXCEPT ![r] = [req[r] EXCEPT !.pc = "dirs", !.level = level - 1]]
      BY <2>2, <3>1
    <3> HIDE DEF level
    <3> QED
      BY <3>2 DEF TypeInv, RequestsOK
  <2> HIDE DEF level
  <2>4. RequestsOK'
    BY <1>4, <2>1, <2>3
  <2> QED
    BY <1>2, <1>3, <2>4 DEF Kept, TypeInv, DiskOK
<1>9. CASE req[r].op # "mkdir" /\ Goto(r, After(req[r]))
  <2>1. \/ req[r].op = "upload" /\ After(req[r]) = "create"
        \/ req[r].op = "rename" /\ After(req[r]) = "rename"
    BY <1>2, <1>9 DEF After, Makers
  <2>2. RequestsOK'
    BY <1>2, <1>9, <2>1, GotoOK DEF TypeInv
  <2> QED
    BY <1>2, <1>3, <2>2 DEF Kept, TypeInv, DiskOK
<1> QED
  BY <1>5, <1>6, <1>7, <1>8, <1>9

LEMMA WrittenType ==
    ASSUME NEW content \in Seq(Int), Len(content) <= 3, NEW k \in 1..3, NEW u \in Int
    PROVE  Written(content, k, u) \in Seq(Int) /\ Len(Written(content, k, u)) <= 3
<1> DEFINE n == IF k > Len(content) THEN k ELSE Len(content)
           f == [j \in 1..n |-> IF j = k THEN u
                                ELSE IF j <= Len(content) THEN content[j] ELSE Hole]
<1>1. n \in Nat /\ n <= 3
  OBVIOUS
<1>2. \A j \in 1..n : f[j] \in Int
  BY DEF Hole
<1>3. f \in [1..n -> Int]
  BY <1>2
<1>4. f \in Seq(Int) /\ Len(f) = n
  <2> HIDE DEF f, n
  <2> QED
    BY <1>1, <1>3
<1> QED
  BY <1>1, <1>4 DEF Written

LEMMA CreateFileOK ==
    ASSUME TypeInv, NEW r \in Reqs, CreateFile(r)
    PROVE  Kept
<1>1. WellFormed(req[r]) /\ req[r] \in Requests
  BY DEF TypeInv, RequestsOK, WellFormed
<1>2. ScanOK' /\ kind' = kind /\ req[r].op = "upload" /\ req[r].p \in Paths
      /\ req[r].u \in Uploads /\ req[r].pc = "create"
  BY <1>1, NoneAssumption DEF TypeInv, ScanOK, CreateFile, At, WellFormed
<1>3. CASE Finish(r) /\ UNCHANGED <<node, cells>>
  BY <1>2, <1>3, FinishOK DEF TypeInv, Kept, DiskOK
<1>4. CASE ~(Finish(r) /\ UNCHANGED <<node, cells>>)
  <2> DEFINE i == IF IsFile(req[r].p) THEN node[req[r].p] ELSE req[r].u
  <2>1. /\ node' = [node EXCEPT ![req[r].p] = i]
        /\ cells' = [cells EXCEPT ![i] = <<>>]
        /\ req' = [req EXCEPT ![r].file = i, ![r].pc = "write"]
    BY <1>4 DEF CreateFile
  <2>2. i \in Uploads
    BY <1>2 DEF IsFile
  <2> HIDE DEF i
  <2>3. <<>> \in Seq(Int) /\ Len(<<>>) <= 3
    OBVIOUS
  <2>4. node' \in [Paths -> 0..Directory]
    BY <2>1, <2>2, Numbers DEF TypeInv, DiskOK
  <2>5. cells' \in [Uploads -> Seq(Int)] /\ \A u \in Uploads : Len(cells'[u]) <= 3
    BY <2>1, <2>2, <2>3 DEF TypeInv, DiskOK
  <2> DEFINE q == [req[r] EXCEPT !.file = i, !.pc = "write"]
  <2>6. req' = [req EXCEPT ![r] = q]
    BY <2>1 DEF TypeInv, RequestsOK
  <2>7. /\ q \in Requests /\ q.pc = "write" /\ q.file = i /\ q.op = req[r].op
        /\ q.p = req[r].p /\ q.new = req[r].new /\ q.u = req[r].u
        /\ q.got = req[r].got
    BY <1>1, <2>2, Numbers DEF Requests, Pcs
  <2>8. Len(q.got) < 3
    BY <1>1, <1>2, <2>3, <2>7 DEF WellFormed
  <2> HIDE DEF q
  <2> QED
    BY <1>2, <2>4, <2>5, <2>6, <2>7, <2>8, <2>2, FieldsOK DEF TypeInv, Kept, DiskOK
<1> QED
  BY <1>3, <1>4

LEMMA CellCounts == \A f \in Formats : CellCount[f] \in {2, 3}
BY DEF CellCount, Formats

LEMMA WriteCellOK ==
    ASSUME TypeInv, NEW r \in Reqs, WriteCell(r)
    PROVE  Kept
<1> DEFINE u == req[r].u
           k == Len(req[r].got) + 1
           i == req[r].file
<1>1. WellFormed(req[r]) /\ req[r] \in Requests
  BY DEF TypeInv, RequestsOK, WellFormed
<1>2. /\ ScanOK' /\ kind' = kind /\ node' = node
      /\ req[r].op = "upload" /\ req[r].p \in Paths /\ req[r].pc = "write"
      /\ u \in Uploads /\ i \in Uploads
  BY <1>1, NoneAssumption DEF TypeInv, ScanOK, WriteCell, At, WellFormed
<1>3. req[r].got \in Seq(Int) /\ k \in 1..3 /\ u \in Int
  BY <1>1, <1>2, Numbers DEF Requests, WellFormed
<1>4. cells' = [cells EXCEPT ![i] = Written(cells[i], k, u)]
  BY DEF WriteCell
<1>5. /\ Written(cells[i], k, u) \in Seq(Int)
      /\ Len(Written(cells[i], k, u)) <= 3
  BY <1>2, <1>3, WrittenType DEF TypeInv, DiskOK
<1> HIDE DEF k, u, i
<1>6. cells' \in [Uploads -> Seq(Int)] /\ \A v \in Uploads : Len(cells'[v]) <= 3
  BY <1>2, <1>4, <1>5 DEF TypeInv, DiskOK
<1>7. RequestsOK'
  <2>1. CASE Finish(r)
    BY <1>2, <2>1, FinishOK DEF TypeInv
  <2>2. CASE k < CellCount[kind[u]] /\ req' = [req EXCEPT ![r].got = Append(req[r].got, u)]
    <3> DEFINE q == [req[r] EXCEPT !.got = Append(req[r].got, u)]
    <3>2. Append(req[r].got, u) \in Seq(Int) /\ Len(Append(req[r].got, u)) = k
      BY <1>3 DEF k
    <3>3. req' = [req EXCEPT ![r] = q]
      BY <2>2 DEF TypeInv, RequestsOK
    <3>4. /\ q \in Requests /\ q.pc = "write" /\ q.file = i /\ q.op = req[r].op
          /\ q.p = req[r].p /\ q.new = req[r].new /\ q.u = req[r].u
          /\ q.got = Append(req[r].got, u)
      BY <1>1, <1>2, <3>2 DEF Requests, i
    <3>5. CASE k < 3
      <4> HIDE DEF q
      <4> QED
        BY <1>2, <3>2, <3>3, <3>4, <3>5, FieldsOK DEF TypeInv
    <3>7. CASE ~(k < 3)
      <4>1. kind[u] \in Formats => CellCount[kind[u]] \in {2, 3}
        BY CellCounts
      <4>2. kind[u] \in Formats
        BY <1>2 DEF TypeInv, RequestsOK, u
      <4> QED
        BY <1>3, <2>2, <3>7, <4>1, <4>2
    <3> QED
      BY <3>5, <3>7
  <2> QED
    BY <2>1, <2>2 DEF WriteCell, k, u
<1> QED
  BY <1>2, <1>6, <1>7 DEF Kept, TypeInv, DiskOK

\* Any change of what is left to do, at any point of a deletion.
LEMMA TasksOK ==
    ASSUME TypeInv, NEW r \in Reqs, req[r].op = "delete", req[r].got = <<>>, kind' = kind,
           NEW todo \in [Paths -> Tasks],
           req' = [req EXCEPT ![r] = [req[r] EXCEPT !.pc = "remove", !.todo = todo]]
    PROVE  RequestsOK'
<1> DEFINE q == [req[r] EXCEPT !.pc = "remove", !.todo = todo]
<1>1. req[r] \in Requests
  BY DEF TypeInv, RequestsOK
<1>2. /\ q \in Requests /\ q.pc = "remove" /\ q.op = req[r].op
      /\ q.p = req[r].p /\ q.new = req[r].new /\ q.u = req[r].u
      /\ q.got = req[r].got
  BY <1>1 DEF Requests, Pcs
<1> HIDE DEF q
<1> QED
  BY <1>2, FieldsOK DEF TypeInv, q

LEMMA DoingIs ==
    ASSUME TypeInv, NEW r \in Reqs, req[r].pc = "remove", NEW q \in Paths,
           NEW what \in Tasks, Doing(r, q, what)
    PROVE  /\ [req[r].todo EXCEPT ![q] = what] \in [Paths -> Tasks]
           /\ req' = [req EXCEPT ![r] = [req[r] EXCEPT
                        !.pc = "remove", !.todo = [req[r].todo EXCEPT ![q] = what]]]
<1> DEFINE t == [req[r].todo EXCEPT ![q] = what]
<1>1. req[r] \in Requests
  BY DEF TypeInv, RequestsOK
<1>2. req[r].todo \in [Paths -> Tasks]
  BY <1>1 DEF Requests
<1>3. t \in [Paths -> Tasks]
  BY <1>2
<1>4. req' = [req EXCEPT ![r] = [req[r] EXCEPT !.todo = t]]
  BY DEF Doing, TypeInv, RequestsOK
<1> HIDE DEF t
<1>5. [req[r] EXCEPT !.todo = t] = [req[r] EXCEPT !.pc = "remove", !.todo = t]
  BY <1>1 DEF Requests
<1> QED
  BY <1>3, <1>4, <1>5 DEF t

LEMMA DeleteOK ==
    ASSUME TypeInv, NEW r \in Reqs, StatEntry(r) \/ OpenDirectory(r) \/ RemoveNext(r)
    PROVE  Kept
<1>1. WellFormed(req[r]) /\ req[r] \in Requests
  BY DEF TypeInv, RequestsOK, WellFormed
<1>2. /\ ScanOK' /\ kind' = kind /\ cells' = cells
      /\ req[r].op = "delete" /\ req[r].p \in Paths /\ req[r].got = <<>>
      /\ req[r].todo \in [Paths -> Tasks]
  BY <1>1, NoneAssumption
     DEF TypeInv, ScanOK, StatEntry, OpenDirectory, RemoveNext, At, WellFormed, OnlyReq,
         OnlyNode, disk, Requests
<1>3. CASE StatEntry(r) /\ ~Finish(r)
  <2> DEFINE how == IF IsDir(req[r].p) THEN "open" ELSE "unlink"
             todo == [req[r].todo EXCEPT ![req[r].p] = how]
  <2>1. req' = [req EXCEPT ![r].pc = "remove", ![r].todo[req[r].p] = how]
    BY <1>3 DEF StatEntry
  <2>2. how \in Tasks
    BY DEF Tasks
  <2> HIDE DEF how
  <2>3. req' = [req EXCEPT ![r] = [req[r] EXCEPT !.pc = "remove", !.todo = todo]]
    BY <1>1, <2>1 DEF TypeInv, RequestsOK, Requests
  <2>4. todo \in [Paths -> Tasks]
    BY <1>2, <2>2
  <2> HIDE DEF todo
  <2>5. RequestsOK'
    BY <1>2, <2>3, <2>4, TasksOK
  <2> QED
    BY <1>2, <1>3, <2>5 DEF StatEntry, OnlyReq, disk, Kept, TypeInv, DiskOK
<1>4. CASE OpenDirectory(r) /\ ~Finish(r)
  <2>1. PICK q \in Paths :
          IF IsDir(q)
          THEN req' = [req EXCEPT ![r].todo = [x \in Paths |->
                  IF x = q THEN "rmdir"
                  ELSE IF Found(q, x) THEN IF IsDir(x) THEN "open" ELSE "unlink"
                  ELSE req[r].todo[x]]]
          ELSE Doing(r, q, IF IsFile(q) THEN "unlink" ELSE "keep")
    BY <1>4 DEF OpenDirectory
  <2>2. req[r].pc = "remove"
    BY <1>4 DEF OpenDirectory, At
  <2>3. CASE IsDir(q)
    <3> DEFINE todo == [x \in Paths |->
                  IF x = q THEN "rmdir"
                  ELSE IF Found(q, x) THEN IF IsDir(x) THEN "open" ELSE "unlink"
                  ELSE req[r].todo[x]]
    <3>1. todo \in [Paths -> Tasks]
      BY <1>2 DEF Tasks
    <3>2. req' = [req EXCEPT ![r].todo = todo]
      BY <2>1, <2>3
    <3> HIDE DEF todo
    <3>3. [req[r] EXCEPT !.todo = todo] = [req[r] EXCEPT !.pc = "remove", !.todo = todo]
      BY <1>1, <2>2 DEF Requests
    <3>4. req' = [req EXCEPT ![r] = [req[r] EXCEPT !.todo = todo]]
      BY <3>2 DEF TypeInv, RequestsOK
    <3>5. RequestsOK'
      BY <1>2, <3>1, <3>3, <3>4, TasksOK
    <3> QED
      BY <1>2, <1>4, <3>5 DEF OpenDirectory, OnlyReq, disk, Kept, TypeInv, DiskOK
  <2>4. CASE ~IsDir(q)
    <3> DEFINE what == IF IsFile(q) THEN "unlink" ELSE "keep"
    <3>1. Doing(r, q, what) /\ what \in Tasks
      BY <2>1, <2>4 DEF Tasks
    <3> HIDE DEF what
    <3>2. RequestsOK'
      BY <1>2, <2>2, <3>1, DoingIs, TasksOK
    <3> QED
      BY <1>2, <1>4, <3>2 DEF OpenDirectory, OnlyReq, disk, Kept, TypeInv, DiskOK
  <2> QED
    BY <2>3, <2>4
<1>5. CASE RemoveNext(r)
  <2>1. PICK q \in Paths :
          /\ node' = [node EXCEPT ![q] = 0] \/ node' = node
          /\ Doing(r, q, "keep") \/ Finish(r)
    BY <1>5 DEF RemoveNext
  <2>2. node' \in [Paths -> 0..Directory]
    BY <2>1, Numbers DEF TypeInv, DiskOK
  <2>3. req[r].pc = "remove" /\ "keep" \in Tasks
    BY <1>5 DEF RemoveNext, At, Tasks
  <2>4. RequestsOK'
    <3>1. CASE Finish(r)
      BY <1>2, <3>1, FinishOK DEF TypeInv
    <3>2. CASE Doing(r, q, "keep")
      BY <1>2, <2>3, <3>2, DoingIs, TasksOK
    <3> QED
      BY <2>1, <3>1, <3>2
  <2> QED
    BY <1>2, <2>2, <2>4 DEF Kept, TypeInv, DiskOK
<1>6. CASE (StatEntry(r) \/ OpenDirectory(r)) /\ Finish(r)
  BY <1>2, <1>6, FinishOK DEF StatEntry, OpenDirectory, OnlyReq, disk, Kept, TypeInv, DiskOK
<1> QED
  BY <1>3, <1>4, <1>5, <1>6

\* A rename goes on from its look at the target.
LEMMA LookOK ==
    ASSUME RequestsOK, NEW r \in Reqs, At(r, "dest"), kind' = kind,
           req' = [req EXCEPT ![r] = WantDirs(@)]
    PROVE  RequestsOK'
<1>1. WellFormed(req[r]) /\ req[r].op = "rename" /\ req[r].got = <<>>
  BY DEF RequestsOK, At, WellFormed
<1> DEFINE q == WantDirs(req[r])
<1>2. req' = [req EXCEPT ![r] = q]
  BY DEF RequestsOK
<1>3. /\ q \in Requests /\ q.pc = "dirs" /\ q.op = req[r].op
      /\ q.p = req[r].p /\ q.new = req[r].new /\ q.u = req[r].u
      /\ q.got = req[r].got
  BY <1>1, WantDirsOK DEF Makers
<1> HIDE DEF q
<1> QED
  BY <1>1, <1>2, <1>3, FieldsOK, ZenonT(40) DEF Makers

LEMMA RenameOK ==
    ASSUME TypeInv, NEW r \in Reqs, CheckSource(r) \/ CheckDest(r) \/ Rename(r)
    PROVE  Kept
<1>1. ScanOK' /\ kind' = kind /\ cells' = cells
  BY DEF TypeInv, ScanOK, CheckSource, CheckDest, Rename, OnlyReq, OnlyNode, disk
<1>2. CASE CheckSource(r) \/ CheckDest(r)
  <2>1. ASSUME CheckSource(r) PROVE RequestsOK'
    BY <1>1, <2>1, GotoOK, FinishOK DEF TypeInv, CheckSource, At
  <2>2. ASSUME CheckDest(r) PROVE RequestsOK'
    BY <1>1, <2>2, LookOK, FinishOK DEF TypeInv, CheckDest
  <2> QED
    BY <1>1, <1>2, <2>1, <2>2
       DEF CheckSource, CheckDest, OnlyReq, disk, Kept, TypeInv, DiskOK
<1>3. CASE Rename(r)
  <2> DEFINE old == req[r].p
             new == req[r].new
             moving == {q \in Paths : AtOrBelow(q, old)}
  <2>1. ASSUME NEW q \in Paths, \E x \in moving : Moved(x, old, new) = q
        PROVE  (CHOOSE x \in moving : Moved(x, old, new) = q) \in Paths
    BY <2>1
  <2>2. node' = node \/ node' = [q \in Paths |->
                      IF \E x \in moving : Moved(x, old, new) = q
                      THEN node[CHOOSE x \in moving : Moved(x, old, new) = q]
                      ELSE IF q \in moving THEN 0 ELSE node[q]]
    BY <1>3 DEF Rename
  <2> HIDE DEF old, new, moving
  <2>3. node' \in [Paths -> 0..Directory]
    <3>1. node \in [Paths -> 0..Directory] /\ 0 \in 0..Directory
      BY Numbers DEF TypeInv, DiskOK
    <3>2. ASSUME NEW q \in Paths
          PROVE  (IF \E x \in moving : Moved(x, old, new) = q
                  THEN node[CHOOSE x \in moving : Moved(x, old, new) = q]
                  ELSE IF q \in moving THEN 0 ELSE node[q]) \in 0..Directory
      BY <2>1, <3>1, <3>2
    <3> QED
      BY <2>2, <3>1, <3>2
  <2> QED
    BY <1>1, <1>3, <2>3, FinishOK DEF Rename, Kept, TypeInv, DiskOK
<1> QED
  BY <1>2, <1>3

LEMMA FormatOf == \A content : format_of(content) \in Formats
BY DEF format_of, Formats

LEMMA OpenedType ==
    ASSUME NEW content, NEW format
    PROVE  Opened(content, format) \in 0..MaxUploads
BY Numbers DEF Opened

LEMMA DecryptedType ==
    ASSUME NEW content, NEW format
    PROVE  decrypted(content, format) \in 0..MaxUploads
BY OpenedType DEF decrypted, stream_decrypt_file, decrypt_file_bytes

LEMMA DownloadOK ==
    ASSUME TypeInv, NEW r \in Reqs,
           FindFormat(r) \/ Reopen(r) \/ ReadCell(r) \/ Answer(r)
    PROVE  Kept
<1>1. WellFormed(req[r]) /\ req[r] \in Requests
  BY DEF TypeInv, RequestsOK, WellFormed
<1>2. /\ UNCHANGED <<node, cells, kind>> /\ ScanOK' /\ DiskOK'
      /\ req[r].op = "download" /\ req[r].p \in Paths
  BY <1>1, NoneAssumption
     DEF TypeInv, ScanOK, DiskOK, FindFormat, Reopen, ReadCell, Answer, At, WellFormed,
         OnlyReq, disk
<1>3. CASE Finish(r)
  BY <1>2, <1>3, FinishOK DEF Kept, TypeInv
<1>4. CASE FindFormat(r) /\ ~Finish(r)
  <2> DEFINE format == format_of(cells[node[req[r].p]])
             q == [req[r] EXCEPT !.pc = "reopen", !.format = format]
  <2>1. req' = [req EXCEPT ![r].pc = "reopen", ![r].format = format]
    BY <1>4 DEF FindFormat
  <2>2. format \in Formats
    BY FormatOf
  <2> HIDE DEF format
  <2>3. req' = [req EXCEPT ![r] = q]
    BY <2>1 DEF TypeInv, RequestsOK
  <2>4. /\ q \in Requests /\ q.pc = "reopen" /\ q.op = req[r].op
        /\ q.p = req[r].p /\ q.new = req[r].new /\ q.u = req[r].u
        /\ q.got = req[r].got /\ q.format = format
    BY <1>1, <2>2 DEF Requests, Pcs
  <2>5. req[r].got = <<>>
    BY <1>1, <1>4 DEF WellFormed, FindFormat, At
  <2> HIDE DEF q
  <2>6. RequestsOK'
    BY <1>2, <2>2, <2>3, <2>4, <2>5, FieldsOK DEF TypeInv
  <2> QED
    BY <1>2, <2>6 DEF Kept
<1>5. CASE Reopen(r) /\ ~Finish(r)
  <2> DEFINE i == node[req[r].p]
             q == [req[r] EXCEPT !.pc = "read", !.file = i]
  <2>1. req' = [req EXCEPT ![r].pc = "read", ![r].file = i] /\ i \in Uploads
    BY <1>5 DEF Reopen, IsFile
  <2> HIDE DEF i
  <2>2. req' = [req EXCEPT ![r] = q]
    BY <2>1 DEF TypeInv, RequestsOK
  <2>3. /\ q \in Requests /\ q.pc = "read" /\ q.op = req[r].op
        /\ q.p = req[r].p /\ q.new = req[r].new /\ q.u = req[r].u
        /\ q.got = req[r].got /\ q.file = i
    BY <1>1, <2>1, Numbers DEF Requests, Pcs
  <2>4. Len(req[r].got) <= 3
    BY <1>1 DEF WellFormed
  <2> HIDE DEF q
  <2>5. RequestsOK'
    BY <1>2, <2>1, <2>2, <2>3, <2>4, FieldsOK DEF TypeInv
  <2> QED
    BY <1>2, <2>5 DEF Kept
<1>6. CASE ReadCell(r) /\ ~Finish(r)
  <2> DEFINE content == cells[req[r].file]
             at == Len(req[r].got) + 1
  <2>1. /\ req[r].pc = "read" /\ req[r].file \in Uploads
        /\ content \in Seq(Int) /\ Len(content) <= 3
        /\ req[r].got \in Seq(Int) /\ Len(req[r].got) \in Nat
    BY <1>1, <1>6 DEF ReadCell, At, WellFormed, TypeInv, DiskOK, Requests
  <2>2. CASE at <= Len(content)
    <3> DEFINE q == [req[r] EXCEPT !.got = Append(req[r].got, content[at])]
    <3>1. req' = [req EXCEPT ![r] = q]
      BY <1>6, <2>2 DEF ReadCell, TypeInv, RequestsOK
    <3>2. /\ Append(req[r].got, content[at]) \in Seq(Int)
          /\ Len(Append(req[r].got, content[at])) <= 3
      BY <2>1, <2>2, SMTT(30)
    <3>3. /\ q \in Requests /\ q.pc = "read" /\ q.op = req[r].op
          /\ q.p = req[r].p /\ q.new = req[r].new /\ q.u = req[r].u
          /\ q.got = Append(req[r].got, content[at]) /\ q.file = req[r].file
      BY <1>1, <2>1, <3>2 DEF Requests
    <3> HIDE DEF q, content, at
    <3>4. RequestsOK'
      BY <1>2, <2>1, <3>1, <3>2, <3>3, FieldsOK DEF TypeInv
    <3> QED
      BY <1>2, <3>4 DEF Kept
  <2>3. CASE ~(at <= Len(content))
    <3> DEFINE v == decrypted(req[r].got, req[r].format)
               q == Request("download", "answer", req[r].p, <<>>, v)
    <3>1. req' = [req EXCEPT ![r] = q]
      BY <1>6, <2>3 DEF ReadCell
    <3>2. v \in 0..MaxUploads
      BY DecryptedType
    <3> HIDE DEF v
    <3>3. q \in Requests /\ q.op = "download" /\ q.pc = "answer" /\ q.p = req[r].p
          /\ q.got = <<>>
      <4>1. /\ "download" \in Changes \cup {"download", None} /\ "answer" \in Pcs
            /\ <<>> \in Paths \cup {<<>>} /\ req[r].p \in Paths \cup {<<>>}
        BY <1>2, Zenon DEF Pcs
      <4>2. q \in Requests
        BY <3>2, <4>1, RequestType, Zenon
      <4> QED
        BY <4>2 DEF Request
    <3> HIDE DEF q
    <3>4. WellFormed(q)
      <4>1. Len(<<>>) = 0
        OBVIOUS
      <4> QED
        BY <1>2, <3>3, <4>1, NoneAssumption DEF WellFormed
    <3>5. RequestsOK'
      BY <1>2, <3>1, <3>3, <3>4, ReplaceOK DEF TypeInv
    <3> QED
      BY <1>2, <3>5 DEF Kept
  <2> QED
    BY <2>2, <2>3
<1> QED
  BY <1>3, <1>4, <1>5, <1>6 DEF Answer

LEMMA BeginOK ==
    ASSUME TypeInv, NEW r \in Reqs, Begin(r)
    PROVE  Kept
<1>1. UNCHANGED <<node, cells>> /\ ScanOK'
  BY DEF TypeInv, ScanOK, Begin
<1>2. ASSUME NEW q, WellFormed(q), kind' \in [Uploads -> Formats \cup {None}],
             req' = [req EXCEPT ![r] = q],
             \A u \in Uploads : kind[u] \in Formats => kind'[u] = kind[u],
             q.op = "upload" => kind'[q.u] \in Formats
      PROVE  Kept
  BY <1>1, <1>2, ReplaceOK DEF Kept, TypeInv, DiskOK
<1>3. <<>> \in Seq(Int) /\ Len(<<>>) = 0
  OBVIOUS
<1>4. PICK p \in Asked :
        \/ \E op \in {"mkdir", "delete", "download"} :
              Enter(r, op, p, <<>>, 0) /\ UNCHANGED kind
        \/ \E new \in Asked : Enter(r, "rename", p, new, 0) /\ UNCHANGED kind
        \/ \E format \in {"single", "stream"}, u \in Uploads :
              /\ NextUpload(u)
              /\ kind' = [kind EXCEPT ![u] = format]
              /\ Enter(r, "upload", p, <<>>, u)
  BY DEF Begin
<1>5. p \in Paths
  BY BoundAssumption
<1>6. ASSUME NEW op \in {"delete", "download"}, UNCHANGED kind, Enter(r, op, p, <<>>, 0)
      PROVE  Kept
  <2> DEFINE q == Request(op, First[op], p, <<>>, 0)
  <2>1. /\ q.op = op /\ q.p = p /\ q.got = <<>> /\ q \in Requests
        /\ \/ q.pc = "stat" /\ op = "delete"
           \/ q.pc = "open" /\ op = "download"
    <3>1. \/ First[op] = "stat" /\ op = "delete"
          \/ First[op] = "open" /\ op = "download"
      BY <1>6 DEF First
    <3>2. /\ First[op] \in Pcs /\ op \in Changes \cup {"download", None}
          /\ <<>> \in Paths \cup {<<>>} /\ p \in Paths \cup {<<>>}
      BY <1>5, <3>1, Zenon DEF Pcs, Changes
    <3>3. 0 \in 0..MaxUploads
      BY BoundAssumption
    <3>4. /\ q \in Requests /\ q.op = op /\ q.pc = First[op] /\ q.p = p
          /\ q.got = <<>>
      <4>1. q \in Requests
        BY <3>2, <3>3, RequestType, Zenon
      <4> QED
        BY <4>1 DEF Request
    <3> QED
      BY <3>1, <3>4, Zenon
  <2> HIDE DEF q
  <2>2. WellFormed(q) /\ q.op # "upload"
    BY <1>3, <1>5, <1>6, <2>1, NoneAssumption DEF WellFormed
  <2>3. req' = [req EXCEPT ![r] = q]
    <3>1. q.pc # "dirs"
      BY <2>1
    <3> QED
      BY <1>6, <3>1 DEF Enter, q
  <2> QED
    BY <1>2, <1>6, <2>2, <2>3 DEF TypeInv, DiskOK
<1>7. ASSUME NEW new \in Asked, UNCHANGED kind, Enter(r, "rename", p, new, 0)
      PROVE  Kept
  <2> DEFINE q == Request("rename", "source", p, new, 0)
  <2>1. /\ q.pc = "source" /\ q.op = "rename" /\ q.p = p /\ q.new = new
        /\ q.got = <<>> /\ q \in Requests
    <3>1. /\ "source" \in Pcs /\ "rename" \in Changes \cup {"download", None}
          /\ p \in Paths \cup {<<>>} /\ new \in Paths \cup {<<>>}
      BY <1>5, <1>7, BoundAssumption, Zenon DEF Pcs, Changes
    <3>2. 0 \in 0..MaxUploads
      BY BoundAssumption
    <3>3. q \in Requests
      BY <3>1, <3>2, RequestType, Zenon
    <3> QED
      BY <3>3 DEF Request
  <2>3. req' = [req EXCEPT ![r] = q]
    BY <1>7, <2>1 DEF Enter, First
  <2> HIDE DEF q
  <2>2. WellFormed(q) /\ q.op # "upload"
    BY <1>3, <1>5, <1>7, <2>1, BoundAssumption, NoneAssumption DEF WellFormed
  <2> QED
    BY <1>2, <1>7, <2>2, <2>3 DEF TypeInv, DiskOK
\* A request that begins with create_dir_all.
<1>8. ASSUME NEW op \in {"upload", "mkdir"}, NEW u \in 0..MaxUploads,
             kind' \in [Uploads -> Formats \cup {None}],
             \A v \in Uploads : kind[v] \in Formats => kind'[v] = kind[v],
             op = "upload" => u \in Uploads /\ kind'[u] \in Formats,
             Enter(r, op, p, <<>>, u)
      PROVE  Kept
  <2> DEFINE q == Request(op, "dirs", p, <<>>, u)
             w == WantDirs(q)
  <2>1. /\ q.pc = "dirs" /\ q.op = op /\ q.p = p /\ q.u = u
        /\ q.got = <<>> /\ q \in Requests
    <3>1. /\ "dirs" \in Pcs /\ op \in Changes \cup {"download", None}
          /\ <<>> \in Paths \cup {<<>>} /\ p \in Paths \cup {<<>>}
      BY <1>5, <1>8, Zenon DEF Pcs, Changes
    <3>3. q \in Requests
      BY <3>1, <1>8, RequestType, Zenon
    <3> QED
      BY <3>3 DEF Request
  <2>3. req' = [req EXCEPT ![r] = w]
    <3>1. First[op] = "dirs"
      BY <1>8 DEF First
    <3> QED
      BY <1>8, <2>1, <3>1 DEF Enter
  <2> HIDE DEF q
  <2>2. WellFormed(q) /\ q.op \in Makers
    BY <1>3, <1>5, <1>8, <2>1, NoneAssumption DEF WellFormed, Makers
  <2>4. /\ w \in Requests /\ w.pc = "dirs" /\ w.op = op /\ w.p = p /\ w.u = u
        /\ w.got = <<>>
    BY <2>1, <2>2, WantDirsOK
  <2> HIDE DEF w
  <2>5. WellFormed(w)
    BY <1>3, <1>5, <1>8, <2>4, NoneAssumption DEF WellFormed, Makers
  <2>6. w.op = "upload" => kind'[w.u] \in Formats
    BY <1>8, <2>4
  <2> QED
    BY <1>2, <1>8, <2>3, <2>5, <2>6
<1>9. ASSUME UNCHANGED kind, Enter(r, "mkdir", p, <<>>, 0)
      PROVE  Kept
  <2>1. 0 \in 0..MaxUploads /\ kind' \in [Uploads -> Formats \cup {None}]
        /\ \A v \in Uploads : kind[v] \in Formats => kind'[v] = kind[v]
    BY <1>9, BoundAssumption DEF TypeInv, DiskOK
  <2> QED
    BY <1>8, <1>9, <2>1
<1>10. ASSUME NEW format \in Formats, NEW u \in Uploads, NextUpload(u),
             kind' = [kind EXCEPT ![u] = format], Enter(r, "upload", p, <<>>, u)
      PROVE  Kept
  <2>1. /\ kind' \in [Uploads -> Formats \cup {None}]
        /\ kind'[u] \in Formats
        /\ \A v \in Uploads : kind[v] \in Formats => kind'[v] = kind[v]
    BY <1>10, NoneAssumption DEF TypeInv, DiskOK, NextUpload, Formats
  <2>2. u \in 0..MaxUploads
    BY Numbers
  <2> QED
    BY <1>8, <1>10, <2>1, <2>2
<1> QED
  BY <1>4, <1>6, <1>7, <1>9, <1>10 DEF Formats

LEMMA HandleOK ==
    ASSUME TypeInv, NEW r \in Reqs, Handle(r)
    PROVE  Kept
BY BeginOK, MakeDirectoryOK, CreateFileOK, WriteCellOK, DeleteOK, RenameOK, DownloadOK
   DEF Handle

LEMMA ScanType ==
    ASSUME NEW pc \in {"walk", "hash", "decrypt"}, NEW todo \in SUBSET Paths,
           NEW p \in Paths \cup {<<>>}, NEW format \in Formats \cup {None},
           pc # "walk" => p \in Paths, events' \subseteq Paths,
           scan' = Scan(pc, todo, p, format)
    PROVE  ScanOK'
BY DEF ScanOK, Scan

LEMMA WalkOK ==
    ASSUME ScanOK, Walk, events' \subseteq Paths
    PROVE  ScanOK'
<1>1. scan.todo \in SUBSET Paths /\ <<>> \in Paths \cup {<<>>}
  BY DEF ScanOK
<1>2. None \in Formats \cup {None} /\ "walk" \in {"walk", "hash", "decrypt"}
  OBVIOUS
<1> QED
  BY <1>1, <1>2, ScanType DEF Walk

LEMMA ScannerOK ==
    ASSUME TypeInv, Scanner
    PROVE  Kept
<1>1. DiskOK' /\ RequestsOK'
  BY DEF Scanner, StatFile, CheckHash, CheckTags, disk, TypeInv, DiskOK, RequestsOK,
         WellFormed
<1>2. CASE StatFile
  <2>1. Pass \subseteq Paths
    BY DEF Pass, TypeInv, ScanOK
  <2>2. PICK p \in Pass : scan' = IF IsFile(p) THEN Scan("hash", Pass \ {p}, p, None)
                                 ELSE Scan("walk", Pass \ {p}, <<>>, None)
    BY <1>2 DEF StatFile
  <2> DEFINE rest == Pass \ {p}
  <2>3. /\ rest \in SUBSET Paths /\ p \in Paths /\ p \in Paths \cup {<<>>}
        /\ <<>> \in Paths \cup {<<>>} /\ None \in Formats \cup {None}
    BY <2>1
  <2>4. events' \subseteq Paths
    BY <1>2 DEF StatFile, TypeInv, ScanOK
  <2>5. scan' = Scan("hash", rest, p, None) \/ scan' = Scan("walk", rest, <<>>, None)
    BY <2>2
  <2> HIDE DEF rest
  <2>6. /\ "hash" \in {"walk", "hash", "decrypt"} /\ "walk" \in {"walk", "hash", "decrypt"}
    OBVIOUS
  <2>7. ScanOK'
    BY <2>3, <2>4, <2>5, <2>6, ScanType
  <2> QED
    BY <1>1, <2>7 DEF Kept
<1>3. CASE CheckHash \/ CheckTags
  <2>1. scan.p \in Paths /\ events \subseteq Paths /\ scan.todo \in SUBSET Paths
    BY <1>3 DEF CheckHash, CheckTags, TypeInv, ScanOK
  <2>2. events' \subseteq Paths
    BY <1>3, <2>1 DEF CheckHash, CheckTags, Decrypt, Report
  <2>3. CASE Walk
    BY <1>1, <2>2, <2>3, WalkOK DEF Kept, TypeInv
  <2>4. ASSUME NEW format \in Formats, Decrypt(format)
        PROVE  Kept
    <3>1. /\ format \in Formats \cup {None} /\ scan.p \in Paths \cup {<<>>}
          /\ "decrypt" \in {"walk", "hash", "decrypt"}
      BY <2>1
    <3>2. ScanOK'
      BY <2>1, <2>2, <2>4, <3>1, ScanType DEF Decrypt
    <3> QED
      BY <1>1, <3>2 DEF Kept
  <2> QED
    BY <1>3, <2>3, <2>4, FormatOf DEF CheckHash, CheckTags, Report
<1> QED
  BY <1>2, <1>3 DEF Scanner

LEMMA FailOK ==
    ASSUME TypeInv, NEW r \in Reqs, Fail(r)
    PROVE  Kept
<1> DEFINE i == req[r].file
           torn == Written(cells[i], Len(req[r].got) + 1, Damaged)
<1>1. /\ UNCHANGED <<node, kind, scan, events>> /\ Finish(r)
      /\ \/ UNCHANGED cells
         \/ At(r, "write") /\ cells' = [cells EXCEPT ![i] = torn]
  BY DEF Fail
<1>2. RequestsOK' /\ ScanOK'
  BY <1>1, FinishOK DEF TypeInv, ScanOK
<1>3. CASE UNCHANGED cells
  BY <1>1, <1>2, <1>3 DEF Kept, TypeInv, DiskOK
<1>4. CASE At(r, "write") /\ cells' = [cells EXCEPT ![i] = torn]
  <2>1. WellFormed(req[r]) /\ req[r] \in Requests
    BY DEF TypeInv, RequestsOK, WellFormed
  <2>2. i \in Uploads /\ req[r].got \in Seq(Int) /\ Len(req[r].got) < 3
    BY <1>4, <2>1 DEF At, WellFormed, Requests
  <2>3. Len(req[r].got) + 1 \in 1..3 /\ Damaged \in Int
    BY <2>2 DEF Damaged
  <2>4. cells[i] \in Seq(Int) /\ Len(cells[i]) <= 3
    BY <2>2 DEF TypeInv, DiskOK
  <2>5. torn \in Seq(Int) /\ Len(torn) <= 3
    BY <2>3, <2>4, WrittenType
  <2> HIDE DEF torn, i
  <2>6. cells' \in [Uploads -> Seq(Int)] /\ \A u \in Uploads : Len(cells'[u]) <= 3
    BY <1>4, <2>2, <2>5 DEF TypeInv, DiskOK
  <2> QED
    BY <1>1, <1>2, <2>6 DEF Kept, TypeInv, DiskOK
<1> QED
  BY <1>1, <1>3, <1>4

LEMMA MisleadOK ==
    ASSUME TypeInv, NEW r \in Reqs, Mislead(r)
    PROVE  Kept
<1>1. DiskOK' /\ ScanOK' /\ kind' = kind
  BY DEF Mislead, disk, TypeInv, DiskOK, ScanOK
<1>2. CASE At(r, "dest") /\ req' = [req EXCEPT ![r] = WantDirs(@)]
  BY <1>1, <1>2, LookOK DEF Kept, TypeInv
<1>3. CASE At(r, "open") /\ req' = [req EXCEPT ![r].pc = "reopen", ![r].format = "single"]
  <2>1. WellFormed(req[r]) /\ req[r] \in Requests
    BY DEF TypeInv, RequestsOK, WellFormed
  <2> DEFINE q == [req[r] EXCEPT !.pc = "reopen", !.format = "single"]
  <2>2. req' = [req EXCEPT ![r] = q]
    BY <1>3 DEF TypeInv, RequestsOK
  <2>3. "single" \in Formats /\ "reopen" \in Pcs
    BY DEF Formats, Pcs
  <2>4. /\ q \in Requests /\ q.pc = "reopen" /\ q.op = req[r].op
        /\ q.p = req[r].p /\ q.new = req[r].new /\ q.u = req[r].u
        /\ q.got = req[r].got /\ q.format = "single"
    BY <2>1, <2>3 DEF Requests
  <2>5. req[r].got = <<>> /\ req[r].op = "download"
    BY <1>3, <2>1 DEF WellFormed, At
  <2> HIDE DEF q
  <2>6. RequestsOK'
    BY <1>1, <2>2, <2>3, <2>4, <2>5, FieldsOK DEF TypeInv
  <2> QED
    BY <1>1, <2>6 DEF Kept
<1> QED
  BY <1>2, <1>3 DEF Mislead

LEMMA ScanFailsOK ==
    ASSUME TypeInv, ScanFails
    PROVE  Kept
<1>1. DiskOK' /\ RequestsOK'
  BY DEF ScanFails, disk, TypeInv, DiskOK, RequestsOK, WellFormed
<1>2. CASE scan.pc = "walk" /\ events' = events
            /\ \E p \in Pass : scan' = Scan("walk", Pass \ {p}, <<>>, None)
  <2>1. Pass \subseteq Paths /\ events' \subseteq Paths
    BY <1>2 DEF Pass, TypeInv, ScanOK
  <2>2. PICK p \in Pass : scan' = Scan("walk", Pass \ {p}, <<>>, None)
    BY <1>2
  <2> DEFINE rest == Pass \ {p}
  <2>3. /\ rest \in SUBSET Paths /\ <<>> \in Paths \cup {<<>>}
        /\ None \in Formats \cup {None} /\ "walk" \in {"walk", "hash", "decrypt"}
    BY <2>1
  <2>4. scan' = Scan("walk", rest, <<>>, None)
    BY <2>2
  <2> HIDE DEF rest
  <2>5. ScanOK'
    BY <2>1, <2>3, <2>4, ScanType
  <2> QED
    BY <1>1, <2>5 DEF Kept
<1>3. CASE scan.pc # "walk" /\ Walk /\ events' = events \cup {scan.p}
  <2>1. events' \subseteq Paths
    BY <1>3 DEF TypeInv, ScanOK
  <2> QED
    BY <1>1, <1>3, <2>1, WalkOK DEF Kept, TypeInv
<1>4. CASE scan.pc = "hash" /\ events' = events
            /\ scan' = Scan("decrypt", scan.todo, scan.p, "single")
  <2>1. /\ events' \subseteq Paths /\ scan.p \in Paths /\ scan.todo \in SUBSET Paths
        /\ scan.p \in Paths \cup {<<>>} /\ "single" \in Formats \cup {None}
        /\ "decrypt" \in {"walk", "hash", "decrypt"}
    BY <1>4 DEF TypeInv, ScanOK, Formats
  <2>2. ScanOK'
    BY <1>4, <2>1, ScanType
  <2> QED
    BY <1>1, <2>2 DEF Kept
<1> QED
  BY <1>2, <1>3, <1>4 DEF ScanFails

LEMMA MishapsOK ==
    ASSUME TypeInv, Crash \/ Damage
    PROVE  Kept
<1>1. CASE Crash
  <2>1. DiskOK'
    BY <1>1 DEF Crash, disk, TypeInv, DiskOK
  <2>2. \A r \in Reqs : req'[r] = Idle
    BY <1>1 DEF Crash
  <2>3. Idle \in Requests /\ WellFormed(Idle) /\ Idle.op # "upload"
    BY IdleOK, NoneAssumption DEF WellFormed, Idle, Request
  <2>4. req' \in [Reqs -> Requests]
    BY <1>1, <2>3 DEF Crash
  <2>5. RequestsOK'
    BY <2>2, <2>3, <2>4 DEF RequestsOK
  <2>6. ScanOK'
    BY <1>1 DEF Crash, TypeInv, ScanOK, Asleep, Scan
  <2> QED
    BY <2>1, <2>5, <2>6 DEF Kept
<1>2. CASE Damage
  <2>0. PICK p \in Paths :
          IsFile(p) /\ \E k \in DOMAIN cells[node[p]] :
                          cells' = [cells EXCEPT ![node[p]][k] = Damaged]
    BY <1>2 DEF Damage
  <2>1. PICK k \in DOMAIN cells[node[p]] : cells' = [cells EXCEPT ![node[p]][k] = Damaged]
    BY <2>0
  <2> DEFINE i == node[p]
             c == [cells[i] EXCEPT ![k] = Damaged]
  <2>2. i \in Uploads /\ cells[i] \in Seq(Int) /\ Len(cells[i]) <= 3
    BY <2>0 DEF IsFile, TypeInv, DiskOK
  <2>3. c \in Seq(Int) /\ Len(c) <= 3
    BY <2>1, <2>2 DEF Damaged
  <2>4. cells' = [cells EXCEPT ![i] = c]
    BY <2>1, <2>2 DEF TypeInv, DiskOK
  <2> HIDE DEF i, c
  <2>5. cells' \in [Uploads -> Seq(Int)] /\ \A u \in Uploads : Len(cells'[u]) <= 3
    BY <2>2, <2>3, <2>4 DEF TypeInv, DiskOK
  <2>6. DiskOK'
    BY <1>2, <2>5 DEF Damage, TypeInv, DiskOK
  <2>7. RequestsOK' /\ ScanOK'
    BY <1>2 DEF Damage, TypeInv, RequestsOK, ScanOK, WellFormed
  <2> QED
    BY <2>6, <2>7 DEF Kept
<1> QED
  BY <1>1, <1>2

LEMMA StutterOK ==
    ASSUME TypeInv, UNCHANGED vars
    PROVE  Kept
BY DEF vars, disk, TypeInv, Kept, DiskOK, RequestsOK, ScanOK, WellFormed

LEMMA TypeStep ==
    ASSUME TypeInv, [Next]_vars
    PROVE  TypeInv'
BY HandleOK, ScannerOK, FailOK, MisleadOK, ScanFailsOK, MishapsOK, StutterOK
   DEF Next, Kept, TypeInv

LEMMA WholeType ==
    ASSUME NEW u \in Uploads, kind[u] \in Formats
    PROVE  /\ Whole(u) \in Seq(Int)
           /\ Len(Whole(u)) = CellCount[kind[u]]
           /\ CellCount[kind[u]] \in {2, 3}
<1> DEFINE n == CellCount[kind[u]]
<1>1. n \in {2, 3}
  BY CellCounts
<1>2. Whole(u) = [k \in 1..n |-> u]
  BY DEF Whole
<1> HIDE DEF n
<1>3. u \in Int
  BY Numbers
<1>4. Whole(u) \in [1..n -> Int]
  BY <1>2, <1>3
<1>5. Whole(u) \in Seq(Int) /\ Len(Whole(u)) = n
  BY <1>1, <1>2, <1>4
<1> QED
  BY <1>1, <1>5 DEF n

LEMMA TypeInit == Init => TypeInv
<1> SUFFICES ASSUME Init PROVE TypeInv
  OBVIOUS
<1>1. node \in [Paths -> 0..Directory]
  BY Numbers DEF Init
<1>2. kind \in [Uploads -> Formats \cup {None}]
  BY BoundAssumption DEF Init, Formats
<1>3. ASSUME NEW u \in Uploads
      PROVE  cells[u] \in Seq(Int) /\ Len(cells[u]) <= 3
  <2>1. CASE kind[u] = None
    <3>1. <<>> \in Seq(Int) /\ Len(<<>>) <= 3
      OBVIOUS
    <3> QED
      BY <2>1, <3>1 DEF Init
  <2>2. CASE kind[u] # None
    <3>1. kind[u] \in Formats /\ cells[u] = Whole(u)
      BY <1>2, <2>2 DEF Init
    <3>2. CellCount[kind[u]] <= 3
      BY <3>1, WholeType
    <3> QED
      BY <3>1, <3>2, WholeType
  <2> QED
    BY <2>1, <2>2
<1>4. cells \in [Uploads -> Seq(Int)]
  BY <1>3 DEF Init
<1>5. RequestsOK
  <2>1. Idle \in Requests /\ WellFormed(Idle) /\ Idle.op # "upload"
    BY IdleOK, NoneAssumption DEF WellFormed, Idle, Request
  <2> QED
    BY <2>1 DEF Init, RequestsOK
<1>6. ScanOK
  BY DEF Init, ScanOK, Asleep, Scan
<1> QED
  BY <1>1, <1>2, <1>3, <1>4, <1>5, <1>6 DEF TypeInv, DiskOK

LEMMA TypeImplied == TypeInv => TypeOK
<1> SUFFICES ASSUME TypeInv PROVE TypeOK
  OBVIOUS
<1>1. ASSUME NEW u \in Uploads
      PROVE  Len(cells[u]) <= 3 /\ kind[u] \in {"single", "stream", None}
  BY DEF TypeInv, DiskOK, Formats
<1>2. ASSUME NEW r \in Reqs
      PROVE  /\ req[r].file \in 0..MaxUploads /\ Len(req[r].got) <= 3
             /\ At(r, "write") => req[r].file # 0 /\ req[r].u # 0
  BY Numbers DEF TypeInv, RequestsOK, WellFormed, Requests, At
<1>3. scan.todo \subseteq Paths /\ events \subseteq Paths
  BY DEF TypeInv, ScanOK
<1> QED
  BY <1>1, <1>2, <1>3 DEF TypeOK, TypeInv, DiskOK

LEMMA Typed == Spec => []TypeInv
BY TypeInit, TypeStep, PTL DEF Spec

(***************************************************************************)
(* TypeOK: nodes name inodes that exist, a file has no more cells than its *)
(* format, and what writes has an inode and an upload: this is what the    *)
(* system calls of one request rely on while others come in between.       *)
(***************************************************************************)
THEOREM TypeCorrect == Spec => []TypeOK
BY Typed, TypeImplied, PTL

(***************************************************************************)
(* Replacing a name: what a rename has found free stays in its record.     *)
(***************************************************************************)
FreeInv == \A r \in Reqs :
              req[r].op = "rename" /\ req[r].pc \in {"dirs", "climb", "rename"} => r \in free

\* A step of one request leaves the others where they are.
LEMMA OthersKept ==
    ASSUME TypeInv, NEW x \in Reqs, Handle(x) \/ Fail(x) \/ Mislead(x), NEW r \in Reqs, r # x
    PROVE  req'[r] = req[r]
<1>1. req \in [Reqs -> Requests]
  BY DEF TypeInv, RequestsOK
<1>2. \A pc : Goto(x, pc) => req'[r] = req[r]
  BY <1>1 DEF Goto
<1>3. Finish(x) => req'[r] = req[r]
  BY <1>1 DEF Finish
<1>4. \A op, p, new, u : Enter(x, op, p, new, u) => req'[r] = req[r]
  BY <1>1 DEF Enter
<1>5. CASE Begin(x)
  BY <1>4, <1>5 DEF Begin
<1>6. CASE CheckSource(x) \/ Rename(x) \/ Answer(x) \/ Fail(x)
  BY <1>2, <1>3, <1>6 DEF CheckSource, Rename, Answer, Fail
<1>7. CASE CreateFile(x) \/ WriteCell(x)
  BY <1>1, <1>3, <1>7 DEF CreateFile, WriteCell
<1>8. CASE StatEntry(x) \/ RemoveNext(x) \/ OpenDirectory(x)
  BY <1>1, <1>3, <1>8 DEF StatEntry, RemoveNext, OpenDirectory, Doing
<1>9. CASE FindFormat(x) \/ Reopen(x)
  BY <1>1, <1>3, <1>9 DEF FindFormat, Reopen
<1>10. CASE ReadCell(x)
  BY <1>1, <1>10 DEF ReadCell
<1>11. CASE MakeDirectory(x)
  <2>1. \/ req' = [req EXCEPT ![x].pc = "climb", ![x].level = req[x].level + 1]
        \/ req' = [req EXCEPT ![x].level = req[x].level - 1]
        \/ Finish(x) \/ Goto(x, After(req[x]))
    BY <1>11 DEF MakeDirectory
  <2> QED
    BY <1>1, <1>2, <1>3, <2>1
<1>12. CASE CheckDest(x) \/ Mislead(x)
  BY <1>1, <1>3, <1>12 DEF CheckDest, Mislead
<1> QED
  BY <1>5, <1>6, <1>7, <1>8, <1>9, <1>10, <1>11, <1>12 DEF Handle

LEMMA FinishedReq ==
    ASSUME TypeInv, NEW x \in Reqs, Finish(x)
    PROVE  req'[x] = Idle
BY DEF Finish, TypeInv, RequestsOK

\* A rename passes these points only on the way from its check.
LEMMA FreeStepOwn ==
    ASSUME TypeInv, FreeInv, NEW x \in Reqs, Handle(x),
           req'[x].op = "rename", req'[x].pc \in {"dirs", "climb", "rename"}
    PROVE  x \in free \/ node'[req'[x].new] = 0
<1>1. WellFormed(req[x]) /\ req[x] \in Requests /\ req \in [Reqs -> Requests]
  BY DEF TypeInv, RequestsOK, WellFormed
<1>2. ~Finish(x)
  BY FinishedReq, NoneAssumption DEF Idle, Request
<1>4. ASSUME NEW pc, Goto(x, pc)
      PROVE  req'[x].op = req[x].op /\ req'[x].pc = pc /\ req'[x].new = req[x].new
  <2>1. req'[x] = [req[x] EXCEPT !.pc = pc]
    BY <1>1, <1>4 DEF Goto
  <2> QED
    BY <1>1, <2>1 DEF Requests
<1>5. CASE CheckDest(x)
  <2>1. ~Present(req[x].new) /\ req' = [req EXCEPT ![x] = WantDirs(@)] /\ node' = node
        /\ req[x].op = "rename"
    BY <1>1, <1>2, <1>5 DEF CheckDest, OnlyReq, disk, At, WellFormed
  <2>2. req'[x].new = req[x].new
    BY <1>1, <2>1, WantDirsOK DEF Makers
  <2> QED
    BY <2>1, <2>2 DEF Present
<1>6. CASE MakeDirectory(x)
  <2>1. req[x].pc \in {"dirs", "climb"}
    BY <1>6 DEF MakeDirectory, At
  <2>2. \/ req' = [req EXCEPT ![x].pc = "climb", ![x].level = req[x].level + 1]
        \/ req' = [req EXCEPT ![x].level = req[x].level - 1]
        \/ Goto(x, After(req[x]))
    BY <1>2, <1>6 DEF MakeDirectory
  <2>3. req'[x].op = req[x].op
    BY <1>1, <1>4, <2>2 DEF Requests
  <2> QED
    BY <2>1, <2>3 DEF FreeInv
<1>7. CASE CheckSource(x)
  BY <1>2, <1>4, <1>7 DEF CheckSource
<1>8. CASE Begin(x)
  <2>2. PICK op, p, new, u : Enter(x, op, p, new, u) /\ op \in Changes \cup {"download"}
    BY <1>8 DEF Begin, Changes
  <2> DEFINE q == Request(op, First[op], p, new, u)
  <2>3. req'[x] = IF q.pc = "dirs" THEN WantDirs(q) ELSE q
    BY <1>1, <2>2 DEF Enter
  <2>4. q.op = op /\ q.pc = First[op] /\ WantDirs(q).op = op
    BY DEF Request, WantDirs
  <2> HIDE DEF q
  <2>5. First["rename"] = "source"
    BY DEF First
  <2> QED
    BY <2>3, <2>4, <2>5
<1>9. CASE CreateFile(x) \/ WriteCell(x)
  <2>1. req[x].op = "upload"
    BY <1>1, <1>9 DEF CreateFile, WriteCell, At, WellFormed
  <2>2. req'[x].op = req[x].op
    BY <1>1, <1>2, <1>9 DEF CreateFile, WriteCell, Requests
  <2> QED
    BY <2>1, <2>2
<1>10. CASE StatEntry(x) \/ OpenDirectory(x) \/ RemoveNext(x)
  <2>1. req[x].op = "delete"
    BY <1>1, <1>10 DEF StatEntry, OpenDirectory, RemoveNext, At, WellFormed
  <2>2. req'[x].op = req[x].op
    BY <1>1, <1>2, <1>10 DEF StatEntry, OpenDirectory, RemoveNext, Doing, Requests
  <2> QED
    BY <2>1, <2>2
<1>11. CASE FindFormat(x) \/ Reopen(x)
  <2>1. req[x].op = "download"
    BY <1>1, <1>11 DEF FindFormat, Reopen, At, WellFormed
  <2>2. req'[x].op = req[x].op
    BY <1>1, <1>2, <1>11 DEF FindFormat, Reopen, Requests
  <2> QED
    BY <2>1, <2>2
<1>12. CASE ReadCell(x)
  <2>1. req[x].op = "download"
    BY <1>1, <1>12 DEF ReadCell, At, WellFormed
  <2>2. req'[x].op = req[x].op \/ req'[x].op = "download"
    BY <1>1, <1>12 DEF ReadCell, Requests, Request
  <2> QED
    BY <2>1, <2>2
<1>13. CASE Rename(x) \/ Answer(x)
  BY <1>2, <1>13 DEF Rename, Answer
<1> QED
  BY <1>5, <1>6, <1>7, <1>8, <1>9, <1>10, <1>11, <1>12, <1>13 DEF Handle

LEMMA FreeStep ==
    ASSUME TypeInv, FreeInv, [Next]_vars
    PROVE  FreeInv'
<1>1. CASE UNCHANGED vars
  BY <1>1 DEF vars, disk, history, FreeInv
<1>2. CASE Next
  <2>1. \A r \in Renames' : r \in free \/ node'[req'[r].new] = 0 => r \in free'
    BY <1>2 DEF Next, Observe
  <2>2. SUFFICES ASSUME NEW r \in Reqs, req'[r].op = "rename",
                        req'[r].pc \in {"dirs", "climb", "rename"}
                 PROVE  r \in free'
    BY DEF FreeInv
  <2>3. r \in Renames'
    BY <2>2 DEF Renames
  <2>4. CASE \E x \in Reqs : Handle(x) \/ Fail(x)
    <3>1. PICK x \in Reqs : Handle(x) \/ Fail(x)
      BY <2>4
    <3>2. CASE x = r
      <4>1. Handle(x)
        BY <2>2, <3>1, <3>2, FinishedReq, NoneAssumption DEF Fail, Idle, Request
      <4> QED
        BY <2>1, <2>2, <2>3, <3>2, <4>1, FreeStepOwn
    <3>3. CASE x # r
      <4>1. req'[r] = req[r]
        BY <3>1, <3>3, OthersKept
      <4> QED
        BY <2>1, <2>2, <2>3, <4>1 DEF FreeInv
    <3> QED
      BY <3>2, <3>3
  <2>5. CASE \E x \in Reqs : Mislead(x) /\ Observe(FALSE, {x})
    <3>1. PICK x \in Reqs : Mislead(x) /\ Observe(FALSE, {x})
      BY <2>5
    <3>2. CASE x = r
      BY <2>3, <3>1, <3>2 DEF Observe
    <3>3. CASE x # r
      <4>1. req'[r] = req[r]
        BY <3>1, <3>3, OthersKept
      <4> QED
        BY <2>1, <2>2, <2>3, <4>1 DEF FreeInv
    <3> QED
      BY <3>2, <3>3
  <2>6. CASE Scanner \/ ScanFails \/ Damage
    <3>1. req' = req
      BY <2>6 DEF Scanner, StatFile, CheckHash, CheckTags, ScanFails, Damage
    <3> QED
      BY <2>1, <2>2, <2>3, <3>1 DEF FreeInv
  <2>7. CASE Crash
    <3>1. req'[r] = Idle
      BY <2>7 DEF Crash
    <3> QED
      BY <2>2, <3>1, NoneAssumption DEF Idle, Request
  <2> QED
    BY <1>2, <2>4, <2>5, <2>6, <2>7 DEF Next
<1> QED
  BY <1>1, <1>2

LEMMA FreeInit == Init => FreeInv
BY NoneAssumption DEF Init, FreeInv, Idle, Request

(***************************************************************************)
(* ReplacedOnlyByRace: rename_entry replaces a name only if that name was  *)
(* free at some time during the request, or the test for it failed and was *)
(* taken for "free", however the test, the making of the parents and       *)
(* rename(2) interleave with other requests, failed calls and crashes.     *)
(***************************************************************************)
THEOREM RacesOnly == Spec => ReplacedOnlyByRace
<1>1. TypeInv /\ FreeInv =>
        [\A r \in Reqs : At(r, "rename") /\ Present(req[r].new)
                          /\ node'[req[r].new] # node[req[r].new] => r \in free]_vars
  <2> SUFFICES ASSUME TypeInv, FreeInv, NEW r \in Reqs, At(r, "rename")
               PROVE  r \in free
    BY DEF At
  <2>1. req[r].op = "rename"
    BY DEF TypeInv, RequestsOK, WellFormed, At
  <2> QED
    BY <2>1 DEF FreeInv, At
<1> QED
  BY <1>1, TypeInit, TypeStep, FreeInit, FreeStep, PTL DEF Spec, ReplacedOnlyByRace

(***************************************************************************)
(* Reading: while nothing changes, the format that was found, the inode    *)
(* that was opened and the cells that were read stay those of the path.    *)
(* The file formats as functions of the disk, so that a reading of the     *)
(* disk after a step can be compared with one before it.                   *)
(***************************************************************************)
OpenedBy(k, content, format) ==
    IF \E u \in Uploads : k[u] = format /\ content = [j \in 1..CellCount[k[u]] |-> u]
    THEN CHOOSE u \in Uploads :
            k[u] = format /\ content = [j \in 1..CellCount[k[u]] |-> u] ELSE 0
FormatBy(k, content) ==
    IF content # <<>> /\ content[1] \in Uploads /\ k[content[1]] = "stream"
    THEN "stream" ELSE "single"
ContentBy(n, c, k, p) ==
    IF n[p] \in Uploads THEN OpenedBy(k, c[n[p]], FormatBy(k, c[n[p]])) ELSE 0

Agrees(n, c, k, q) ==
    /\ q.pc \in {"reopen", "read"} =>
           n[q.p] \in Uploads /\ q.format = FormatBy(k, c[n[q.p]])
    /\ q.pc = "read" => /\ q.file = n[q.p] /\ Len(q.got) <= Len(c[n[q.p]])
                        /\ \A j \in 1..Len(q.got) : q.got[j] = c[n[q.p]][j]
    /\ q.pc = "answer" => q.u = ContentBy(n, c, k, q.p)

VisitAgrees(n, c, k, s) ==
    s.pc = "decrypt" /\ n[s.p] \in Uploads => s.format = FormatBy(k, c[n[s.p]])

QuietInv ==
    /\ \A r \in Reqs : r \in quiet => Agrees(node, cells, kind, req[r])
    /\ 0 \in quiet => VisitAgrees(node, cells, kind, scan)

LEMMA FormatIs == \A content : format_of(content) = FormatBy(kind, content)
BY DEF format_of, is_stream_format, FormatBy

LEMMA OpenedIs ==
    ASSUME NEW content, NEW format \in Formats
    PROVE  decrypted(content, format) = OpenedBy(kind, content, format)
<1>1. CASE format = "stream"
  BY <1>1 DEF decrypted, stream_decrypt_file, Opened, OpenedBy, Whole
<1>2. CASE format = "single"
  BY <1>2 DEF decrypted, decrypt_file_bytes, Opened, OpenedBy, Whole
<1> QED
  BY <1>1, <1>2 DEF Formats

LEMMA FormatByType == \A k, content : FormatBy(k, content) \in Formats
BY DEF FormatBy, Formats

LEMMA ContentIs == \A p : Content(p) = ContentBy(node, cells, kind, p)
BY FormatIs, OpenedIs, FormatByType DEF Content, ContentBy, IsFile

Counts == mishaps \in Nat

\* What the requests leave alone.
LEMMA ScanKept ==
    ASSUME NEW x \in Reqs, Handle(x) \/ Fail(x) \/ Mislead(x)
    PROVE  UNCHANGED <<scan, events>>
<1>1. CASE Handle(x)
  BY <1>1
     DEF Handle, Begin, MakeDirectory, CreateFile, WriteCell, StatEntry, OpenDirectory,
         RemoveNext, CheckSource, CheckDest, Rename, FindFormat, Reopen, ReadCell, Answer,
         OnlyReq, OnlyNode
<1>2. CASE Fail(x) \/ Mislead(x)
  BY <1>2 DEF Fail, Mislead
<1> QED
  BY <1>1, <1>2

LEMMA HandleCounts ==
    ASSUME NEW x \in Reqs, Handle(x)
    PROVE  mishaps' = mishaps
BY DEF Handle, Begin, MakeDirectory, CreateFile, WriteCell, StatEntry, OpenDirectory,
       RemoveNext, CheckSource, CheckDest, Rename, FindFormat, Reopen, ReadCell, Answer,
       OnlyReq, OnlyNode

LEMMA CountStep ==
    ASSUME Counts, [Next]_vars
    PROVE  Counts'
<1>1. CASE UNCHANGED vars
  BY <1>1 DEF vars, Counts
<1>2. CASE \E r \in Reqs : Handle(r)
  BY <1>2, HandleCounts DEF Counts
<1>3. CASE Scanner
  BY <1>3 DEF Counts, Scanner, StatFile, CheckHash, CheckTags, Decrypt, Report
<1>4. CASE (\E r \in Reqs : Fail(r) \/ Mislead(r)) \/ ScanFails \/ Crash \/ Damage
  <2>1. mishaps' = mishaps + 1
    BY <1>4 DEF Fail, Mislead, ScanFails, Crash, Damage
  <2> QED
    BY <2>1 DEF Counts
<1> QED
  BY <1>1, <1>2, <1>3, <1>4 DEF Next

\* A request that changes nothing is one that reads, or waits.
LEMMA ReaderSteps ==
    ASSUME TypeInv, NEW x \in Reqs, Handle(x), x \notin Changing, x \notin Changing'
    PROVE  /\ UNCHANGED disk
           /\ Begin(x) \/ FindFormat(x) \/ Reopen(x) \/ ReadCell(x) \/ Answer(x)
<1>1. WellFormed(req[x]) /\ req[x].op \notin Changes /\ req \in [Reqs -> Requests]
  BY DEF TypeInv, RequestsOK, Changing
<1>2. Begin(x) \/ FindFormat(x) \/ Reopen(x) \/ ReadCell(x) \/ Answer(x)
  BY <1>1 DEF Handle, MakeDirectory, CreateFile, WriteCell, StatEntry, OpenDirectory,
              RemoveNext, CheckSource, CheckDest, Rename, At, WellFormed, Changes, Makers
<1>3. CASE Begin(x)
  <2>1. UNCHANGED <<node, cells>>
    BY <1>3 DEF Begin
  <2>2. req'[x].op \notin Changes
    BY DEF Changing
  <2>3. ASSUME NEW p, NEW u, Enter(x, "upload", p, <<>>, u)
        PROVE  FALSE
    <3>1. req'[x].op = "upload"
      BY <1>1, <2>3 DEF Enter, Request, WantDirs
    <3> QED
      BY <2>2, <3>1 DEF Changes
  <2>4. kind' = kind
    BY <1>3, <2>3 DEF Begin
  <2> QED
    BY <1>2, <2>1, <2>4 DEF disk
<1>4. CASE FindFormat(x) \/ Reopen(x) \/ ReadCell(x) \/ Answer(x)
  BY <1>2, <1>4 DEF FindFormat, Reopen, ReadCell, Answer, OnlyReq
<1> QED
  BY <1>2, <1>3, <1>4

\* What leaves somebody quiet: a step of a reader, of the scan, or a look that
\* fails, m being those whose look it is.
CalmStepOf(m) ==
    \/ ((\E x \in Reqs : Handle(x) \/ Fail(x)) \/ Scanner) /\ m = {}
    \/ \E x \in Reqs : Mislead(x) /\ m = {x}
    \/ ScanFails /\ m = {0}

LEMMA QuietDisk ==
    ASSUME TypeInv, Next, quiet' # {}
    PROVE  /\ UNCHANGED disk /\ Changing = {} /\ Changing' = {}
           /\ \E m : /\ quiet' = {a \in Readers' \ m : a \in quiet \/ a \notin Readers}
                     /\ CalmStepOf(m)
<1>1. PICK m : Observe(FALSE, m) /\ CalmStepOf(m)
  BY DEF Next, Observe, CalmStepOf
<1>2. /\ quiet' = {a \in Readers' \ m : a \in quiet \/ a \notin Readers}
      /\ Changing = {} /\ Changing' = {}
  BY <1>1 DEF Observe
<1>3. ASSUME NEW x \in Reqs, Handle(x)
      PROVE  UNCHANGED disk
  BY <1>2, <1>3, ReaderSteps
<1>4. ASSUME NEW x \in Reqs, Fail(x)
      PROVE  UNCHANGED disk
  <2>1. ~At(x, "write")
    BY <1>2 DEF At, Changing, Changes, TypeInv, RequestsOK, WellFormed
  <2> QED
    BY <1>4, <2>1 DEF Fail, disk
<1>5. Scanner \/ ScanFails \/ (\E x \in Reqs : Mislead(x)) => UNCHANGED disk
  BY DEF Scanner, StatFile, CheckHash, CheckTags, ScanFails, Mislead
<1> QED
  BY <1>1, <1>2, <1>3, <1>4, <1>5 DEF CalmStepOf

LEMMA AgreesStep ==
    ASSUME TypeInv, QuietInv, NEW x \in Reqs, Handle(x),
           x \notin Changing, x \notin Changing', x \in quiet \/ x \notin Readers
    PROVE  Agrees(node, cells, kind, req'[x])
<1> DEFINE p == req[x].p
           content == cells[node[p]]
<1>1. WellFormed(req[x]) /\ req[x] \in Requests /\ req \in [Reqs -> Requests]
  BY DEF TypeInv, RequestsOK, WellFormed
<1>2. req[x].op = "download" => Agrees(node, cells, kind, req[x])
  BY DEF Readers, QuietInv
<1>3. Finish(x) => Agrees(node, cells, kind, req'[x])
  BY FinishedReq DEF Idle, Request, Agrees
<1>4. CASE Begin(x)
  <2>1. PICK op, q, new, u : op \in DOMAIN First /\ Enter(x, op, q, new, u)
    BY <1>4 DEF Begin, First
  <2> DEFINE s == Request(op, First[op], q, new, u)
  <2>2. req'[x] = IF s.pc = "dirs" THEN WantDirs(s) ELSE s
    BY <1>1, <2>1 DEF Enter
  <2>3. s.pc = First[op] /\ WantDirs(s).pc = "dirs"
    BY DEF Request, WantDirs
  <2> HIDE DEF s
  <2>4. First[op] \notin {"reopen", "read", "answer"}
    BY <2>1 DEF First
  <2>5. req'[x].pc \notin {"reopen", "read", "answer"}
    BY <2>2, <2>3, <2>4
  <2> QED
    BY <2>5 DEF Agrees
<1>5. CASE FindFormat(x) /\ ~Finish(x)
  <2>1. /\ IsFile(p)
        /\ req' = [req EXCEPT ![x].pc = "reopen", ![x].format = format_of(content)]
    BY <1>5 DEF FindFormat
  <2>2. req'[x].pc = "reopen" /\ req'[x].format = format_of(content) /\ req'[x].p = p
    BY <1>1, <2>1 DEF Requests
  <2> QED
    BY <2>1, <2>2, FormatIs DEF Agrees, IsFile
<1>6. CASE Reopen(x) /\ ~Finish(x)
  <2>1. /\ IsFile(p) /\ req[x].pc = "reopen"
        /\ req' = [req EXCEPT ![x].pc = "read", ![x].file = node[p]]
    BY <1>6 DEF Reopen, At
  <2>2. req[x].op = "download" /\ req[x].got = <<>>
    BY <1>1, <2>1 DEF WellFormed
  <2>3. /\ req'[x].pc = "read" /\ req'[x].file = node[p] /\ req'[x].p = p
        /\ req'[x].format = req[x].format /\ req'[x].got = <<>>
    BY <1>1, <2>1, <2>2 DEF Requests
  <2>4. content \in Seq(Int) /\ Len(<<>>) = 0 /\ Len(content) \in Nat
    BY <2>1 DEF TypeInv, DiskOK, IsFile
  <2>5. req[x].format = FormatBy(kind, content) /\ node[p] \in Uploads
    BY <1>2, <2>1, <2>2 DEF Agrees, IsFile
  <2> QED
    BY <2>3, <2>4, <2>5 DEF Agrees
<1>7. CASE ReadCell(x) /\ ~Finish(x)
  <2> DEFINE at == Len(req[x].got) + 1
  <2>1. req[x].pc = "read"
    BY <1>7 DEF ReadCell, At
  <2>2. req[x].op = "download" /\ req[x].got \in Seq(Int)
    BY <1>1, <2>1 DEF WellFormed, Requests
  <2>3. /\ node[p] \in Uploads /\ req[x].format = FormatBy(kind, content)
        /\ req[x].file = node[p] /\ Len(req[x].got) <= Len(content)
        /\ \A j \in 1..Len(req[x].got) : req[x].got[j] = content[j]
    BY <1>2, <2>1, <2>2 DEF Agrees
  <2>4. content \in Seq(Int) /\ Len(content) \in Nat
    BY <2>3 DEF TypeInv, DiskOK
  <2>5. CASE at <= Len(content)
    <3> DEFINE got == Append(req[x].got, content[at])
    <3>1. req' = [req EXCEPT ![x].got = got]
      BY <1>7, <2>3, <2>5 DEF ReadCell
    <3>2. /\ req'[x].pc = "read" /\ req'[x].file = node[p] /\ req'[x].p = p
          /\ req'[x].format = req[x].format /\ req'[x].got = got
      BY <1>1, <2>1, <2>3, <3>1 DEF Requests
    <3>3. Len(got) <= Len(content) /\ \A j \in 1..Len(got) : got[j] = content[j]
      BY <2>2, <2>3, <2>4, <2>5, SMTT(30)
    <3> HIDE DEF got
    <3> QED
      BY <2>3, <3>2, <3>3 DEF Agrees
  <2>6. CASE ~(at <= Len(content))
    <3>1. req' = [req EXCEPT ![x] = Request("download", "answer", p, <<>>,
                                            decrypted(req[x].got, req[x].format))]
      BY <1>7, <2>3, <2>6 DEF ReadCell
    <3>2. /\ req'[x].pc = "answer" /\ req'[x].p = p
          /\ req'[x].u = decrypted(req[x].got, req[x].format)
      BY <1>1, <3>1 DEF Request
    <3>3. req[x].got = content
      <4> HIDE DEF p, content
      <4>1. Len(req[x].got) = Len(content)
        BY <2>2, <2>3, <2>4, <2>6
      <4>2. req[x].got \in [1..Len(content) -> Int] /\ content \in [1..Len(content) -> Int]
        BY <2>2, <2>4, <4>1
      <4>3. \A j \in 1..Len(content) : req[x].got[j] = content[j]
        BY <2>3, <4>1
      <4> QED
        BY <4>2, <4>3
    <3>4. req'[x].u = OpenedBy(kind, content, FormatBy(kind, content))
      BY <2>3, <3>2, <3>3, OpenedIs, FormatByType
    <3> QED
      BY <2>3, <3>2, <3>4 DEF Agrees, ContentBy
  <2> QED
    BY <2>5, <2>6
<1> QED
  BY <1>3, <1>4, <1>5, <1>6, <1>7, ReaderSteps DEF Answer

LEMMA QuietStep ==
    ASSUME TypeInv, QuietInv, [Next]_vars
    PROVE  QuietInv'
<1>1. CASE UNCHANGED vars
  BY <1>1 DEF vars, disk, history, QuietInv
<1>2. CASE Next /\ quiet' = {}
  BY <1>2 DEF QuietInv
<1>3. CASE Next /\ quiet' # {}
  <2>1. UNCHANGED <<node, cells, kind>> /\ Changing = {} /\ Changing' = {}
    BY <1>3, QuietDisk DEF disk
  <2>2. PICK m : /\ quiet' = {a \in Readers' \ m : a \in quiet \/ a \notin Readers}
                 /\ CalmStepOf(m)
    BY <1>3, QuietDisk
  <2>3. ASSUME NEW r \in Reqs, r \in quiet'
        PROVE  Agrees(node', cells', kind', req'[r])
    <3>1. r \in quiet \/ r \notin Readers
      BY <2>2, <2>3
    <3>2. ASSUME req'[r] = req[r]
          PROVE  Agrees(node', cells', kind', req'[r])
      <4>1. r \in Readers'
        BY <2>2, <2>3
      <4>2. req'[r].op = "download"
        BY <4>1 DEF Readers, Reqs
      <4>3. r \in Readers
        BY <3>2, <4>2 DEF Readers
      <4> QED
        BY <2>1, <3>1, <3>2, <4>3 DEF QuietInv
    <3>3. CASE \E x \in Reqs : Handle(x) \/ Fail(x)
      <4>1. PICK x \in Reqs : Handle(x) \/ Fail(x)
        BY <3>3
      <4>2. CASE x = r /\ Handle(x)
        BY <2>1, <3>1, <4>2, AgreesStep
      <4>3. CASE x = r /\ Fail(x)
        <5>1. req'[r] = Idle
          BY <4>3, FinishedReq DEF Fail
        <5> QED
          BY <5>1 DEF Idle, Request, Agrees
      <4>4. CASE x # r
        BY <3>2, <4>1, <4>4, OthersKept
      <4> QED
        BY <4>1, <4>2, <4>3, <4>4
    <3>4. CASE \E x \in Reqs : Mislead(x) /\ m = {x}
      <4>1. PICK x \in Reqs : Mislead(x) /\ m = {x}
        BY <3>4
      <4>2. x # r
        BY <2>2, <2>3, <4>1
      <4> QED
        BY <3>2, <4>1, <4>2, OthersKept
    <3>5. CASE Scanner \/ ScanFails
      <4>1. req' = req
        BY <3>5 DEF Scanner, StatFile, CheckHash, CheckTags, ScanFails
      <4> QED
        BY <3>2, <4>1
    <3> QED
      BY <2>2, <3>3, <3>4, <3>5 DEF CalmStepOf
  <2>4. ASSUME 0 \in quiet'
        PROVE  VisitAgrees(node', cells', kind', scan')
    <3>1. (0 \in quiet \/ 0 \notin Readers) /\ m # {0}
      BY <2>2, <2>4
    <3>2. scan.pc # "walk" => 0 \in quiet
      BY <3>1 DEF Readers
    <3>3. CASE \E x \in Reqs : Handle(x) \/ Fail(x) \/ Mislead(x)
      <4>1. scan' = scan
        BY <3>3, ScanKept
      <4>2. scan.pc = "decrypt" => VisitAgrees(node, cells, kind, scan)
        BY <3>2 DEF QuietInv
      <4> QED
        BY <2>1, <4>1, <4>2 DEF VisitAgrees
    <3>4. CASE StatFile \/ CheckTags
      <4>1. scan'.pc # "decrypt"
        BY <3>4 DEF StatFile, CheckTags, Walk, Report, Scan
      <4> QED
        BY <4>1 DEF VisitAgrees
    <3>5. CASE CheckHash
      <4>1. CASE Walk
        BY <4>1 DEF Walk, Scan, VisitAgrees
      <4>2. CASE Decrypt(format_of(cells[node[scan.p]]))
        <5>1. scan'.p = scan.p /\ scan'.format = format_of(cells[node[scan.p]])
          BY <4>2 DEF Decrypt, Scan
        <5> QED
          BY <2>1, <5>1, FormatIs DEF VisitAgrees
      <4> QED
        BY <3>5, <4>1, <4>2 DEF CheckHash, Report
    <3> QED
      BY <2>2, <3>1, <3>3, <3>4, <3>5 DEF CalmStepOf, Scanner
  <2> QED
    BY <2>3, <2>4 DEF QuietInv
<1> QED
  BY <1>1, <1>2, <1>3

ReadInv == TypeInv /\ Counts /\ QuietInv

LEMMA ReadInit == Init => ReadInv
<1>1. Init => Counts
  BY DEF Init, Counts
<1>2. Init => QuietInv
  BY DEF Init, QuietInv
<1> QED
  BY <1>1, <1>2, TypeInit DEF ReadInv

LEMMA ReadStep ==
    ASSUME ReadInv, [Next]_vars
    PROVE  ReadInv'
BY TypeStep, CountStep, QuietStep DEF ReadInv

(***************************************************************************)
(* QuietReads: a download looks for the format, opens the path again and   *)
(* reads it cell by cell.  If nothing changes meanwhile it answers with    *)
(* the upload that is stored there, and with an error only if none is or   *)
(* a call fails.                                                           *)
(***************************************************************************)
THEOREM QuietReadsAgree == Spec => []QuietReads
<1>1. ReadInv => QuietReads
  BY ContentIs DEF ReadInv, QuietInv, QuietReads, Agrees, At
<1> QED
  BY <1>1, ReadInit, ReadStep, PTL DEF Spec

(***************************************************************************)
(* ReportedForCause: verify_file_integrity_async fails a file that is left *)
(* alone during the visit only if it cannot be read, or a call fails.      *)
(***************************************************************************)
THEOREM ReportsHaveCause == Spec => ReportedForCause
<1>1. ASSUME ReadInv, [Next]_vars
      PROVE  [events' # events /\ 0 \in quiet /\ mishaps' = mishaps
                => ~Readable(scan.p)]_vars
  <2> SUFFICES ASSUME Next, events' # events, 0 \in quiet, mishaps' = mishaps
               PROVE  ~Readable(scan.p)
    BY <1>1 DEF vars
  <2> DEFINE content == cells[node[scan.p]]
  <2>1. CheckHash \/ CheckTags
    <3>1. ~ScanFails /\ ~Crash /\ ~Damage
      BY <1>1 DEF ReadInv, Counts, ScanFails, Crash, Damage
    <3> QED
      BY <3>1, ScanKept DEF Next, Scanner, StatFile
  <2>2. CASE ~IsFile(scan.p)
    BY <2>2 DEF Readable, Content
  <2>3. CASE IsFile(scan.p) /\ CheckHash
    <3>1. ~HashMatches(content)
      BY <2>3 DEF CheckHash, Decrypt
    <3>2. OpenedBy(kind, content, FormatBy(kind, content)) = 0
      <4>1. FormatBy(kind, content) # None
        BY FormatByType, NoneAssumption DEF Formats
      <4> HIDE DEF content
      <4> QED
        BY <3>1, <4>1 DEF OpenedBy, HashMatches, Whole
    <3> QED
      BY <3>2, ContentIs DEF Readable, ContentBy
  <2>4. CASE IsFile(scan.p) /\ CheckTags
    <3>1. decrypted(content, scan.format) = 0 /\ scan.pc = "decrypt"
      BY <2>4 DEF CheckTags
    <3>2. scan.format = FormatBy(kind, content)
      BY <1>1, <2>4, <3>1 DEF ReadInv, QuietInv, VisitAgrees, IsFile
    <3>3. OpenedBy(kind, content, FormatBy(kind, content)) = 0
      BY <3>1, <3>2, OpenedIs, FormatByType
    <3> QED
      BY <3>3, ContentIs DEF Readable, ContentBy
  <2> QED
    BY <2>1, <2>2, <2>3, <2>4
<1>2. ReadInv /\ [Next]_vars =>
        [events' # events /\ 0 \in quiet /\ mishaps' = mishaps => ~Readable(scan.p)]_vars
  BY <1>1
<1> QED
  BY <1>2, ReadInit, ReadStep, PTL DEF Spec, ReportedForCause

-----------------------------------------------------------------------------
(***************************************************************************)
(* FileStore implements FileTree: a change that runs alone happens at once *)
(* or not at all, and does what was asked.                                 *)
(***************************************************************************)

(***************************************************************************)
(* Paths.  Below is a strict order in which what lies above a path is a    *)
(* chain, and Moved carries a subtree to its new place.                    *)
(***************************************************************************)

LEMMA BelowMeans ==
    ASSUME NEW q \in Names, NEW p \in Names
    PROVE  Below(q, p) <=> Len(p) < Len(q) /\ \A k \in 1..Len(p) : q[k] = p[k]
<1>1. ASSUME Len(p) < Len(q)
      PROVE  /\ SubSeq(q, 1, Len(p)) \in Names /\ Len(SubSeq(q, 1, Len(p))) = Len(p)
             /\ \A k \in 1..Len(p) : SubSeq(q, 1, Len(p))[k] = q[k]
  <2>1. Len(p) \in Int /\ 1 \in Int /\ \A k \in 1..Len(p) : q[k] \in STRING
    BY <1>1 DEF Names
  <2> QED
    BY <1>1, <2>1, SubSeqProperties DEF Names
<1>2. ASSUME Below(q, p)
      PROVE  Len(p) < Len(q) /\ \A k \in 1..Len(p) : q[k] = p[k]
  BY <1>1, <1>2 DEF Below
<1>3. ASSUME Len(p) < Len(q), \A k \in 1..Len(p) : q[k] = p[k]
      PROVE  Below(q, p)
  <2>1. SubSeq(q, 1, Len(p)) = p
    BY <1>1, <1>3, SeqEqual DEF Names
  <2> QED
    BY <1>3, <2>1 DEF Below
<1> QED
  BY <1>2, <1>3

LEMMA BelowTransitive ==
    ASSUME NEW x \in Names, NEW y \in Names, NEW z \in Names, Below(z, y), Below(y, x)
    PROVE  Below(z, x)
<1>1. Len(x) \in Nat /\ Len(y) \in Nat /\ Len(z) \in Nat
  BY DEF Names
<1> QED
  BY <1>1, BelowMeans

LEMMA NotBelowItself == \A x : ~Below(x, x)
BY DEF Below

LEMMA AboveIsChain ==
    ASSUME NEW x \in Names, NEW y \in Names, NEW z \in Names, Below(z, y), Below(z, x)
    PROVE  x = y \/ Below(x, y) \/ Below(y, x)
<1>1. Len(x) \in Nat /\ Len(y) \in Nat /\ Len(z) \in Nat
  BY DEF Names
<1>2. /\ \A k \in 1..Len(x) : z[k] = x[k] /\ Len(x) < Len(z)
      /\ \A k \in 1..Len(y) : z[k] = y[k] /\ Len(y) < Len(z)
  BY BelowMeans
<1>3. CASE Len(x) = Len(y)
  BY <1>1, <1>2, <1>3, SeqEqual DEF Names
<1>4. CASE Len(x) < Len(y)
  BY <1>1, <1>2, <1>4, BelowMeans
<1>5. CASE Len(y) < Len(x)
  BY <1>1, <1>2, <1>5, BelowMeans
<1> QED
  BY <1>1, <1>3, <1>4, <1>5

LEMMA AtOrBelowMeans ==
    ASSUME NEW q \in Names, NEW p \in Names
    PROVE  AtOrBelow(q, p) <=> Len(p) <= Len(q) /\ \A k \in 1..Len(p) : q[k] = p[k]
<1>1. Len(p) \in Nat /\ Len(q) \in Nat
  BY DEF Names
<1>2. Len(p) = Len(q) /\ (\A k \in 1..Len(p) : q[k] = p[k]) => q = p
  BY SeqEqual DEF Names
<1> QED
  BY <1>1, <1>2, BelowMeans DEF AtOrBelow

\* What is moved keeps its names below the place that it is moved from.
LEMMA MovedMeans ==
    ASSUME NEW x \in Names, NEW old \in Names, NEW new \in Names, AtOrBelow(x, old)
    PROVE  /\ Moved(x, old, new) \in Names
           /\ Len(Moved(x, old, new)) = Len(new) + (Len(x) - Len(old))
           /\ \A k \in 1..Len(new) + (Len(x) - Len(old)) :
                 Moved(x, old, new)[k] =
                     IF k <= Len(new) THEN new[k] ELSE x[k - Len(new) + Len(old)]
<1> DEFINE rest == SubSeq(x, Len(old) + 1, Len(x))
<1>1. Len(old) \in Nat /\ Len(new) \in Nat /\ Len(x) \in Nat /\ Len(old) <= Len(x)
  BY AtOrBelowMeans DEF Names
<1>2. \A k \in Len(old) + 1..Len(x) : x[k] \in STRING
  BY <1>1 DEF Names
<1>3. /\ rest \in Names
      /\ Len(rest) = IF Len(old) + 1 <= Len(x) THEN Len(x) - (Len(old) + 1) + 1 ELSE 0
      /\ \A k \in 1..Len(x) - (Len(old) + 1) + 1 : rest[k] = x[Len(old) + 1 + k - 1]
  BY <1>1, <1>2, SubSeqProperties DEF Names
<1>4. Len(rest) = Len(x) - Len(old)
  BY <1>1, <1>3
<1> HIDE DEF rest
<1>5. /\ new \o rest \in Names /\ Len(new \o rest) = Len(new) + Len(rest)
      /\ \A k \in 1..Len(new) + Len(rest) :
            (new \o rest)[k] = IF k <= Len(new) THEN new[k] ELSE rest[k - Len(new)]
  BY <1>3, ConcatProperties DEF Names
<1>6. ASSUME NEW k \in 1..Len(new) + (Len(x) - Len(old)), ~(k <= Len(new))
      PROVE  rest[k - Len(new)] = x[k - Len(new) + Len(old)]
  <2>1. k - Len(new) \in 1..Len(x) - (Len(old) + 1) + 1
    BY <1>1, <1>6
  <2>2. Len(old) + 1 + (k - Len(new)) - 1 = k - Len(new) + Len(old)
    BY <1>1
  <2> QED
    BY <1>3, <2>1, <2>2
<1>7. ASSUME NEW k \in 1..Len(new) + (Len(x) - Len(old))
      PROVE  (new \o rest)[k] = IF k <= Len(new) THEN new[k] ELSE x[k - Len(new) + Len(old)]
  <2>1. (new \o rest)[k] = IF k <= Len(new) THEN new[k] ELSE rest[k - Len(new)]
    BY <1>4, <1>5
  <2> QED
    BY <1>6, <2>1
<1>8. Moved(x, old, new) = new \o rest
  BY DEF Moved, rest
<1> QED
  BY <1>4, <1>5, <1>7, <1>8

LEMMA MovedBelow ==
    ASSUME NEW x \in Names, NEW old \in Names, NEW new \in Names, AtOrBelow(x, old)
    PROVE  /\ Moved(x, old, new) \in Names
           /\ AtOrBelow(Moved(x, old, new), new)
<1>1. Len(old) \in Nat /\ Len(new) \in Nat /\ Len(x) \in Nat /\ Len(old) <= Len(x)
  BY AtOrBelowMeans DEF Names
<1> DEFINE m == Moved(x, old, new)
<1>2. /\ m \in Names /\ Len(m) = Len(new) + (Len(x) - Len(old))
      /\ \A k \in 1..Len(new) + (Len(x) - Len(old)) :
            m[k] = IF k <= Len(new) THEN new[k] ELSE x[k - Len(new) + Len(old)]
  BY MovedMeans
<1> HIDE DEF m
<1>3. ASSUME NEW k \in 1..Len(new)
      PROVE  m[k] = new[k]
  <2>1. k \in 1..Len(new) + (Len(x) - Len(old)) /\ k <= Len(new)
    BY <1>1
  <2> QED
    BY <1>2, <2>1
<1>4. Len(new) <= Len(m)
  BY <1>1, <1>2
<1>5. AtOrBelow(m, new)
  BY <1>2, <1>3, <1>4, AtOrBelowMeans
<1> QED
  BY <1>2, <1>5 DEF m

LEMMA MovedBack ==
    ASSUME NEW x \in Names, NEW old \in Names, NEW new \in Names, AtOrBelow(x, old)
    PROVE  Moved(Moved(x, old, new), new, old) = x
<1> DEFINE m == Moved(x, old, new)
           b == Moved(m, new, old)
<1>1. Len(old) \in Nat /\ Len(new) \in Nat /\ Len(x) \in Nat /\ Len(old) <= Len(x)
      /\ \A k \in 1..Len(old) : x[k] = old[k]
  BY AtOrBelowMeans DEF Names
<1>2. /\ m \in Names /\ AtOrBelow(m, new) /\ Len(m) = Len(new) + (Len(x) - Len(old))
      /\ \A k \in 1..Len(m) : m[k] = IF k <= Len(new) THEN new[k]
                                     ELSE x[k - Len(new) + Len(old)]
  BY MovedMeans, MovedBelow
<1> HIDE DEF m
<1>3. /\ b \in Names /\ Len(b) = Len(old) + (Len(m) - Len(new))
      /\ \A k \in 1..Len(old) + (Len(m) - Len(new)) :
            b[k] = IF k <= Len(old) THEN old[k] ELSE m[k - Len(old) + Len(new)]
  BY <1>2, MovedMeans
<1> HIDE DEF b
<1>4. Len(b) = Len(x)
  BY <1>1, <1>2, <1>3
<1>5. ASSUME NEW k \in 1..Len(b)
      PROVE  b[k] = x[k]
  <2>1. CASE k <= Len(old)
    BY <1>1, <1>2, <1>3, <1>4, <1>5, <2>1
  <2>2. CASE ~(k <= Len(old))
    <3>1. k - Len(old) + Len(new) \in 1..Len(m) /\ ~(k - Len(old) + Len(new) <= Len(new))
      BY <1>1, <1>2, <1>4, <1>5, <2>2
    <3>2. (k - Len(old) + Len(new)) - Len(new) + Len(old) = k
      BY <1>1
    <3>3. k \in 1..Len(old) + (Len(m) - Len(new))
      BY <1>1, <1>2, <1>3, <1>5
    <3>4. b[k] = m[k - Len(old) + Len(new)]
      BY <1>3, <2>2, <3>3
    <3> QED
      BY <1>2, <3>1, <3>2, <3>4
  <2> QED
    BY <2>1, <2>2
<1>6. b = x
  BY <1>3, <1>4, <1>5, SeqEqual DEF Names
<1> QED
  BY <1>6 DEF b, m

LEMMA MovedInOrder ==
    ASSUME NEW x \in Names, NEW y \in Names, NEW old \in Names, NEW new \in Names,
           AtOrBelow(x, old), AtOrBelow(y, old), Below(x, y)
    PROVE  Below(Moved(x, old, new), Moved(y, old, new))
<1> DEFINE m == Moved(x, old, new)
           n == Moved(y, old, new)
<1>1. /\ Len(old) \in Nat /\ Len(new) \in Nat /\ Len(x) \in Nat /\ Len(y) \in Nat
      /\ Len(old) <= Len(x) /\ Len(old) <= Len(y)
      /\ Len(y) < Len(x) /\ \A k \in 1..Len(y) : x[k] = y[k]
  BY AtOrBelowMeans, BelowMeans DEF Names
<1>2. /\ m \in Names /\ Len(m) = Len(new) + (Len(x) - Len(old))
      /\ \A k \in 1..Len(m) : m[k] = IF k <= Len(new) THEN new[k]
                                     ELSE x[k - Len(new) + Len(old)]
  BY MovedMeans
<1>3. /\ n \in Names /\ Len(n) = Len(new) + (Len(y) - Len(old))
      /\ \A k \in 1..Len(n) : n[k] = IF k <= Len(new) THEN new[k]
                                     ELSE y[k - Len(new) + Len(old)]
  BY MovedMeans
<1> HIDE DEF m, n
<1>4. ASSUME NEW k \in 1..Len(n)
      PROVE  m[k] = n[k]
  <2>1. k \in 1..Len(m)
    BY <1>1, <1>2, <1>3
  <2>2. CASE k <= Len(new)
    BY <1>2, <1>3, <2>1, <2>2
  <2>3. CASE ~(k <= Len(new))
    <3>1. k - Len(new) + Len(old) \in 1..Len(y)
      BY <1>1, <1>3, <2>3
    <3> QED
      BY <1>1, <1>2, <1>3, <2>1, <2>3, <3>1
  <2> QED
    BY <2>2, <2>3
<1>5. Below(m, n)
  BY <1>1, <1>2, <1>3, <1>4, BelowMeans
<1> QED
  BY <1>5 DEF m, n

LEMMA PathNames ==
    /\ Paths \subseteq Names
    /\ \A p \in Paths, y \in Names : Below(p, y) /\ y # <<>> => y \in Paths
<1>1. Paths \subseteq Names
  BY PathAssumption DEF Names
<1>2. ASSUME NEW p \in Paths, NEW y \in Names, Below(p, y), y # <<>>
      PROVE  y \in Paths
  <2>1. Len(p) \in Nat /\ Len(y) \in Nat /\ Len(y) < Len(p) /\ Len(y) # 0
    BY <1>1, <1>2, EmptySeq DEF Below, Names
  <2>2. Len(y) \in 1..Len(p) - 1
    BY <2>1
  <2> QED
    BY <1>2, <2>2, PathAssumption DEF Below
<1> QED
  BY <1>1, <1>2

(***************************************************************************)
(* What is seen of an inode.  The disk is a parameter, for it is compared  *)
(* before and after a step.                                                *)
(***************************************************************************)
FileEntry(c, k, i) == OpenedBy(k, c[i], FormatBy(k, c[i]))
EntryOf(c, k, i) ==
    IF i = Directory THEN Directory
    ELSE IF i \in Uploads THEN IF FileEntry(c, k, i) = 0 THEN Unreadable ELSE FileEntry(c, k, i)
    ELSE 0
TreeOf(n, c, k) == [x \in Paths |-> EntryOf(c, k, n[x])]
Trees == [Paths -> 0..Unreadable]

\* All cells come from the upload u.
Stores(c, k, i, u) ==
    k[u] \in Formats /\ c[i] = [j \in 1..CellCount[k[u]] |-> u]

\* The cells were written by uploads that have begun.
Known(c, k, i) ==
    c[i] \in Seq(Int) /\ \A j \in 1..Len(c[i]) : c[i][j] \in Uploads => k[c[i][j]] \in Formats

\* Directories are above everything, and no inode has two names.
Closed(n) == \A x, y \in Paths : n[x] # 0 /\ Below(x, y) => n[y] = Directory
Unshared(n) == \A x, y \in Paths : n[x] \in Uploads /\ n[x] = n[y] => x = y
Shape(n, c, k) ==
    /\ n \in [Paths -> 0..Directory] /\ Closed(n) /\ Unshared(n)
    /\ \A x \in Paths : n[x] \in Uploads => k[n[x]] \in Formats
    /\ \A i \in Uploads : Known(c, k, i)

Held(t, p) == \A y \in Paths : Below(p, y) => t[y] \in {0, Directory}
WithDirs(t, p) == [x \in Paths |-> IF Below(p, x) THEN Directory ELSE t[x]]

LEMMA OpenedType2 ==
    ASSUME NEW k, NEW content, NEW format
    PROVE  OpenedBy(k, content, format) \in 0..MaxUploads
BY Numbers DEF OpenedBy

LEMMA Unreadables ==
    Unreadable \in Nat /\ Unreadable = Directory + 1 /\ Unreadable \notin {0, Directory}
    /\ Unreadable \notin Uploads /\ 0..MaxUploads \subseteq 0..Unreadable
    /\ Directory \in 0..Unreadable /\ Unreadable \in 0..Unreadable /\ 0 \in 0..Unreadable
BY BoundAssumption DEF Unreadable, Directory, Uploads

\* What a whole file is taken for, in either format.
LEMMA Alike ==
    ASSUME NEW n \in Nat, n > 0, NEW u
    PROVE  /\ [j \in 1..n |-> u] # <<>> /\ [j \in 1..n |-> u][1] = u
           /\ [j \in 1..n |-> u] \in Seq({u}) /\ Len([j \in 1..n |-> u]) = n
<1> DEFINE s == [j \in 1..n |-> u]
<1>1. s \in [1..n -> {u}] /\ s[1] = u
  OBVIOUS
<1>2. s \in Seq({u}) /\ Len(s) = n
  <2> HIDE DEF s
  <2> QED
    BY <1>1
<1> HIDE DEF s
<1>3. s # <<>>
  BY <1>2, EmptySeq
<1> QED
  BY <1>1, <1>2, <1>3 DEF s

LEMMA WholeOpened ==
    ASSUME NEW k, NEW content, NEW u \in Uploads, k[u] \in Formats,
           content = [j \in 1..CellCount[k[u]] |-> u]
    PROVE  content # <<>> /\ content[1] = u /\ OpenedBy(k, content, k[u]) = u
<1>1. CellCount[k[u]] \in Nat /\ CellCount[k[u]] > 0
  BY CellCounts
<1>2. content # <<>> /\ content[1] = u
  BY <1>1, Alike
<1>3. ASSUME NEW v \in Uploads, k[v] = k[u], content = [j \in 1..CellCount[k[v]] |-> v]
      PROVE  v = u
  <2>1. content[1] = v
    BY <1>1, <1>3, Alike
  <2> QED
    BY <1>2, <2>1
<1>4. OpenedBy(k, content, k[u]) = u
  <2>1. \E v \in Uploads : k[v] = k[u] /\ content = [j \in 1..CellCount[k[v]] |-> v]
    OBVIOUS
  <2> QED
    BY <1>3, <2>1 DEF OpenedBy
<1> QED
  BY <1>2, <1>4

LEMMA StoresEntry ==
    ASSUME NEW c, NEW k, NEW i \in Uploads, NEW u \in Uploads, Stores(c, k, i, u)
    PROVE  EntryOf(c, k, i) = u
<1> DEFINE content == c[i]
<1>1. k[u] \in Formats /\ content = [j \in 1..CellCount[k[u]] |-> u]
  BY DEF Stores
<1> HIDE DEF content
<1>2. content # <<>> /\ content[1] = u /\ OpenedBy(k, content, k[u]) = u
  BY <1>1, WholeOpened
<1>3. FormatBy(k, content) = k[u]
  BY <1>1, <1>2 DEF FormatBy, Formats
<1> QED
  BY <1>2, <1>3, Numbers DEF EntryOf, FileEntry, content

\* Not all of a file, or a cell of no upload: it cannot be read.
WholeOf(content, k, u) == content = [j \in 1..CellCount[k[u]] |-> u]

LEMMA BrokenEntry ==
    ASSUME NEW c, NEW k, NEW i \in Uploads,
           \A u \in Uploads : k[u] \in Formats => ~WholeOf(c[i], k, u)
    PROVE  EntryOf(c, k, i) = Unreadable
<1>1. FormatBy(k, c[i]) \in Formats
  BY FormatByType
<1>2. FileEntry(c, k, i) = 0
  BY <1>1 DEF FileEntry, OpenedBy, WholeOf
<1> QED
  BY <1>2, Numbers DEF EntryOf

LEMMA EntryTypes ==
    ASSUME NEW c, NEW k, NEW i \in 0..Directory
    PROVE  /\ EntryOf(c, k, i) \in 0..Unreadable
           /\ EntryOf(c, k, i) = 0 <=> i = 0
           /\ EntryOf(c, k, i) = Directory <=> i = Directory
<1>1. CASE i \in Uploads
  <2>1. FileEntry(c, k, i) \in 0..MaxUploads /\ i # Directory /\ i # 0
    BY <1>1, OpenedType2, Numbers DEF FileEntry
  <2>2. EntryOf(c, k, i) \in Uploads \cup {Unreadable}
    BY <1>1, <2>1, Numbers DEF EntryOf
  <2> QED
    BY <1>1, <2>1, <2>2, Numbers, Unreadables
<1>2. CASE i \notin Uploads
  <2>1. i = 0 \/ i = Directory
    BY <1>2, Numbers
  <2> QED
    BY <1>2, <2>1, Numbers, Unreadables DEF EntryOf
<1> QED
  BY <1>1, <1>2

LEMMA NoFileEntry ==
    ASSUME NEW c, NEW k
    PROVE  EntryOf(c, k, 0) = 0 /\ EntryOf(c, k, Directory) = Directory
BY Numbers DEF EntryOf

\* Neither another inode's cells nor the format of a new upload matters.
LEMMA EntryKept ==
    ASSUME NEW c, NEW k, NEW d, NEW l, NEW i \in Uploads, Known(c, k, i), d[i] = c[i],
           \A v \in Uploads : k[v] \in Formats => l[v] = k[v]
    PROVE  Known(d, l, i) /\ EntryOf(d, l, i) = EntryOf(c, k, i)
<1> DEFINE content == c[i]
<1>1. /\ content \in Seq(Int)
      /\ \A j \in 1..Len(content) : content[j] \in Uploads => k[content[j]] \in Formats
  BY DEF Known
<1>2. Known(d, l, i)
  BY <1>1 DEF Known
<1> HIDE DEF content
<1>3. content # <<>> => 1 \in 1..Len(content)
  <2>1. Len(content) \in Nat /\ (Len(content) = 0 => content = <<>>)
    BY <1>1, EmptySeq
  <2> QED
    BY <2>1
<1>4. FormatBy(l, content) = FormatBy(k, content)
  BY <1>1, <1>3 DEF FormatBy
<1> DEFINE format == FormatBy(k, content)
<1>5. format \in Formats
  BY FormatByType
<1> HIDE DEF format
<1>6. OpenedBy(l, content, format) = OpenedBy(k, content, format)
  <2>1. CASE \E u \in Uploads : k[u] = format /\ content = [j \in 1..CellCount[k[u]] |-> u]
    <3>1. PICK u \in Uploads : k[u] = format /\ content = [j \in 1..CellCount[k[u]] |-> u]
      BY <2>1
    <3>2. l[u] = k[u]
      BY <1>5, <3>1
    <3>3. OpenedBy(k, content, format) = u
      BY <1>5, <3>1, WholeOpened
    <3>4. OpenedBy(l, content, format) = u
      BY <1>5, <3>1, <3>2, WholeOpened
    <3> QED
      BY <3>3, <3>4
  <2>2. CASE ~\E u \in Uploads : k[u] = format /\ content = [j \in 1..CellCount[k[u]] |-> u]
    <3>1. ASSUME NEW u \in Uploads, l[u] = format,
                 content = [j \in 1..CellCount[l[u]] |-> u]
          PROVE  FALSE
      <4>1. content # <<>> /\ content[1] = u
        BY <1>5, <3>1, WholeOpened, ZenonT(40)
      <4>2. k[u] \in Formats
        BY <1>1, <1>3, <4>1
      <4>3. l[u] = k[u]
        BY <4>2
      <4> QED
        BY <2>2, <3>1, <4>3
    <3>2. OpenedBy(l, content, format) = 0
      BY <3>1 DEF OpenedBy
    <3>3. OpenedBy(k, content, format) = 0
      BY <2>2 DEF OpenedBy
    <3> QED
      BY <3>2, <3>3
  <2> QED
    BY <2>1, <2>2
<1>7. FileEntry(d, l, i) = FileEntry(c, k, i)
  BY <1>4, <1>6 DEF FileEntry, content, format
<1> QED
  BY <1>2, <1>7 DEF EntryOf

TreeFact == Tree = TreeOf(node, cells, kind)

LEMMA TreeIs == TreeFact
<1> SUFFICES ASSUME NEW x \in Paths
             PROVE  (IF IsDir(x) THEN Directory
                     ELSE IF IsFile(x) /\ ~Readable(x) THEN Unreadable ELSE Content(x))
                       = EntryOf(cells, kind, node[x])
  BY DEF TreeFact, Tree, TreeOf
<1>1. Content(x) = IF IsFile(x) THEN FileEntry(cells, kind, node[x]) ELSE 0
  BY ContentIs DEF ContentBy, FileEntry, IsFile
<1> QED
  BY <1>1 DEF EntryOf, IsDir, IsFile, Readable

LEMMA TreeWillBe == TreeFact'
BY TreeIs, PTL

LEMMA AtomicIs ==
    /\ Atomic!Directory = Directory /\ Atomic!Unreadable = Unreadable
    /\ Atomic!Entries = 0..Unreadable
    /\ \A x, y : Atomic!Below(x, y) = Below(x, y) /\ Atomic!AtOrBelow(x, y) = AtOrBelow(x, y)
    /\ \A t, p : Atomic!CanHold(t, p) = Held(t, p) /\ Atomic!WithParents(t, p) = WithDirs(t, p)
    /\ \A t \in Trees : Atomic!WellShaped(t) <=> Closed(t)
<1>1. /\ Atomic!Directory = Directory /\ Atomic!Unreadable = Unreadable
      /\ Atomic!Entries = 0..Unreadable
  BY DEF Atomic!Directory, Directory, Atomic!Unreadable, Unreadable, Atomic!Entries
<1>2. ASSUME NEW x, NEW y
      PROVE  Atomic!Below(x, y) = Below(x, y) /\ Atomic!AtOrBelow(x, y) = AtOrBelow(x, y)
  BY DEF Atomic!Below, Below, Atomic!AtOrBelow, AtOrBelow
<1>3. ASSUME NEW t, NEW p
      PROVE  Atomic!CanHold(t, p) = Held(t, p) /\ Atomic!WithParents(t, p) = WithDirs(t, p)
  BY <1>1, <1>2 DEF Atomic!CanHold, Held, Atomic!WithParents, WithDirs
<1>4. ASSUME NEW t \in Trees
      PROVE  Atomic!WellShaped(t) <=> Closed(t)
  BY <1>1, <1>2 DEF Atomic!WellShaped, Closed
<1> QED
  BY <1>1, <1>2, <1>3, <1>4

\* A tree made of inodes that were there is as good.
LEMMA SameInodes ==
    ASSUME NEW n, NEW c, NEW k, NEW m, Shape(n, c, k),
           m \in [Paths -> 0..Directory], Closed(m), Unshared(m),
           \A x \in Paths : m[x] \in Uploads => \E y \in Paths : n[y] = m[x]
    PROVE  Shape(m, c, k)
BY DEF Shape

LEMMA ShapeEntries ==
    ASSUME NEW n, NEW c, NEW k, Shape(n, c, k), NEW x \in Paths
    PROVE  /\ TreeOf(n, c, k)[x] = EntryOf(c, k, n[x])
           /\ TreeOf(n, c, k)[x] \in 0..Unreadable
           /\ TreeOf(n, c, k)[x] = 0 <=> n[x] = 0
           /\ TreeOf(n, c, k)[x] = Directory <=> n[x] = Directory
<1>1. n[x] \in 0..Directory
  BY DEF Shape
<1>2. TreeOf(n, c, k)[x] = EntryOf(c, k, n[x])
  BY DEF TreeOf
<1> QED
  BY <1>1, <1>2, EntryTypes

LEMMA ShapeTree ==
    ASSUME NEW n, NEW c, NEW k, Shape(n, c, k)
    PROVE  TreeOf(n, c, k) \in Trees /\ Closed(TreeOf(n, c, k))
<1>1. \A x \in Paths : /\ TreeOf(n, c, k)[x] \in 0..Unreadable
                       /\ TreeOf(n, c, k)[x] = 0 <=> n[x] = 0
                       /\ TreeOf(n, c, k)[x] = Directory <=> n[x] = Directory
  BY ShapeEntries
<1>2. TreeOf(n, c, k) \in Trees
  <2>1. \A x \in Paths : EntryOf(c, k, n[x]) \in 0..Unreadable
    BY <1>1 DEF TreeOf
  <2> QED
    BY <2>1 DEF TreeOf, Trees
<1> QED
  BY <1>1, <1>2 DEF Shape, Closed

(***************************************************************************)
(* The way down to a directory.                                            *)
(***************************************************************************)
Top(w, l) == SubSeq(w, 1, l)

LEMMA TopMeans ==
    ASSUME NEW w \in Names, NEW l \in 0..Len(w)
    PROVE  /\ Top(w, l) \in Names /\ Len(Top(w, l)) = l
           /\ \A j \in 1..l : Top(w, l)[j] = w[j]
           /\ l = Len(w) => Top(w, l) = w
<1>1. Len(w) \in Nat /\ 1 \in 1..Len(w) + 1 /\ l \in 1 - 1..Len(w)
  BY DEF Names
<1>2. /\ Top(w, l) \in Seq(STRING) /\ Len(Top(w, l)) = l
      /\ \A j \in 1..l : Top(w, l)[j] = w[j]
  <2>1. /\ SubSeq(w, 1, l) \in Seq(STRING)
        /\ Len(SubSeq(w, 1, l)) = IF 1 <= l THEN l - 1 + 1 ELSE 0
        /\ \A j \in 1..l - 1 + 1 : SubSeq(w, 1, l)[j] = w[1 + j - 1]
    BY <1>1, SubSeqProperties DEF Names
  <2>2. \A j \in 1..l : 1 + j - 1 = j
    BY <1>1
  <2> QED
    BY <1>1, <2>1, <2>2 DEF Top
<1>3. ASSUME l = Len(w) PROVE Top(w, l) = w
  BY <1>2, <1>3, SeqEqual DEF Names
<1> QED
  BY <1>2, <1>3 DEF Names

LEMMA AboveIsTop ==
    ASSUME NEW w \in Names, NEW x \in Names, AtOrBelow(w, x)
    PROVE  Len(x) \in 0..Len(w) /\ x = Top(w, Len(x))
<1>1. Len(x) \in Nat /\ Len(w) \in Nat
  BY DEF Names
<1>2. CASE w = x
  BY <1>1, <1>2, TopMeans
<1>3. CASE Below(w, x)
  BY <1>1, <1>3 DEF Below, Top
<1> QED
  BY <1>2, <1>3 DEF AtOrBelow

LEMMA BelowTop ==
    ASSUME NEW w \in Names, NEW x \in Names, NEW l \in 0..Len(w)
    PROVE  /\ Below(Top(w, l), x) <=> AtOrBelow(w, x) /\ Len(x) < l
           /\ AtOrBelow(Top(w, l), x) <=> AtOrBelow(w, x) /\ Len(x) <= l
           /\ AtOrBelow(w, Top(w, l))
<1>1. Len(x) \in Nat /\ Len(w) \in Nat /\ l \in Nat /\ l <= Len(w)
  BY DEF Names
<1>2. /\ Top(w, l) \in Names /\ Len(Top(w, l)) = l
      /\ \A j \in 1..l : Top(w, l)[j] = w[j]
  BY TopMeans
<1>3. Below(Top(w, l), x) <=> Len(x) < l /\ \A j \in 1..Len(x) : Top(w, l)[j] = x[j]
  BY <1>2, BelowMeans
<1>4. AtOrBelow(w, x) <=> Len(x) <= Len(w) /\ \A j \in 1..Len(x) : w[j] = x[j]
  BY AtOrBelowMeans
<1>5. AtOrBelow(Top(w, l), x) <=> Len(x) <= l /\ \A j \in 1..Len(x) : Top(w, l)[j] = x[j]
  BY <1>2, AtOrBelowMeans
<1>6. Len(x) <= l => ((\A j \in 1..Len(x) : Top(w, l)[j] = x[j])
                        <=> \A j \in 1..Len(x) : w[j] = x[j])
  <2>1. ASSUME Len(x) <= l, NEW j \in 1..Len(x)
        PROVE  Top(w, l)[j] = w[j]
    BY <1>1, <1>2, <2>1
  <2> QED
    BY <2>1
<1>7. AtOrBelow(w, Top(w, l))
  <2>1. AtOrBelow(w, Top(w, l)) <=> l <= Len(w) /\ \A j \in 1..l : w[j] = Top(w, l)[j]
    BY <1>2, AtOrBelowMeans
  <2> QED
    BY <1>1, <1>2, <2>1
<1>8. Below(Top(w, l), x) <=> AtOrBelow(w, x) /\ Len(x) < l
  BY <1>1, <1>3, <1>4, <1>6
<1>9. AtOrBelow(Top(w, l), x) <=> AtOrBelow(w, x) /\ Len(x) <= l
  BY <1>1, <1>4, <1>5, <1>6
<1> QED
  BY <1>7, <1>8, <1>9

LEMMA PathLength ==
    ASSUME NEW x \in Paths
    PROVE  x \in Names /\ Len(x) \in Nat /\ Len(x) >= 1
<1>1. x \in Seq(STRING) /\ x # <<>>
  BY PathAssumption
<1> QED
  BY <1>1, EmptySeq DEF Names

\* A directory that can be wanted: the root or a path.
Way(w) == w \in Names /\ (w = <<>> \/ w \in Paths)

LEMMA TopPath ==
    ASSUME NEW w, Way(w), NEW l \in 1..Len(w)
    PROVE  Top(w, l) \in Paths
<1>1. w \in Names /\ Len(w) \in Nat /\ l \in 0..Len(w)
  BY DEF Way, Names
<1>2. w \in Paths
  <2>1. Len(w) # 0
    BY <1>1
  <2> QED
    BY <2>1, EmptySeq DEF Way
<1>3. Top(w, l) \in Names /\ Len(Top(w, l)) = l /\ AtOrBelow(w, Top(w, l))
  BY <1>1, TopMeans, BelowTop
<1>4. Top(w, l) # <<>>
  BY <1>1, <1>3, EmptySeq
<1> QED
  BY <1>2, <1>3, <1>4, PathNames DEF AtOrBelow

\* What the directory is wanted for.
Target(q) == IF q.op = "rename" THEN q.new ELSE q.p

LEMMA WantedMeans ==
    ASSUME NEW q, WellFormed(q), q.op \in Makers
    PROVE  /\ Way(Wanted(q)) /\ Target(q) \in Paths
           /\ Len(Wanted(q)) \in Nat /\ Len(Wanted(q)) <= Len(Target(q))
           /\ q.op = "mkdir" => Wanted(q) = Target(q)
           /\ q.op # "mkdir" => Len(Wanted(q)) < Len(Target(q))
                /\ \A x \in Paths : AtOrBelow(Wanted(q), x) <=> Below(Target(q), x)
<1>1. q.op \in {"upload", "mkdir", "rename"} /\ Target(q) \in Paths
  BY NoneAssumption DEF WellFormed, Makers, Target
<1>2. /\ q.op = "mkdir" => Wanted(q) = Target(q)
      /\ q.op # "mkdir" => Wanted(q) = Parent(Target(q))
  BY <1>1 DEF Wanted, Target
<1> DEFINE p == Target(q)
<1> HIDE DEF p
<1>3. p \in Paths /\ p \in Names /\ Len(p) \in Nat /\ Len(p) >= 1
  BY <1>1, PathLength DEF p
<1>4. /\ Parent(p) \in Names /\ Len(Parent(p)) = Len(p) - 1
      /\ \A x \in Names : AtOrBelow(Parent(p), x) <=> Below(p, x)
  <2>1. Parent(p) = Top(p, Len(p) - 1) /\ Len(p) - 1 \in 0..Len(p) /\ Len(p) \in 0..Len(p)
    BY <1>3 DEF Parent, Top
  <2>2. Top(p, Len(p)) = p
    BY <1>3, <2>1, TopMeans
  <2>3. ASSUME NEW x \in Names
        PROVE  AtOrBelow(Parent(p), x) <=> Below(p, x)
    <3>1. Below(p, x) <=> AtOrBelow(p, x) /\ Len(x) < Len(p)
      BY <1>3, <2>1, <2>2, BelowTop
    <3>2. AtOrBelow(Parent(p), x) <=> AtOrBelow(p, x) /\ Len(x) <= Len(p) - 1
      BY <1>3, <2>1, BelowTop
    <3> QED
      BY <1>3, <3>1, <3>2 DEF Names
  <2> QED
    BY <1>3, <2>1, <2>3, TopMeans
<1>5. Parent(p) = <<>> \/ Parent(p) \in Paths
  <2>1. AtOrBelow(Parent(p), Parent(p))
    BY DEF AtOrBelow
  <2>2. Below(p, Parent(p))
    BY <1>4, <2>1
  <2> QED
    BY <1>3, <1>4, <2>2, PathNames
<1>6. CASE q.op = "mkdir"
  BY <1>2, <1>3, <1>6 DEF p, Way
<1>7. CASE q.op # "mkdir"
  BY <1>2, <1>3, <1>4, <1>5, <1>7, PathNames DEF p, Way
<1> QED
  BY <1>6, <1>7

(***************************************************************************)
(* How far the request q has come on the tree t that it found: it has made *)
(* the directories up to some length, written some cells, deleted some of  *)
(* what it was to delete.                                                  *)
(***************************************************************************)
Opens(t, w, l) ==
    [x \in Paths |-> IF AtOrBelow(w, x) /\ Len(x) <= l THEN Directory ELSE t[x]]
HeldTo(t, w, l) == \A x \in Paths : AtOrBelow(w, x) /\ Len(x) <= l => t[x] \in {0, Directory}
Missing(t, w, l) == \A x \in Paths : AtOrBelow(w, x) /\ Len(x) > l => t[x] = 0

MakeProgress(n, c, k, t, q) ==
    /\ q.level \in 0..Len(Wanted(q))
    /\ q.pc = "dirs" => TreeOf(n, c, k) = t /\ Missing(t, Wanted(q), q.level)
    /\ q.pc = "climb" => /\ q.level # 0
                         /\ TreeOf(n, c, k) = Opens(t, Wanted(q), q.level - 1)
                         /\ HeldTo(t, Wanted(q), q.level - 1)
                         /\ Missing(t, Wanted(q), q.level - 1)

UploadProgress(n, c, k, t, q) ==
    /\ q.pc \in {"dirs", "climb", "create"} => \A x \in Paths : n[x] # q.u
    /\ q.pc \in {"create", "write"} => Held(t, q.p)
    /\ q.pc = "create" => TreeOf(n, c, k) = WithDirs(t, q.p)
    /\ q.pc = "write" =>
          /\ t[q.p] # Directory /\ n[q.p] = q.file /\ c[q.file] = q.got
          /\ \A j \in 1..Len(q.got) : q.got[j] = q.u
          /\ Len(q.got) < CellCount[k[q.u]]
          /\ \A x \in Paths \ {q.p} : TreeOf(n, c, k)[x] = WithDirs(t, q.p)[x]

\* An entry is noted for what it is, those above it wait for it, and what is
\* not noted lies below a directory that has not been read.
Noted(n, p, todo) ==
    /\ todo \in [Paths -> Tasks] /\ todo[p] # "keep"
    /\ \A x \in Paths : todo[x] # "keep" =>
          /\ AtOrBelow(x, p) /\ n[x] # 0
          /\ todo[x] = "unlink" <=> n[x] # Directory
Ordered(p, todo) ==
    \A x, y \in Paths : todo[x] # "keep" /\ Below(x, y) /\ AtOrBelow(y, p) => todo[y] = "rmdir"
Covered(n, p, todo) ==
    \A x \in Paths : AtOrBelow(x, p) /\ n[x] # 0 =>
        todo[x] # "keep" \/ \E y \in Paths : Below(x, y) /\ todo[y] = "open"

Clearing(n, p, todo) == Noted(n, p, todo) /\ Ordered(p, todo) /\ Covered(n, p, todo)

DeleteProgress(n, c, k, t, q) ==
    /\ q.pc = "stat" => \A x \in Paths : q.todo[x] = "keep"
    /\ q.pc = "remove" =>
          /\ \A x \in Paths : \/ TreeOf(n, c, k)[x] = t[x]
                              \/ Below(x, q.p) /\ TreeOf(n, c, k)[x] = 0
          /\ Clearing(n, q.p, q.todo)

RenameProgress(n, c, k, t, q) ==
    /\ q.pc \in {"dest", "dirs", "climb", "rename"} => t[q.p] # 0
    /\ q.pc \in {"dirs", "climb", "rename"} => t[q.new] = 0
    /\ q.pc = "rename" => Held(t, q.new) /\ TreeOf(n, c, k) = WithDirs(t, q.new)

Progress(n, c, k, t, q) ==
    /\ t \in Trees /\ Closed(t) /\ Shape(n, c, k)
    /\ q.pc \in {"stat", "source", "dest"} => TreeOf(n, c, k) = t
    /\ q.pc \in {"dirs", "climb"} => MakeProgress(n, c, k, t, q)
    /\ q.op = "upload" => UploadProgress(n, c, k, t, q)
    /\ q.op = "delete" => DeleteProgress(n, c, k, t, q)
    /\ q.op = "rename" => RenameProgress(n, c, k, t, q)

TreeInv ==
    calm => /\ \A r, s \in Changing : r = s
            /\ \A r \in Changing : Progress(node, cells, kind, was, req[r])
            /\ Changing = {} => Shape(node, cells, kind)

(***************************************************************************)
(* A step of the request r either answers, with the tree that was asked    *)
(* for, or goes on; and when a call fails it ends with a part of that.     *)
(***************************************************************************)
Ends(n, c, k, t, q) == Shape(n, c, k) /\ TreeOf(n, c, k) = Result(q, t)

Handled(r) ==
    \/ req'[r] = Idle /\ Ends(node', cells', kind', was, req[r])
    \/ req'[r].op = req[r].op /\ Progress(node', cells', kind', was, req'[r])

FailsInPart(r) ==
    /\ req'[r] = Idle /\ Shape(node', cells', kind')
    /\ TreeOf(node', cells', kind') \in Parts(req[r], was)

LEMMA Changer ==
    ASSUME TypeInv, NEW r \in Reqs, r \in Changing
    PROVE  /\ WellFormed(req[r]) /\ req[r] \in Requests /\ req \in [Reqs -> Requests]
           /\ req[r].op \in Changes /\ req[r].p \in Paths
           /\ req[r].op = "rename" => req[r].new \in Paths
           /\ req[r].op = "upload" => req[r].u \in Uploads /\ kind[req[r].u] \in Formats
           /\ node \in [Paths -> 0..Directory] /\ kind \in [Uploads -> Formats \cup {None}]
           /\ cells \in [Uploads -> Seq(Int)]
<1>1. WellFormed(req[r]) /\ req[r] \in Requests /\ req \in [Reqs -> Requests]
  BY DEF TypeInv, RequestsOK, WellFormed
<1>2. req[r].op \in Changes
  BY DEF Changing
<1>3. None \notin Changes
  BY NoneAssumption DEF Changes
<1> QED
  BY <1>1, <1>2, <1>3 DEF WellFormed, TypeInv, RequestsOK, DiskOK

LEMMA OutcomeIs ==
    ASSUME NEW t, NEW q
    PROVE  /\ q.op = "upload" => Result(q, t) = Atomic!AfterUpload(t, q.p, q.u)
           /\ q.op = "mkdir" => Result(q, t) = Atomic!AfterMkdir(t, q.p)
           /\ q.op = "delete" => Result(q, t) = Atomic!AfterDelete(t, q.p)
           /\ q.op = "rename" => Result(q, t) = Atomic!AfterRename(t, q.p, q.new)
BY DEF Result

LEMMA PartsIs ==
    ASSUME NEW t, NEW q
    PROVE  /\ q.op = "upload" => Parts(q, t) = Atomic!PartsOfUpload(t, q.p)
           /\ q.op = "mkdir" => Parts(q, t) = Atomic!PartsOfMkdir(t, q.p)
           /\ q.op = "delete" => Parts(q, t) = Atomic!PartsOfDelete(t, q.p)
           /\ q.op = "rename" => Parts(q, t) = Atomic!PartsOfRename(t, q.p, q.new)
BY DEF Parts

LEMMA Gone ==
    ASSUME NEW t, NEW q
    PROVE  /\ q.op = "upload" /\ (~Held(t, q.p) \/ t[q.p] = Directory) => Result(q, t) = t
           /\ q.op = "mkdir" /\ (~Held(t, q.p) \/ t[q.p] \notin {0, Directory})
                  => Result(q, t) = t
           /\ q.op = "rename" /\ (t[q.p] = 0 \/ t[q.new] # 0 \/ ~Held(t, q.new))
                  => Result(q, t) = t
BY OutcomeIs, AtomicIs DEF Atomic!AfterUpload, Atomic!AfterMkdir, Atomic!AfterRename

(***************************************************************************)
(* create_dir_all.                                                         *)
(***************************************************************************)
\* The directory at length l is made, or was there; all above it are.
MakesLevel(n, c, k, t, w, l, m) ==
    /\ Shape(n, c, k) /\ t \in Trees /\ Way(w) /\ l \in 1..Len(w)
    /\ n[Top(w, l)] \in {0, Directory}
    /\ \A x \in Paths : Below(Top(w, l), x) => n[x] = Directory
    /\ TreeOf(n, c, k) = Opens(t, w, l - 1) /\ HeldTo(t, w, l - 1)
    /\ m \in [Paths -> 0..Directory]
    /\ \A x \in Paths : m[x] = IF x = Top(w, l) THEN Directory ELSE n[x]

LEMMA AtTop ==
    ASSUME NEW w, Way(w), NEW l \in 1..Len(w), NEW x \in Paths
    PROVE  /\ AtOrBelow(w, x) /\ Len(x) <= l <=> x = Top(w, l) \/ (AtOrBelow(w, x) /\ Len(x) <= l - 1)
           /\ x = Top(w, l) => AtOrBelow(w, x) /\ Len(x) = l
<1>1. /\ w \in Names /\ Len(w) \in Nat /\ l \in 0..Len(w) /\ x \in Names /\ Len(x) \in Nat
  BY PathLength DEF Way, Names
<1>2. Len(Top(w, l)) = l /\ AtOrBelow(w, Top(w, l))
  BY <1>1, TopMeans, BelowTop
<1>3. AtOrBelow(w, x) => x = Top(w, Len(x))
  BY <1>1, AboveIsTop
<1> QED
  BY <1>1, <1>2, <1>3

LEMMA MakeLevel ==
    ASSUME NEW n, NEW c, NEW k, NEW t, NEW w, NEW l, NEW m,
           MakesLevel(n, c, k, t, w, l, m)
    PROVE  Shape(m, c, k) /\ TreeOf(m, c, k) = Opens(t, w, l) /\ HeldTo(t, w, l)
<1> DEFINE q == Top(w, l)
<1>1. /\ Shape(n, c, k) /\ q \in Paths /\ n[q] \in {0, Directory} /\ l \in 1..Len(w) /\ Way(w)
      /\ \A x \in Paths : Below(q, x) => n[x] = Directory
      /\ TreeOf(n, c, k) = Opens(t, w, l - 1) /\ HeldTo(t, w, l - 1)
  BY TopPath DEF MakesLevel
<1>2. \A x \in Paths : /\ AtOrBelow(w, x) /\ Len(x) <= l <=>
                             x = q \/ (AtOrBelow(w, x) /\ Len(x) <= l - 1)
                       /\ x = q => AtOrBelow(w, x) /\ Len(x) = l
  BY <1>1, AtTop
<1>3. l \in Nat
  BY <1>1 DEF Way, Names
<1> HIDE DEF q
<1>4. n \in [Paths -> 0..Directory] /\ Closed(n) /\ Unshared(n) /\ Directory \in 0..Directory
  BY <1>1, Numbers DEF Shape
<1>5. m \in [Paths -> 0..Directory] /\ \A x \in Paths : m[x] = IF x = q THEN Directory ELSE n[x]
  BY DEF q, MakesLevel
<1>6. Closed(m)
  <2> SUFFICES ASSUME NEW x \in Paths, NEW y \in Paths, m[x] # 0, Below(x, y)
               PROVE  m[y] = Directory
    BY DEF Closed
  <2>1. CASE x = q
    BY <1>1, <1>5, <2>1
  <2>2. CASE x # q
    BY <1>4, <1>5, <2>2 DEF Closed
  <2> QED
    BY <2>1, <2>2
<1>7. Unshared(m) /\ \A x \in Paths : m[x] \in Uploads => n[x] = m[x]
  BY <1>4, <1>5, Numbers DEF Unshared
<1>8. Shape(m, c, k)
  BY <1>1, <1>5, <1>6, <1>7, SameInodes
<1>9. \A x \in Paths : EntryOf(c, k, n[x]) = Opens(t, w, l - 1)[x]
  BY <1>1, ShapeEntries
<1>10. \A x \in Paths : EntryOf(c, k, m[x]) = Opens(t, w, l)[x]
  BY <1>2, <1>5, <1>9, NoFileEntry DEF Opens
<1>11. TreeOf(m, c, k) = Opens(t, w, l)
  BY <1>10 DEF TreeOf, Opens
<1>12. HeldTo(t, w, l)
  <2>1. t[q] \in {0, Directory}
    <3>1. Opens(t, w, l - 1)[q] = t[q]
      BY <1>1, <1>2, <1>3 DEF Opens
    <3>2. TreeOf(n, c, k)[q] \in {0, Directory}
      BY <1>1, ShapeEntries
    <3> QED
      BY <1>1, <3>1, <3>2
  <2> QED
    BY <1>1, <1>2, <2>1 DEF HeldTo
<1> QED
  BY <1>8, <1>11, <1>12

\* With all directories that are wanted, the request has ended or goes on.
LEMMA AllMade ==
    ASSUME NEW q, WellFormed(q), q.op \in Makers, NEW t \in Trees, Closed(t),
           HeldTo(t, Wanted(q), Len(Wanted(q)))
    PROVE  /\ q.op = "mkdir" => Result(q, t) = Opens(t, Wanted(q), Len(Wanted(q)))
           /\ q.op # "mkdir" => Held(t, Target(q))
                 /\ Opens(t, Wanted(q), Len(Wanted(q))) = WithDirs(t, Target(q))
<1> DEFINE w == Wanted(q)
           p == Target(q)
<1>1. /\ Way(w) /\ p \in Paths /\ Len(w) \in Nat
      /\ q.op = "mkdir" => w = p
      /\ q.op # "mkdir" => \A x \in Paths : AtOrBelow(w, x) <=> Below(p, x)
  BY WantedMeans
<1> HIDE DEF w, p
<1>2. \A x \in Paths : AtOrBelow(w, x) => Len(x) <= Len(w)
  BY <1>1, AboveIsTop, PathLength DEF Way
<1>3. ASSUME q.op = "mkdir"
      PROVE  Result(q, t) = Opens(t, w, Len(w))
  <2>1. q.p = p /\ w = p
    BY <1>1, <1>3 DEF p, Target
  <2>2. Held(t, p) /\ t[p] \in {0, Directory}
    BY <1>1, <1>2, <2>1 DEF HeldTo, Held, AtOrBelow, w
  <2>3. Result(q, t) = [WithDirs(t, p) EXCEPT ![p] = Directory]
    BY <1>3, <2>1, <2>2, OutcomeIs, AtomicIs DEF Atomic!AfterMkdir
  <2>4. \A x \in Paths : [WithDirs(t, p) EXCEPT ![p] = Directory][x] = Opens(t, w, Len(w))[x]
    BY <1>1, <1>2, <2>1 DEF WithDirs, Opens, AtOrBelow
  <2> QED
    BY <2>3, <2>4 DEF WithDirs, Opens
<1>4. ASSUME q.op # "mkdir"
      PROVE  Held(t, p) /\ Opens(t, w, Len(w)) = WithDirs(t, p)
  <2>1. \A x \in Paths : AtOrBelow(w, x) /\ Len(x) <= Len(w) <=> Below(p, x)
    BY <1>1, <1>2, <1>4
  <2> QED
    BY <2>1 DEF HeldTo, Held, Opens, WithDirs, w
<1> QED
  BY <1>3, <1>4 DEF w, p

\* A file in the way of the directory that is wanted is in the way of it all.
LEMMA InTheWay ==
    ASSUME NEW q, WellFormed(q), q.op \in Makers, NEW t, NEW x \in Paths,
           AtOrBelow(Wanted(q), x), t[x] \notin {0, Directory}
    PROVE  Result(q, t) = t
<1>1. /\ q.op = "mkdir" => Wanted(q) = Target(q)
      /\ q.op # "mkdir" => Below(Target(q), x)
  BY WantedMeans
<1>2. CASE q.op = "mkdir"
  <2>1. q.p = Wanted(q)
    BY <1>1, <1>2 DEF Target
  <2>2. x = q.p \/ Below(q.p, x)
    BY <2>1 DEF AtOrBelow
  <2> QED
    BY <1>2, <2>2, Gone DEF Held
<1>3. CASE q.op = "upload"
  BY <1>1, <1>3, Gone DEF Held, Target
<1>4. CASE q.op = "rename"
  BY <1>1, <1>4, Gone DEF Held, Target
<1> QED
  BY <1>2, <1>3, <1>4 DEF Makers

\* The request as it goes on with the directories.
LEMMA ReqMoves ==
    ASSUME TypeInv, NEW r \in Reqs, NEW pc \in Pcs, NEW l \in Nat,
           req' = [req EXCEPT ![r].pc = pc, ![r].level = l]
    PROVE  /\ req'[r].pc = pc /\ req'[r].level = l /\ req'[r].op = req[r].op
           /\ req'[r].p = req[r].p /\ req'[r].new = req[r].new /\ req'[r].u = req[r].u
           /\ Wanted(req'[r]) = Wanted(req[r])
<1>1. req[r] \in Requests /\ req \in [Reqs -> Requests]
  BY DEF TypeInv, RequestsOK
<1> DEFINE q == req[r]
           s == [q EXCEPT !.pc = pc, !.level = l]
<1>2. req'[r] = s
  BY <1>1
<1>3. /\ s.pc = pc /\ s.level = l /\ s.op = q.op /\ s.p = q.p /\ s.new = q.new /\ s.u = q.u
  BY <1>1 DEF Requests
<1> HIDE DEF s, q
<1>4. Wanted(s) = Wanted(q)
  BY <1>3 DEF Wanted
<1> QED
  BY <1>2, <1>3, <1>4 DEF q

\* Where the step does not end with an error or look further up.
MakesOne(r) ==
    LET w == Wanted(req[r])
        l == req[r].level
    IN  /\ \/ l = 0 /\ UNCHANGED node
           \/ l # 0 /\ node' = [node EXCEPT ![Top(w, l)] = Directory]
        /\ IF l < Len(w)
           THEN req' = [req EXCEPT ![r].pc = "climb", ![r].level = l + 1]
           ELSE IF req[r].op = "mkdir" THEN Finish(r) ELSE Goto(r, After(req[r]))

LEMMA ReqGoes ==
    ASSUME TypeInv, NEW r \in Reqs, NEW pc \in Pcs, Goto(r, pc)
    PROVE  /\ req'[r].pc = pc /\ req'[r].op = req[r].op
           /\ req'[r].p = req[r].p /\ req'[r].new = req[r].new /\ req'[r].u = req[r].u
           /\ req'[r].file = req[r].file /\ req'[r].got = req[r].got
<1>1. req[r] \in Requests /\ req \in [Reqs -> Requests]
  BY DEF TypeInv, RequestsOK
<1>2. req'[r] = [req[r] EXCEPT !.pc = pc]
  BY <1>1 DEF Goto
<1> QED
  BY <1>1, <1>2 DEF Requests

LEMMA UpAndDown ==
    ASSUME NEW i \in Nat, NEW j, j = i + 1
    PROVE  j - 1 = i
OBVIOUS

LEMMA LevelMade ==
    ASSUME TypeInv, NEW r \in Reqs, r \in Changing, req[r].pc \in {"dirs", "climb"},
           Progress(node, cells, kind, was, req[r]), MakesOne(r),
           UNCHANGED <<cells, kind>>,
           Shape(node', cells, kind),
           TreeOf(node', cells, kind) = Opens(was, Wanted(req[r]), req[r].level),
           HeldTo(was, Wanted(req[r]), req[r].level),
           Missing(was, Wanted(req[r]), req[r].level)
    PROVE  Handled(r)
<1> DEFINE w == Wanted(req[r])
           l == req[r].level
<1>1. /\ WellFormed(req[r]) /\ req[r].op \in Makers /\ was \in Trees /\ Closed(was)
      /\ l \in 0..Len(w) /\ l \in Nat /\ Way(w) /\ Len(w) \in Nat
  BY Changer, WantedMeans DEF WellFormed, Progress, MakeProgress
<1>2. req[r].op = "upload" => \A x \in Paths : node'[x] # req[r].u
  <2> SUFFICES ASSUME req[r].op = "upload", NEW x \in Paths
               PROVE  node'[x] # req[r].u
    OBVIOUS
  <2>1. node[x] # req[r].u /\ req[r].u # Directory
    BY Changer, Numbers DEF Progress, UploadProgress
  <2>2. node'[x] = node[x] \/ node'[x] = Directory
    BY Changer DEF MakesOne
  <2> QED
    BY <2>1, <2>2
<1>3. req[r].op = "rename" => was[req[r].p] # 0 /\ was[req[r].new] = 0
  BY DEF Progress, RenameProgress
<1>4. CASE l < Len(w)
  <2>1. req' = [req EXCEPT ![r].pc = "climb", ![r].level = l + 1]
    BY <1>4 DEF MakesOne
  <2>2. "climb" \in Pcs /\ l + 1 \in Nat /\ l + 1 \in 0..Len(w) /\ l + 1 - 1 = l /\ l + 1 # 0
    BY <1>1, <1>4 DEF Pcs
  <2>3. /\ req'[r].pc = "climb" /\ req'[r].level = l + 1 /\ req'[r].op = req[r].op
        /\ req'[r].p = req[r].p /\ req'[r].new = req[r].new /\ req'[r].u = req[r].u
        /\ Wanted(req'[r]) = w
    BY <2>1, <2>2, ReqMoves
  <2>4. MakeProgress(node', cells', kind', was, req'[r])
    <3>1. /\ TreeOf(node', cells', kind') = Opens(was, w, l)
          /\ HeldTo(was, w, l) /\ Missing(was, w, l)
      OBVIOUS
    <3>2. /\ req'[r].level = l + 1 /\ l + 1 \in 0..Len(w) /\ l + 1 - 1 = l /\ l + 1 # 0
          /\ req'[r].pc = "climb" /\ Wanted(req'[r]) = w
      BY <2>2, <2>3
    <3>3. cells' = cells /\ kind' = kind /\ l \in Nat
      BY <1>1
    <3> HIDE DEF l, w
    <3>4. req'[r].level - 1 = l
      BY <3>2, <3>3, UpAndDown
    <3> QED
      BY <3>1, <3>2, <3>3, <3>4 DEF MakeProgress
  <2>5. /\ req'[r].op = "upload" => UploadProgress(node', cells', kind', was, req'[r])
        /\ req'[r].op = "rename" => RenameProgress(node', cells', kind', was, req'[r])
        /\ req'[r].op # "delete"
    BY <1>1, <1>2, <1>3, <2>3 DEF UploadProgress, RenameProgress, Makers
  <2> QED
    BY <1>1, <2>3, <2>4, <2>5 DEF Handled, Progress
<1>5. CASE ~(l < Len(w))
  <2>1. l = Len(w)
    BY <1>1, <1>5
  <2>2. /\ req[r].op = "mkdir" => Result(req[r], was) = Opens(was, w, Len(w))
        /\ req[r].op # "mkdir" => Held(was, Target(req[r]))
              /\ Opens(was, w, Len(w)) = WithDirs(was, Target(req[r]))
    BY <1>1, <2>1, AllMade
  <2>3. CASE req[r].op = "mkdir"
    <3>1. req'[r] = Idle
      BY <1>5, <2>3, FinishedReq DEF MakesOne
    <3> QED
      BY <2>1, <2>2, <2>3, <3>1 DEF Handled, Ends
  <2>4. CASE req[r].op # "mkdir"
    <3>1. Goto(r, After(req[r]))
      BY <1>5, <2>4 DEF MakesOne
    <3>2. \/ req[r].op = "upload" /\ After(req[r]) = "create" /\ Target(req[r]) = req[r].p
          \/ req[r].op = "rename" /\ After(req[r]) = "rename" /\ Target(req[r]) = req[r].new
      BY <1>1, <2>4 DEF Makers, After, Target
    <3>3. After(req[r]) \in Pcs
      BY <3>2 DEF Pcs
    <3>4. /\ req'[r].pc = After(req[r]) /\ req'[r].op = req[r].op
          /\ req'[r].p = req[r].p /\ req'[r].new = req[r].new /\ req'[r].u = req[r].u
      BY <3>1, <3>3, ReqGoes
    <3>5. CASE req[r].op = "upload"
      <4>1. req'[r].pc = "create" /\ Target(req[r]) = req[r].p
        BY <3>2, <3>4, <3>5
      <4>2. UploadProgress(node', cells', kind', was, req'[r])
        BY <1>2, <2>1, <2>2, <2>4, <3>4, <3>5, <4>1 DEF UploadProgress
      <4> QED
        BY <1>1, <3>4, <3>5, <4>1, <4>2 DEF Handled, Progress
    <3>6. CASE req[r].op = "rename"
      <4>1. req'[r].pc = "rename" /\ Target(req[r]) = req[r].new
        BY <3>2, <3>4, <3>6
      <4>2. RenameProgress(node', cells', kind', was, req'[r])
        BY <1>3, <2>1, <2>2, <2>4, <3>4, <3>6, <4>1 DEF RenameProgress
      <4> QED
        BY <1>1, <3>4, <3>6, <4>1, <4>2 DEF Handled, Progress
    <3> QED
      BY <3>2, <3>5, <3>6
  <2> QED
    BY <2>3, <2>4
<1> QED
  BY <1>4, <1>5

LEMMA MakeDirectoryHandled ==
    ASSUME TypeInv, NEW r \in Reqs, r \in Changing,
           Progress(node, cells, kind, was, req[r]), MakeDirectory(r)
    PROVE  Handled(r)
<1> DEFINE w == Wanted(req[r])
           l == req[r].level
           q == Top(w, l)
           there == l = 0 \/ IsDir(q) \/ (~Present(q) /\ ParentThere(q))
<1>1. /\ WellFormed(req[r]) /\ req[r].op \in Makers /\ was \in Trees /\ Closed(was)
      /\ req[r].pc \in {"dirs", "climb"} /\ Shape(node, cells, kind)
      /\ l \in 0..Len(w) /\ l \in Nat /\ Way(w) /\ Len(w) \in Nat /\ w \in Names
      /\ UNCHANGED <<cells, kind>>
  BY Changer, WantedMeans
     DEF WellFormed, Progress, MakeProgress, MakeDirectory, At, OnlyNode, Way
<1>2. /\ At(r, "dirs") => TreeOf(node, cells, kind) = was /\ Missing(was, w, l)
      /\ At(r, "climb") => /\ l # 0 /\ TreeOf(node, cells, kind) = Opens(was, w, l - 1)
                           /\ HeldTo(was, w, l - 1) /\ Missing(was, w, l - 1)
  BY <1>1 DEF Progress, MakeProgress, At
<1>3. IF there THEN MakesOne(r)
      ELSE /\ UNCHANGED node
           /\ IF At(r, "dirs") /\ ~Present(q) /\ safe_join(q)
              THEN req' = [req EXCEPT ![r].level = l - 1] ELSE Finish(r)
  BY DEF MakeDirectory, MakesOne, Top
<1>4. \A x \in Paths : x \in Names /\ Len(x) \in Nat /\ Len(x) >= 1
  BY PathLength
<1>5. l # 0 => /\ l \in 1..Len(w) /\ q \in Paths /\ l - 1 \in 0..Len(w)
               /\ \A x \in Paths : Below(q, x) <=> AtOrBelow(w, x) /\ Len(x) <= l - 1
               /\ AtOrBelow(w, q) /\ Len(q) = l
  <2> SUFFICES ASSUME l # 0
               PROVE  /\ l \in 1..Len(w) /\ q \in Paths /\ l - 1 \in 0..Len(w)
                      /\ \A x \in Paths : Below(q, x) <=> AtOrBelow(w, x) /\ Len(x) <= l - 1
                      /\ AtOrBelow(w, q) /\ Len(q) = l
    OBVIOUS
  <2>1. l \in 1..Len(w) /\ l - 1 \in 0..Len(w)
    BY <1>1
  <2>2. \A x \in Paths : Below(q, x) <=> AtOrBelow(w, x) /\ Len(x) < l
    BY <1>1, <1>4, BelowTop
  <2>3. AtOrBelow(w, q) /\ Len(q) = l /\ q \in Paths
    BY <1>1, <2>1, BelowTop, TopMeans, TopPath
  <2> QED
    BY <1>1, <1>4, <2>1, <2>2, <2>3
<1>6. \A x \in Paths : /\ node[x] = 0 <=> TreeOf(node, cells, kind)[x] = 0
                       /\ node[x] = Directory <=> TreeOf(node, cells, kind)[x] = Directory
                       /\ IsFile(x) <=> node[x] \notin {0, Directory}
  <2>1. \A x \in Paths : node[x] \in 0..Directory
    BY <1>1 DEF Shape
  <2>2. \A i \in 0..Directory : i \in Uploads <=> i # 0 /\ i # Directory
    BY Numbers
  <2> QED
    BY <1>1, <2>1, <2>2, ShapeEntries DEF IsFile
<1> HIDE DEF w, l, q
<1>7. l = 0 => Opens(was, w, 0) = was /\ HeldTo(was, w, 0)
  <2>1. \A x \in Paths : ~(Len(x) <= 0)
    BY <1>4
  <2>2. \A x \in Paths : Opens(was, w, 0)[x] = was[x]
    BY <2>1 DEF Opens
  <2> QED
    BY <1>1, <2>1, <2>2 DEF Opens, HeldTo, Trees
<1>8. CASE there /\ l = 0
  <2>1. At(r, "dirs") /\ UNCHANGED node /\ MakesOne(r)
    BY <1>1, <1>2, <1>3, <1>8 DEF MakesOne, At, l
  <2>2. /\ Shape(node', cells, kind) /\ TreeOf(node', cells, kind) = Opens(was, w, l)
        /\ HeldTo(was, w, l) /\ Missing(was, w, l)
    BY <1>1, <1>2, <1>7, <1>8, <2>1
  <2> QED
    BY <1>1, <2>1, <2>2, LevelMade DEF w, l
<1>9. CASE there /\ l # 0
  <2>1. MakesOne(r) /\ node' = [node EXCEPT ![q] = Directory]
    BY <1>3, <1>9 DEF MakesOne, w, l, q
  <2>2. node[q] \in {0, Directory} /\ \A x \in Paths : Below(q, x) => node[x] = Directory
    <3>1. CASE IsDir(q)
      BY <1>1, <1>5, <1>9, <3>1, Numbers DEF IsDir, Shape, Closed
    <3>2. CASE ~Present(q) /\ ParentThere(q)
      BY <3>2 DEF Present, ParentThere, IsDir
    <3> QED
      BY <1>9, <3>1, <3>2
  <2>3. TreeOf(node, cells, kind) = Opens(was, w, l - 1) /\ HeldTo(was, w, l - 1)
    <3>1. CASE At(r, "climb")
      BY <1>2, <3>1
    <3>2. CASE At(r, "dirs")
      <4>1. \A x \in Paths : AtOrBelow(w, x) /\ Len(x) <= l - 1 => was[x] = Directory
        BY <1>2, <1>5, <1>6, <1>9, <2>2, <3>2
      <4>2. \A x \in Paths : Opens(was, w, l - 1)[x] = was[x]
        BY <4>1 DEF Opens
      <4> QED
        BY <1>1, <1>2, <3>2, <4>1, <4>2 DEF Opens, HeldTo, Trees
    <3> QED
      BY <1>1, <3>1, <3>2 DEF At
  <2>4. MakesLevel(node, cells, kind, was, w, l, node')
    <3>1. /\ node' \in [Paths -> 0..Directory]
          /\ \A x \in Paths : node'[x] = IF x = q THEN Directory ELSE node[x]
      <4>1. Directory \in 0..Directory /\ node \in [Paths -> 0..Directory]
        BY <1>1, Numbers DEF Shape
      <4> QED
        BY <2>1, <4>1
    <3> QED
      BY <1>1, <1>5, <1>9, <2>2, <2>3, <3>1 DEF MakesLevel, q
  <2>5. /\ Shape(node', cells, kind) /\ TreeOf(node', cells, kind) = Opens(was, w, l)
        /\ HeldTo(was, w, l)
    BY <2>4, MakeLevel
  <2>6. Missing(was, w, l)
    <3>1. l \in Nat
      BY <1>1
    <3>2. Missing(was, w, l) \/ Missing(was, w, l - 1)
      BY <1>1, <1>2 DEF At
    <3> QED
      BY <1>4, <3>1, <3>2 DEF Missing
  <2> QED
    BY <1>1, <2>1, <2>5, <2>6, LevelMade DEF w, l
<1>10. CASE ~there /\ At(r, "dirs") /\ ~Present(q) /\ safe_join(q)
  <2>1. UNCHANGED node /\ req' = [req EXCEPT ![r].level = l - 1] /\ l # 0
    BY <1>3, <1>10
  <2>2. l - 1 \in Nat /\ l - 1 \in 0..Len(w) /\ "dirs" \in Pcs
    BY <1>1, <1>5, <2>1 DEF Pcs
  <2>3. req' = [req EXCEPT ![r].pc = "dirs", ![r].level = l - 1]
    <3>1. req[r] \in Requests /\ req \in [Reqs -> Requests]
      BY Changer
    <3>2. [req[r] EXCEPT !.level = l - 1] = [req[r] EXCEPT !.pc = "dirs", !.level = l - 1]
      BY <1>10, <3>1 DEF At, Requests
    <3> QED
      BY <2>1, <3>1, <3>2
  <2>4. /\ req'[r].pc = "dirs" /\ req'[r].level = l - 1 /\ req'[r].op = req[r].op
        /\ req'[r].p = req[r].p /\ req'[r].new = req[r].new /\ req'[r].u = req[r].u
        /\ Wanted(req'[r]) = w
    BY <2>2, <2>3, ReqMoves DEF w
  <2>5. Missing(was, w, l - 1)
    <3>1. was[q] = 0
      BY <1>2, <1>5, <1>6, <1>10, <2>1 DEF Present
    <3>2. \A x \in Paths : AtOrBelow(w, x) /\ Len(x) <= l => x = q \/ Len(x) <= l - 1
      BY <1>1, <1>5, <2>1, AtTop DEF q
    <3>3. Missing(was, w, l) /\ l \in Nat
      BY <1>1, <1>2, <1>10
    <3> QED
      BY <1>4, <3>1, <3>2, <3>3 DEF Missing
  <2>6. MakeProgress(node', cells', kind', was, req'[r])
    BY <1>1, <1>2, <1>10, <2>1, <2>2, <2>4, <2>5 DEF MakeProgress
  <2>7. /\ req'[r].op = "upload" => UploadProgress(node', cells', kind', was, req'[r])
        /\ req'[r].op = "rename" => RenameProgress(node', cells', kind', was, req'[r])
        /\ req'[r].op # "delete"
    <3>1. /\ req[r].op = "upload" => UploadProgress(node, cells, kind, was, req[r])
          /\ req[r].op = "rename" => RenameProgress(node, cells, kind, was, req[r])
      BY DEF Progress
    <3> QED
      BY <1>1, <2>1, <2>4, <3>1 DEF UploadProgress, RenameProgress, Makers
  <2> QED
    BY <1>1, <2>1, <2>4, <2>6, <2>7 DEF Handled, Progress
<1>11. CASE ~there /\ ~(At(r, "dirs") /\ ~Present(q) /\ safe_join(q))
  <2>1. UNCHANGED node /\ req'[r] = Idle /\ l # 0
    BY <1>3, <1>11, FinishedReq
  <2>2. At(r, "dirs")
    <3> SUFFICES ASSUME At(r, "climb") PROVE FALSE
      BY <1>1 DEF At
    <3>1. \A x \in Paths : Below(q, x) => IsDir(x)
      BY <1>2, <1>5, <1>6, <2>1 DEF Opens, IsDir
    <3>2. ~Present(q)
      <4>1. l \in Nat
        BY <1>1
      <4>2. was[q] = 0 /\ TreeOf(node, cells, kind)[q] = was[q]
        BY <1>2, <1>5, <2>1, <4>1 DEF Missing, Opens
      <4> QED
        BY <1>5, <1>6, <2>1, <4>2 DEF Present
    <3> QED
      BY <1>11, <3>1, <3>2 DEF ParentThere
  <2>3. PICK x \in Paths : AtOrBelow(w, x) /\ was[x] \notin {0, Directory}
    <3>1. CASE Present(q)
      BY <1>2, <1>5, <1>6, <1>11, <2>1, <2>2, <3>1 DEF Present, IsDir
    <3>2. CASE ~safe_join(q)
      BY <1>2, <1>5, <1>6, <2>1, <2>2, <3>2 DEF safe_join
    <3> QED
      BY <1>11, <2>2, <3>1, <3>2
  <2>4. Result(req[r], was) = was
    BY <1>1, <2>3, InTheWay DEF w
  <2> QED
    BY <1>1, <1>2, <2>1, <2>2, <2>4 DEF Handled, Ends
<1> QED
  BY <1>8, <1>9, <1>10, <1>11

\* What is left when the directories were made up to some length.
LEMMA UpperDirs ==
    ASSUME NEW t \in Trees, NEW p \in Paths, NEW j \in 0..Len(p), NEW s \in Trees,
           (\E x \in Paths : s[x] # t[x]) => Held(t, p),
           \A x \in Paths : s[x] = IF Below(p, x) /\ Len(x) <= j THEN Directory ELSE t[x]
    PROVE  s \in Atomic!PartsOfMkdir(t, p)
<1>1. CASE Held(t, p)
  <2>1. s = [x \in Paths |-> IF Below(p, x) /\ Len(x) <= j THEN Directory ELSE t[x]]
    BY DEF Trees
  <2> QED
    BY <1>1, <2>1, AtomicIs DEF Atomic!PartsOfMkdir
<1>2. CASE ~Held(t, p)
  <2>1. s = t
    BY <1>2 DEF Trees
  <2> QED
    BY <1>2, <2>1, AtomicIs DEF Atomic!PartsOfMkdir
<1> QED
  BY <1>1, <1>2

LEMMA NothingYet ==
    ASSUME NEW t \in Trees, NEW p \in Paths
    PROVE  t \in Atomic!PartsOfMkdir(t, p)
<1>1. 0 \in 0..Len(p) /\ \A x \in Paths : ~(Len(x) <= 0)
  BY PathLength
<1> QED
  BY <1>1, UpperDirs

\* A failed call while directories are made, or before the target is touched.
LEMMA UpperParts ==
    ASSUME NEW q, WellFormed(q), q.op \in Makers, NEW t \in Trees, NEW s,
           s \in Atomic!PartsOfMkdir(t, Target(q)),
           q.op = "rename" => (t[q.p] # 0 /\ t[q.new] = 0) \/ s = t
    PROVE  s \in Parts(q, t)
<1>1. q.op \in {"upload", "mkdir", "rename"}
  BY DEF Makers
<1>2. CASE q.op = "upload"
  BY <1>2, PartsIs DEF Atomic!PartsOfUpload, Target
<1>3. CASE q.op = "mkdir"
  BY <1>3, PartsIs DEF Target
<1>4. CASE q.op = "rename"
  BY <1>4, PartsIs DEF Atomic!PartsOfRename, Target
<1> QED
  BY <1>1, <1>2, <1>3, <1>4

LEMMA MakeFails ==
    ASSUME TypeInv, NEW r \in Reqs, r \in Changing, req[r].pc \in {"dirs", "climb"},
           Progress(node, cells, kind, was, req[r])
    PROVE  TreeOf(node, cells, kind) \in Parts(req[r], was)
<1> DEFINE q == req[r]
           w == Wanted(q)
           p == Target(q)
           l == q.level
           s == TreeOf(node, cells, kind)
<1>1. /\ WellFormed(q) /\ q.op \in Makers /\ was \in Trees /\ Closed(was) /\ s \in Trees
      /\ l \in 0..Len(w) /\ l \in Nat
      /\ q.op = "rename" => was[q.p] # 0 /\ was[q.new] = 0
  BY Changer, WantedMeans, ShapeTree
     DEF WellFormed, Progress, MakeProgress, RenameProgress
<1>2. /\ Way(w) /\ p \in Paths /\ Len(w) \in Nat /\ Len(w) <= Len(p) /\ Len(p) \in Nat
      /\ q.op = "mkdir" => w = p
      /\ q.op # "mkdir" => \A x \in Paths : AtOrBelow(w, x) <=> Below(p, x)
  BY <1>1, WantedMeans, PathLength
<1>3. \/ q.pc = "dirs" /\ s = was
      \/ /\ q.pc = "climb" /\ l # 0 /\ s = Opens(was, w, l - 1)
         /\ HeldTo(was, w, l - 1) /\ Missing(was, w, l - 1)
  BY DEF Progress, MakeProgress
<1>4. s \in Atomic!PartsOfMkdir(was, p)
  <2> HIDE DEF q, w, p, l, s
  <2>1. CASE s = was
    BY <1>1, <1>2, <2>1, NothingYet
  <2>2. CASE l # 0 /\ s = Opens(was, w, l - 1) /\ HeldTo(was, w, l - 1)
             /\ Missing(was, w, l - 1)
    <3>1. l - 1 \in 0..Len(p) /\ l - 1 < Len(w)
      BY <1>1, <1>2, <2>2
    <3>2. \A x \in Paths : AtOrBelow(w, x) /\ Len(x) <= l - 1 <=> Below(p, x) /\ Len(x) <= l - 1
      <4>1. CASE q.op = "mkdir"
        <5>1. w = p
          BY <1>2, <4>1
        <5> QED
          BY <3>1, <5>1 DEF AtOrBelow, Below
      <4>2. CASE q.op # "mkdir"
        BY <1>2, <4>2
      <4> QED
        BY <4>1, <4>2
    <3>3. \A x \in Paths : Below(p, x) => AtOrBelow(w, x)
      BY <1>2 DEF AtOrBelow
    <3>4. Held(was, p)
      <4>1. \A x \in Paths : Len(x) <= l - 1 \/ Len(x) > l - 1
        BY <1>1, PathLength
      <4> QED
        BY <2>2, <3>3, <4>1 DEF Held, HeldTo, Missing
    <3>5. \A x \in Paths : s[x] = IF Below(p, x) /\ Len(x) <= l - 1 THEN Directory ELSE was[x]
      BY <2>2, <3>2 DEF Opens
    <3> QED
      BY <1>1, <1>2, <3>1, <3>4, <3>5, UpperDirs
  <2> QED
    BY <1>3, <2>1, <2>2
<1> QED
  BY <1>1, <1>4, UpperParts

(***************************************************************************)
(* Uploading.                                                              *)
(***************************************************************************)
\* From the tree n and the cells c to m and d: the inode i, which has no other
\* name, is written, or is given the name p.
OneInode(n, c, k, m, d, p, i) ==
    /\ p \in Paths /\ i \in Uploads /\ k[i] \in Formats /\ Shape(n, c, k)
    /\ n[p] # Directory /\ \A y \in Paths : Below(p, y) => n[y] = Directory
    /\ \A x \in Paths \ {p} : n[x] # i
    /\ Known(d, k, i) /\ \A j \in Uploads \ {i} : d[j] = c[j]
    /\ m \in [Paths -> 0..Directory]
    /\ \A x \in Paths : m[x] = IF x = p THEN i ELSE n[x]

OthersAs(m, d, n, c, k, p) ==
    \A x \in Paths \ {p} : TreeOf(m, d, k)[x] = TreeOf(n, c, k)[x]

LEMMA OthersSeen ==
    ASSUME NEW n, NEW c, NEW k, NEW m, NEW d, NEW p, NEW i, OneInode(n, c, k, m, d, p, i)
    PROVE  Shape(m, d, k) /\ OthersAs(m, d, n, c, k, p)
<1> USE DEF OneInode
<1>1. i # 0 /\ i # Directory
  BY Numbers
<1>2. Closed(m)
  <2> SUFFICES ASSUME NEW x \in Paths, NEW y \in Paths, m[x] # 0, Below(x, y)
               PROVE  m[y] = Directory
    BY DEF Closed
  <2>1. CASE x = p
    BY <2>1, NotBelowItself
  <2>2. CASE x # p
    <3>1. n[y] = Directory
      BY <2>2 DEF Shape, Closed
    <3> QED
      BY <3>1
  <2> QED
    BY <2>1, <2>2
<1>3. Unshared(m)
  BY DEF Shape, Unshared
<1>4. \A x \in Paths : m[x] \in Uploads => k[m[x]] \in Formats
  BY DEF Shape
<1>5. \A j \in Uploads : Known(d, k, j)
  <2> SUFFICES ASSUME NEW j \in Uploads, j # i
               PROVE  Known(d, k, j)
    OBVIOUS
  <2>1. Known(c, k, j) /\ d[j] = c[j]
    BY DEF Shape
  <2> QED
    BY <2>1 DEF Known
<1>6. ASSUME NEW x \in Paths \ {p}
      PROVE  EntryOf(d, k, m[x]) = EntryOf(c, k, n[x])
  <2>1. m[x] = n[x]
    OBVIOUS
  <2>2. CASE n[x] \in Uploads
    <3>1. d[n[x]] = c[n[x]] /\ Known(c, k, n[x])
      BY <2>2 DEF Shape
    <3> QED
      BY <2>1, <2>2, <3>1, EntryKept
  <2>3. CASE n[x] \notin Uploads
    BY <2>1, <2>3 DEF EntryOf
  <2> QED
    BY <2>2, <2>3
<1>7. Shape(m, d, k)
  BY <1>2, <1>3, <1>4, <1>5 DEF Shape
<1> QED
  BY <1>6, <1>7 DEF TreeOf, OthersAs

LEMMA DirsThere ==
    ASSUME NEW n, NEW c, NEW k, Shape(n, c, k), NEW t \in Trees, Closed(t), NEW p \in Paths,
           TreeOf(n, c, k) = WithDirs(t, p)
    PROVE  /\ \A y \in Paths : Below(p, y) => n[y] = Directory
           /\ n[p] = Directory <=> t[p] = Directory
           /\ n[p] = 0 <=> t[p] = 0
           /\ t[p] # 0 => WithDirs(t, p) = t
<1>1. \A x \in Paths : WithDirs(t, p)[x] = IF Below(p, x) THEN Directory ELSE t[x]
  BY DEF WithDirs
<1>2. \A x \in Paths : /\ n[x] = Directory <=> WithDirs(t, p)[x] = Directory
                       /\ n[x] = 0 <=> WithDirs(t, p)[x] = 0
  BY ShapeEntries
<1>3. ASSUME t[p] # 0
      PROVE  WithDirs(t, p) = t
  <2>1. \A x \in Paths : Below(p, x) => t[x] = Directory
    BY <1>3 DEF Closed
  <2> QED
    BY <2>1 DEF WithDirs, Trees
<1> QED
  BY <1>1, <1>2, <1>3, NotBelowItself

LEMMA CreateFileHandled ==
    ASSUME TypeInv, NEW r \in Reqs, r \in Changing,
           Progress(node, cells, kind, was, req[r]), CreateFile(r)
    PROVE  Handled(r)
<1> DEFINE p == req[r].p
           u == req[r].u
           i == IF IsFile(p) THEN node[p] ELSE u
<1>1. /\ req[r].pc = "create" /\ req[r].op = "upload" /\ p \in Paths /\ u \in Uploads
      /\ kind[u] \in Formats /\ kind' = kind /\ req[r].got = <<>>
  BY Changer DEF CreateFile, At, WellFormed
<1>2. /\ Shape(node, cells, kind) /\ was \in Trees /\ Closed(was)
      /\ Held(was, p) /\ TreeOf(node, cells, kind) = WithDirs(was, p)
      /\ \A x \in Paths : node[x] # u
  BY <1>1 DEF Progress, UploadProgress
<1>3. /\ \A y \in Paths : Below(p, y) => node[y] = Directory
      /\ node[p] = Directory <=> was[p] = Directory
      /\ was[p] # 0 => WithDirs(was, p) = was
  BY <1>1, <1>2, DirsThere
<1>4. ParentThere(p) /\ (IsDir(p) <=> was[p] = Directory)
  BY <1>3 DEF ParentThere, IsDir
<1>5. CASE IsDir(p)
  <2>1. UNCHANGED <<node, cells>> /\ Finish(r)
    BY <1>5 DEF CreateFile
  <2>2. Result(req[r], was) = was
    BY <1>1, <1>4, <1>5, Gone
  <2>3. was[p] # 0
    BY <1>4, <1>5, Numbers
  <2> QED
    BY <1>1, <1>2, <1>3, <2>1, <2>2, <2>3, FinishedReq DEF Handled, Ends
<1>6. CASE ~IsDir(p)
  <2>1. /\ node' = [node EXCEPT ![p] = i]
        /\ cells' = [cells EXCEPT ![i] = <<>>]
        /\ req' = [req EXCEPT ![r].file = i, ![r].pc = "write"]
    BY <1>4, <1>6 DEF CreateFile
  <2>2. i \in Uploads /\ kind[i] \in Formats
    BY <1>1, <1>2 DEF IsFile, Shape
  <2>3. \A x \in Paths \ {p} : node[x] # i
    BY <1>1, <1>2 DEF Shape, Unshared, IsFile
  <2> HIDE DEF i
  <2>4. \A x \in Paths : node'[x] = IF x = p THEN i ELSE node[x]
    BY <2>1, Changer
  <2>5. node' \in [Paths -> 0..Directory]
    <3>1. i \in 0..Directory
      BY <2>2, Numbers
    <3> QED
      BY <2>1, <3>1, Changer
  <2>6. cells'[i] = <<>> /\ \A j \in Uploads \ {i} : cells'[j] = cells[j]
    BY <2>1, <2>2, Changer
  <2>7. Known(cells', kind, i)
    <3>1. <<>> \in Seq(Int) /\ Len(<<>>) = 0
      OBVIOUS
    <3> QED
      BY <2>6, <3>1 DEF Known
  <2>8. /\ Shape(node', cells', kind)
        /\ \A x \in Paths \ {p} : TreeOf(node', cells', kind)[x] = WithDirs(was, p)[x]
    <3>1. node[p] # Directory
      BY <1>6 DEF IsDir
    <3>2. OneInode(node, cells, kind, node', cells', p, i)
      BY <1>1, <1>2, <1>3, <2>2, <2>3, <2>4, <2>5, <2>6, <2>7, <3>1 DEF OneInode
    <3>3. Shape(node', cells', kind) /\ OthersAs(node', cells', node, cells, kind, p)
      BY <3>2, OthersSeen
    <3> QED
      BY <1>2, <3>3 DEF OthersAs
  <2>9. /\ req'[r].pc = "write" /\ req'[r].file = i /\ req'[r].op = "upload"
        /\ req'[r].p = p /\ req'[r].u = u /\ req'[r].got = <<>>
    BY <1>1, <2>1, Changer DEF Requests
  <2>10. CellCount[kind[u]] > 0 /\ Len(<<>>) = 0
    BY <1>1, CellCounts
  <2>11. UploadProgress(node', cells', kind', was, req'[r])
    BY <1>1, <1>2, <1>4, <1>6, <2>4, <2>6, <2>8, <2>9, <2>10 DEF UploadProgress
  <2> QED
    BY <1>1, <1>2, <2>8, <2>9, <2>11 DEF Handled, Progress
<1> QED
  BY <1>5, <1>6

\* A cell x after those of got.
LEMMA NextCell ==
    ASSUME NEW got \in Seq(Int), NEW x \in Int
    PROVE  /\ Written(got, Len(got) + 1, x) = Append(got, x)
           /\ Append(got, x) \in Seq(Int) /\ Len(Append(got, x)) = Len(got) + 1
           /\ Append(got, x)[Len(got) + 1] = x
           /\ \A j \in 1..Len(got) : Append(got, x)[j] = got[j]
<1> DEFINE a == Append(got, x)
           b == Written(got, Len(got) + 1, x)
<1>1. Len(got) \in Nat
  OBVIOUS
<1>2. /\ a \in Seq(Int) /\ Len(a) = Len(got) + 1
      /\ \A j \in 1..Len(got) : a[j] = got[j]
      /\ a[Len(got) + 1] = x
  BY AppendProperties
<1>3. b = [j \in 1..Len(got) + 1 |-> IF j = Len(got) + 1 THEN x
                                    ELSE IF j <= Len(got) THEN got[j] ELSE Hole]
  <2>1. Len(got) + 1 > Len(got)
    BY <1>1
  <2> QED
    BY <2>1 DEF Written
<1>4. \A j \in 1..Len(got) + 1 : j = Len(got) + 1 \/ (j \in 1..Len(got) /\ j <= Len(got))
  BY <1>1
<1>5. \A j \in 1..Len(got) + 1 : b[j] = a[j] /\ b[j] \in Int
  <2> SUFFICES ASSUME NEW j \in 1..Len(got) + 1
               PROVE  b[j] = a[j] /\ b[j] \in Int
    OBVIOUS
  <2>1. CASE j = Len(got) + 1
    BY <1>2, <1>3, <2>1
  <2>2. CASE j \in 1..Len(got) /\ j <= Len(got)
    <3>1. got[j] \in Int /\ j # Len(got) + 1
      BY <1>1, <2>2
    <3>2. b[j] = got[j]
      BY <1>3, <2>2, <3>1
    <3> QED
      BY <1>2, <2>2, <3>1, <3>2
  <2> QED
    BY <1>4, <2>1, <2>2
<1>6. b \in Seq(Int) /\ Len(b) = Len(got) + 1
  <2>1. b \in [1..Len(got) + 1 -> Int]
    <3>1. DOMAIN b = 1..Len(got) + 1 /\ b = [j \in DOMAIN b |-> b[j]]
      BY <1>3
    <3> HIDE DEF b
    <3> QED
      BY <1>5, <3>1
  <2> HIDE DEF b
  <2>2. Len(got) + 1 \in Nat
    BY <1>1
  <2> QED
    BY <2>1, <2>2
<1> HIDE DEF a, b
<1>7. a = b
  BY <1>1, <1>2, <1>5, <1>6, SeqEqual
<1> QED
  BY <1>2, <1>7 DEF a, b

\* What is known of the file that the request writes, and of the rest.
Writing(r) ==
    LET p == req[r].p
        got == req[r].got
    IN  /\ req[r].op = "upload" /\ p \in Paths /\ req[r].u \in Uploads
        /\ kind[req[r].u] \in Formats /\ got \in Seq(Int) /\ req[r].file \in Uploads
        /\ Shape(node, cells, kind) /\ was \in Trees /\ Closed(was)
        /\ Held(was, p) /\ was[p] # Directory
        /\ node[p] = req[r].file /\ cells[req[r].file] = got
        /\ \A j \in 1..Len(got) : got[j] = req[r].u
        /\ Len(got) < CellCount[kind[req[r].u]]
        /\ \A x \in Paths \ {p} : TreeOf(node, cells, kind)[x] = WithDirs(was, p)[x]

LEMMA IsWriting ==
    ASSUME TypeInv, NEW r \in Reqs, r \in Changing, At(r, "write"),
           Progress(node, cells, kind, was, req[r])
    PROVE  Writing(r)
<1>1. req[r].pc = "write" /\ req[r].op = "upload" /\ req[r].file \in Uploads
      /\ req[r].got \in Seq(Int)
  BY Changer DEF At, WellFormed, Requests
<1> QED
  BY <1>1, Changer DEF Progress, UploadProgress, Writing

\* A cell of the upload, or one that is torn, is written.
LEMMA OneCell ==
    ASSUME TypeInv, NEW r \in Reqs, Writing(r), NEW x \in {req[r].u, Damaged},
           cells' = [cells EXCEPT ![req[r].file] =
                        Written(cells[req[r].file], Len(req[r].got) + 1, x)]
    PROVE  /\ cells'[req[r].file] = Append(req[r].got, x)
           /\ Shape(node, cells', kind)
           /\ \A y \in Paths \ {req[r].p} :
                 TreeOf(node, cells', kind)[y] = WithDirs(was, req[r].p)[y]
<1> DEFINE p == req[r].p
           u == req[r].u
           i == req[r].file
           got == req[r].got
           more == Append(got, x)
<1>1. /\ p \in Paths /\ u \in Uploads /\ kind[u] \in Formats /\ got \in Seq(Int)
      /\ i \in Uploads /\ Shape(node, cells, kind)
      /\ was[p] # Directory /\ node[p] = i /\ cells[i] = got
      /\ \A j \in 1..Len(got) : got[j] = u
      /\ \A y \in Paths \ {p} : TreeOf(node, cells, kind)[y] = WithDirs(was, p)[y]
  BY DEF Writing
<1>2. x \in Int
  BY <1>1, Numbers DEF Damaged
<1>3. /\ Written(got, Len(got) + 1, x) = more /\ more \in Seq(Int)
      /\ Len(more) = Len(got) + 1 /\ more[Len(got) + 1] = x
      /\ \A j \in 1..Len(got) : more[j] = got[j]
  BY <1>1, <1>2, NextCell
<1>4. cells' = [cells EXCEPT ![i] = more]
  BY <1>1, <1>3
<1> HIDE DEF more
<1>5. cells'[i] = more /\ \A j \in Uploads \ {i} : cells'[j] = cells[j]
  <2>1. cells \in [Uploads -> Seq(Int)]
    BY DEF TypeInv, DiskOK
  <2> QED
    BY <1>1, <1>4, <2>1
<1>6. Known(cells', kind, i)
  <2>1. \A j \in 1..Len(more) : j = Len(got) + 1 \/ j \in 1..Len(got)
    BY <1>1, <1>3
  <2>2. \A j \in 1..Len(more) : more[j] \in {u, x}
    BY <1>1, <1>3, <2>1
  <2>3. \A j \in 1..Len(more) : more[j] \in Uploads => more[j] = u
    BY <2>2, Numbers DEF Damaged
  <2>4. \A j \in 1..Len(more) : more[j] \in Uploads => kind[more[j]] \in Formats
    BY <1>1, <2>3
  <2> QED
    BY <1>3, <1>5, <2>4 DEF Known
<1>7. i # Directory /\ i # 0
  BY <1>1, Numbers
<1>8. /\ kind[i] \in Formats /\ node \in [Paths -> 0..Directory]
      /\ \A y \in Paths : Below(p, y) => node[y] = Directory
      /\ \A y \in Paths \ {p} : node[y] # i
      /\ \A y \in Paths : node[y] = IF y = p THEN i ELSE node[y]
  BY <1>1, <1>7 DEF Shape, Closed, Unshared
<1>9. OneInode(node, cells, kind, node, cells', p, i)
  BY <1>1, <1>5, <1>6, <1>7, <1>8 DEF OneInode
<1>10. Shape(node, cells', kind) /\ OthersAs(node, cells', node, cells, kind, p)
  BY <1>9, OthersSeen
<1> QED
  BY <1>1, <1>5, <1>10 DEF OthersAs, more

Put(t, p, e) == [WithDirs(t, p) EXCEPT ![p] = e]

OnlyAt(n, c, k, t, p, e) ==
    /\ p \in Paths /\ EntryOf(c, k, n[p]) = e
    /\ \A x \in Paths \ {p} : TreeOf(n, c, k)[x] = WithDirs(t, p)[x]

LEMMA OnlyUpload ==
    ASSUME NEW n, NEW c, NEW k, NEW t, NEW p, NEW e, OnlyAt(n, c, k, t, p, e)
    PROVE  TreeOf(n, c, k) = Put(t, p, e)
<1>1. \A x \in Paths : EntryOf(c, k, n[x]) = Put(t, p, e)[x]
  BY DEF TreeOf, WithDirs, Put, OnlyAt
<1> QED
  BY <1>1 DEF TreeOf, WithDirs, Put

LEMMA WriteCellHandled ==
    ASSUME TypeInv, NEW r \in Reqs, r \in Changing,
           Progress(node, cells, kind, was, req[r]), WriteCell(r)
    PROVE  Handled(r)
<1> DEFINE p == req[r].p
           u == req[r].u
           i == req[r].file
           got == req[r].got
           more == Append(got, u)
<1>1. Writing(r) /\ req[r].pc = "write" /\ UNCHANGED <<node, kind>>
  BY IsWriting DEF WriteCell, At
<1>2. /\ req[r].op = "upload" /\ p \in Paths /\ u \in Uploads /\ kind[u] \in Formats
      /\ got \in Seq(Int) /\ i \in Uploads /\ was \in Trees /\ Closed(was)
      /\ Held(was, p) /\ was[p] # Directory /\ node[p] = i
      /\ \A j \in 1..Len(got) : got[j] = u
      /\ Len(got) < CellCount[kind[u]]
  BY <1>1 DEF Writing
<1>3. cells' = [cells EXCEPT ![i] = Written(cells[i], Len(got) + 1, u)]
  BY DEF WriteCell
<1>4. /\ cells'[i] = more /\ Shape(node, cells', kind)
      /\ \A x \in Paths \ {p} : TreeOf(node, cells', kind)[x] = WithDirs(was, p)[x]
  BY <1>1, <1>3, OneCell
<1>5. /\ more \in Seq(Int) /\ Len(more) = Len(got) + 1 /\ Len(got) \in Nat
      /\ \A j \in 1..Len(more) : more[j] = u
  <2>1. u \in Int /\ Len(got) \in Nat
    BY <1>2, Numbers
  <2>2. /\ more \in Seq(Int) /\ Len(more) = Len(got) + 1 /\ more[Len(got) + 1] = u
        /\ \A j \in 1..Len(got) : more[j] = got[j]
    BY <1>2, <2>1, NextCell
  <2> HIDE DEF more
  <2>3. \A j \in 1..Len(more) : j = Len(got) + 1 \/ j \in 1..Len(got)
    BY <2>1, <2>2
  <2> QED
    BY <1>2, <2>1, <2>2, <2>3
<1>6. \/ Len(got) + 1 < CellCount[kind[u]] /\ req' = [req EXCEPT ![r].got = more]
      \/ ~(Len(got) + 1 < CellCount[kind[u]]) /\ Finish(r)
  BY DEF WriteCell
<1> HIDE DEF more
<1>7. CASE Len(got) + 1 < CellCount[kind[u]] /\ req' = [req EXCEPT ![r].got = more]
  <2>1. /\ req'[r].pc = "write" /\ req'[r].file = i /\ req'[r].op = "upload"
        /\ req'[r].p = p /\ req'[r].u = u /\ req'[r].got = more
    BY <1>1, <1>2, <1>7, Changer DEF Requests
  <2>2. UploadProgress(node', cells', kind', was, req'[r])
    BY <1>1, <1>2, <1>4, <1>5, <1>7, <2>1 DEF UploadProgress
  <2> QED
    BY <1>1, <1>2, <1>4, <2>1, <2>2 DEF Handled, Progress
<1>8. CASE ~(Len(got) + 1 < CellCount[kind[u]]) /\ Finish(r)
  <2>1. req'[r] = Idle
    BY <1>8, FinishedReq
  <2>2. Len(got) + 1 = CellCount[kind[u]]
    <3>1. CellCount[kind[u]] \in Nat
      BY <1>2, CellCounts
    <3> QED
      BY <1>2, <1>5, <1>8, <3>1
  <2>3. more = [j \in 1..CellCount[kind[u]] |-> u]
    <3>1. CellCount[kind[u]] \in Nat /\ CellCount[kind[u]] > 0
      BY <1>2, CellCounts
    <3> DEFINE all == [j \in 1..CellCount[kind[u]] |-> u]
    <3>2. all \in Seq(Int) /\ Len(all) = CellCount[kind[u]]
      <4>1. all \in Seq({u}) /\ Len(all) = CellCount[kind[u]] /\ u \in Int
        BY <1>2, <3>1, Alike, Numbers
      <4> HIDE DEF all
      <4> QED
        BY <4>1
    <3>3. \A j \in 1..Len(more) : all[j] = u
      BY <1>5, <2>2
    <3> HIDE DEF all
    <3>4. more = all
      BY <1>5, <2>2, <3>2, <3>3, SeqEqual
    <3> QED
      BY <3>4 DEF all
  <2>4. EntryOf(cells', kind, node[p]) = u
    BY <1>2, <1>4, <2>3, StoresEntry DEF Stores
  <2>5. TreeOf(node, cells', kind) = Put(was, p, u)
    <3>1. OnlyAt(node, cells', kind, was, p, u)
      BY <1>2, <1>4, <2>4 DEF OnlyAt
    <3> QED
      BY <3>1, OnlyUpload
  <2>6. Result(req[r], was) = Put(was, p, u)
    BY <1>2, OutcomeIs, AtomicIs DEF Atomic!AfterUpload, Put
  <2> QED
    BY <1>1, <1>4, <2>1, <2>5, <2>6 DEF Handled, Ends
<1> QED
  BY <1>6, <1>7, <1>8

\* A write that fails leaves a file that cannot be read.
LEMMA WriteFails ==
    ASSUME TypeInv, NEW r \in Reqs, r \in Changing, At(r, "write"), Fail(r),
           Progress(node, cells, kind, was, req[r])
    PROVE  FailsInPart(r)
<1> DEFINE p == req[r].p
           u == req[r].u
           i == req[r].file
           got == req[r].got
           torn == Append(got, Damaged)
<1>1. Writing(r) /\ UNCHANGED <<node, kind>> /\ req'[r] = Idle
  BY IsWriting, FinishedReq DEF Fail
<1>2. /\ req[r].op = "upload" /\ p \in Paths /\ u \in Uploads /\ kind[u] \in Formats
      /\ got \in Seq(Int) /\ i \in Uploads /\ was \in Trees /\ Closed(was)
      /\ Held(was, p) /\ was[p] # Directory /\ node[p] = i
      /\ \A j \in 1..Len(got) : got[j] = u
      /\ Len(got) < CellCount[kind[u]] /\ Len(got) \in Nat
      /\ cells[i] = got /\ Shape(node, cells, kind)
      /\ \A x \in Paths \ {p} : TreeOf(node, cells, kind)[x] = WithDirs(was, p)[x]
  BY <1>1 DEF Writing
<1>3. \/ cells' = cells
      \/ cells' = [cells EXCEPT ![i] = Written(cells[i], Len(got) + 1, Damaged)]
  BY DEF Fail
<1>4. /\ Shape(node, cells', kind)
      /\ \A x \in Paths \ {p} : TreeOf(node, cells', kind)[x] = WithDirs(was, p)[x]
      /\ cells'[i] \in {got, torn}
  <2>1. CASE cells' = cells
    BY <1>2, <2>1
  <2>2. CASE cells' = [cells EXCEPT ![i] = Written(cells[i], Len(got) + 1, Damaged)]
    BY <1>1, <2>2, OneCell
  <2> QED
    BY <1>3, <2>1, <2>2
<1>5. ASSUME NEW v \in Uploads, kind[v] \in Formats
      PROVE  ~WholeOf(got, kind, v)
  <2>1. CellCount[kind[v]] \in Nat /\ CellCount[kind[v]] > 0
    BY <1>5, CellCounts
  <2> SUFFICES ASSUME got = [j \in 1..CellCount[kind[v]] |-> v] PROVE FALSE
    BY DEF WholeOf
  <2>2. got[1] = v /\ Len(got) = CellCount[kind[v]]
    BY <2>1, Alike
  <2>3. 1 \in 1..Len(got)
    BY <2>1, <2>2
  <2>4. v = u
    BY <1>2, <2>2, <2>3
  <2> QED
    BY <1>2, <2>1, <2>2, <2>4
<1>6. ASSUME NEW v \in Uploads, kind[v] \in Formats
      PROVE  ~WholeOf(torn, kind, v)
  <2>1. CellCount[kind[v]] \in Nat /\ CellCount[kind[v]] > 0
    BY <1>6, CellCounts
  <2>2. Damaged \in Int /\ Damaged # v
    BY Numbers DEF Damaged
  <2>3. Len(torn) = Len(got) + 1 /\ torn[Len(got) + 1] = Damaged
    BY <1>2, <2>2, NextCell
  <2> HIDE DEF torn
  <2> SUFFICES ASSUME torn = [j \in 1..CellCount[kind[v]] |-> v] PROVE FALSE
    BY DEF WholeOf
  <2>4. Len(torn) = CellCount[kind[v]]
    BY <2>1, Alike
  <2>5. Len(got) + 1 \in 1..CellCount[kind[v]]
    BY <1>2, <2>1, <2>3, <2>4
  <2>6. torn[Len(got) + 1] = v
    BY <2>5
  <2> QED
    BY <2>2, <2>3, <2>6
<1>7. EntryOf(cells', kind, node[p]) = Unreadable
  <2>1. \A v \in Uploads : kind[v] \in Formats => ~WholeOf(cells'[i], kind, v)
    BY <1>4, <1>5, <1>6
  <2> QED
    BY <1>2, <2>1, BrokenEntry
<1>8. TreeOf(node, cells', kind) = Put(was, p, Unreadable)
  <2>1. OnlyAt(node, cells', kind, was, p, Unreadable)
    BY <1>2, <1>4, <1>7 DEF OnlyAt
  <2> QED
    BY <2>1, OnlyUpload
<1>9. Put(was, p, Unreadable) \in Parts(req[r], was)
  BY <1>2, PartsIs, AtomicIs DEF Atomic!PartsOfUpload, Put
<1> QED
  BY <1>1, <1>4, <1>8, <1>9 DEF FailsInPart

(***************************************************************************)
(* Deleting.                                                               *)
(***************************************************************************)
Without(t, q) == [t EXCEPT ![q] = 0]

LEMMA Remove ==
    ASSUME NEW n, NEW c, NEW k, NEW q \in Paths, Shape(n, c, k),
           \A x \in Paths : Below(x, q) => n[x] = 0
    PROVE  /\ Shape(Without(n, q), c, k)
           /\ TreeOf(Without(n, q), c, k) = Without(TreeOf(n, c, k), q)
<1> DEFINE m == Without(n, q)
<1>1. n \in [Paths -> 0..Directory] /\ Closed(n) /\ Unshared(n)
  BY DEF Shape
<1>2. /\ m \in [Paths -> 0..Directory]
      /\ \A x \in Paths : m[x] = IF x = q THEN 0 ELSE n[x]
  <2>1. 0 \in 0..Directory
    BY Numbers
  <2> QED
    BY <1>1, <2>1 DEF Without
<1> HIDE DEF m
<1>3. Closed(m) /\ Unshared(m) /\ \A x \in Paths : m[x] \in Uploads => n[x] = m[x]
  BY <1>1, <1>2, Numbers DEF Closed, Unshared
<1>4. Shape(m, c, k)
  BY <1>2, <1>3, SameInodes
<1>5. \A x \in Paths : EntryOf(c, k, m[x]) = IF x = q THEN 0 ELSE TreeOf(n, c, k)[x]
  BY <1>2, NoFileEntry DEF TreeOf
<1>6. TreeOf(m, c, k) = Without(TreeOf(n, c, k), q)
  BY <1>5 DEF TreeOf, Without
<1> QED
  BY <1>4, <1>6 DEF m

LEMMA DeletedIs ==
    ASSUME NEW t, NEW q, q.op = "delete"
    PROVE  Result(q, t) = [x \in Paths |-> IF AtOrBelow(x, q.p) THEN 0 ELSE t[x]]
BY OutcomeIs, AtomicIs DEF Atomic!AfterDelete

LEMMA BelowThat ==
    ASSUME NEW x \in Names, NEW y \in Names, NEW z \in Names, Below(z, y), AtOrBelow(y, x)
    PROVE  Below(z, x)
BY BelowTransitive DEF AtOrBelow

\* The entry asked for is noted first.
LEMMA FirstNoted ==
    ASSUME NEW n \in [Paths -> 0..Directory], Closed(n), NEW p \in Paths, n[p] # 0,
           NEW todo \in [Paths -> Tasks],
           todo[p] = IF n[p] = Directory THEN "open" ELSE "unlink",
           \A x \in Paths \ {p} : todo[x] = "keep"
    PROVE  Clearing(n, p, todo)
<1>1. todo[p] # "keep" /\ \A x \in Paths : todo[x] # "keep" => x = p
  OBVIOUS
<1>2. Noted(n, p, todo)
  BY <1>1 DEF Noted, AtOrBelow
<1>3. Ordered(p, todo)
  BY <1>1, PathLength DEF Ordered, AtOrBelow, Below
<1>4. Covered(n, p, todo)
  BY <1>1 DEF Covered, AtOrBelow, Closed
<1> QED
  BY <1>2, <1>3, <1>4 DEF Clearing

LEMMA StatHandled ==
    ASSUME TypeInv, NEW r \in Reqs, r \in Changing,
           Progress(node, cells, kind, was, req[r]), StatEntry(r)
    PROVE  Handled(r)
<1> DEFINE p == req[r].p
<1>1. /\ req[r].pc = "stat" /\ req[r].op = "delete" /\ p \in Paths
      /\ UNCHANGED <<node, cells, kind>> /\ req[r].todo \in [Paths -> Tasks]
  BY Changer DEF StatEntry, At, OnlyReq, disk, WellFormed, Requests
<1>2. /\ was = TreeOf(node, cells, kind) /\ Shape(node, cells, kind)
      /\ was \in Trees /\ Closed(was) /\ \A x \in Paths : req[r].todo[x] = "keep"
  BY <1>1 DEF Progress, DeleteProgress
<1>3. Present(p) <=> was[p] # 0
  BY <1>1, <1>2, ShapeEntries DEF Present
<1>4. CASE Present(p)
  <2> DEFINE how == IF IsDir(p) THEN "open" ELSE "unlink"
             todo == [req[r].todo EXCEPT ![p] = how]
  <2>1. req' = [req EXCEPT ![r].pc = "remove", ![r].todo[p] = how]
    BY <1>4 DEF StatEntry
  <2>2. how \in Tasks /\ how = IF node[p] = Directory THEN "open" ELSE "unlink"
    BY DEF Tasks, IsDir
  <2> HIDE DEF how
  <2>3. todo \in [Paths -> Tasks] /\ todo[p] = how /\ \A x \in Paths \ {p} : todo[x] = "keep"
    BY <1>1, <1>2, <2>2
  <2>4. /\ req'[r].pc = "remove" /\ req'[r].op = "delete" /\ req'[r].p = p
        /\ req'[r].todo = todo
    BY <1>1, <2>1, Changer DEF Requests
  <2> HIDE DEF todo
  <2>5. Clearing(node, p, todo)
    BY <1>1, <1>2, <1>4, <2>2, <2>3, FirstNoted DEF Present, Shape
  <2>6. DeleteProgress(node', cells', kind', was, req'[r])
    BY <1>1, <1>2, <2>4, <2>5 DEF DeleteProgress
  <2> QED
    BY <1>1, <1>2, <2>4, <2>6 DEF Handled, Progress
<1>5. CASE ~Present(p)
  <2>1. req'[r] = Idle
    BY <1>5, FinishedReq DEF StatEntry
  <2>2. was[p] = 0
    BY <1>3, <1>5
  <2>3. \A x \in Paths : AtOrBelow(x, p) => was[x] = 0
    BY <1>1, <1>2, <2>2, Numbers DEF AtOrBelow, Closed
  <2>4. Result(req[r], was) = was
    BY <1>1, <1>2, <2>3, DeletedIs DEF Trees
  <2> QED
    BY <1>1, <1>2, <2>1, <2>4 DEF Handled, Ends
<1> QED
  BY <1>4, <1>5

\* The directory q has been read: its children are noted.
ReadDir(n, q, todo) ==
    [x \in Paths |-> IF x = q THEN "rmdir"
                     ELSE IF Below(x, q) /\ Len(x) = Len(q) + 1 /\ n[x] # 0
                     THEN IF n[x] = Directory THEN "open" ELSE "unlink"
                     ELSE todo[x]]

LEMMA ChildrenNoted ==
    ASSUME NEW n \in [Paths -> 0..Directory], Closed(n), NEW p \in Paths, NEW todo,
           Clearing(n, p, todo), NEW q \in Paths, todo[q] = "open"
    PROVE  Clearing(n, p, ReadDir(n, q, todo))
<1> DEFINE after == ReadDir(n, q, todo)
           Child(x) == Below(x, q) /\ Len(x) = Len(q) + 1 /\ n[x] # 0
<1>1. /\ todo \in [Paths -> Tasks] /\ todo[p] # "keep"
      /\ \A x \in Paths : todo[x] # "keep" =>
            /\ AtOrBelow(x, p) /\ n[x] # 0
            /\ todo[x] = "unlink" <=> n[x] # Directory
  BY DEF Clearing, Noted
<1>2. \A x, y \in Paths : todo[x] # "keep" /\ Below(x, y) /\ AtOrBelow(y, p) => todo[y] = "rmdir"
  BY DEF Clearing, Ordered
<1>3. AtOrBelow(q, p) /\ n[q] = Directory
  BY <1>1
<1>4. \A x \in Paths : x \in Names /\ Len(x) \in Nat
  BY PathLength
<1>5. \A x \in Paths : after[x] = IF x = q THEN "rmdir"
                                 ELSE IF Child(x)
                                 THEN IF n[x] = Directory THEN "open" ELSE "unlink"
                                 ELSE todo[x]
  BY DEF ReadDir
<1>6. after \in [Paths -> Tasks]
  BY <1>1 DEF ReadDir, Tasks
<1> HIDE DEF after
<1>7. \A x \in Paths : Child(x) => todo[x] = "keep" /\ x # q
  BY <1>2, <1>3 DEF Below
<1>8. Noted(n, p, after)
  <2>1. \A x \in Paths : Below(x, q) => AtOrBelow(x, p)
    BY <1>3, <1>4, BelowThat DEF AtOrBelow
  <2>2. after[p] # "keep"
    BY <1>1, <1>5
  <2>3. ASSUME NEW x \in Paths, after[x] # "keep"
        PROVE  /\ AtOrBelow(x, p) /\ n[x] # 0
               /\ after[x] = "unlink" <=> n[x] # Directory
    <3>1. CASE x = q
      BY <1>3, <1>5, <3>1, Numbers
    <3>2. CASE x # q /\ Child(x)
      BY <1>5, <2>1, <3>2
    <3>3. CASE x # q /\ ~Child(x)
      BY <1>1, <1>5, <2>3, <3>3
    <3> QED
      BY <3>1, <3>2, <3>3
  <2> QED
    BY <1>6, <2>2, <2>3 DEF Noted
<1>9. Ordered(p, after)
  <2> SUFFICES ASSUME NEW x \in Paths, NEW y \in Paths, after[x] # "keep", Below(x, y),
                      AtOrBelow(y, p), y # q
               PROVE  todo[y] = "rmdir"
    BY <1>5, <1>7 DEF Ordered
  <2>1. CASE x = q
    BY <1>2, <2>1
  <2>2. CASE x # q /\ Child(x)
    <3>1. q = y \/ Below(q, y) \/ Below(y, q)
      BY <1>4, <2>2, AboveIsChain
    <3>2. ~Below(y, q)
      BY <1>4, <2>2 DEF Below
    <3> QED
      BY <1>2, <3>1, <3>2
  <2>3. CASE x # q /\ ~Child(x)
    BY <1>2, <1>5, <2>3
  <2> QED
    BY <2>1, <2>2, <2>3
<1>10. Covered(n, p, after)
  <2> SUFFICES ASSUME NEW x \in Paths, AtOrBelow(x, p), n[x] # 0, after[x] = "keep"
               PROVE  \E y \in Paths : Below(x, y) /\ after[y] = "open"
    BY DEF Covered
  <2>1. x # q /\ ~Child(x) /\ todo[x] = "keep"
    BY <1>5
  <2>2. PICK y \in Paths : Below(x, y) /\ todo[y] = "open"
    BY <2>1 DEF Clearing, Covered
  <2>3. CASE y # q
    BY <1>5, <1>7, <2>2, <2>3
  <2>4. CASE y = q
    <3> DEFINE l == Len(q) + 1
               z == Top(x, l)
    <3>1. Len(q) < Len(x) /\ Len(x) # l
      BY <2>1, <2>2, <2>4 DEF Below
    <3>2. l \in 1..Len(x) /\ l \in 0..Len(x) /\ l < Len(x) /\ Len(q) < l
      BY <1>4, <3>1
    <3>3. Way(x) /\ z \in Paths /\ Len(z) = l /\ z \in Names
      BY <1>4, <3>2, TopPath, TopMeans DEF Way
    <3>4. AtOrBelow(x, z)
      BY <1>4, <3>2, BelowTop
    <3>5. Below(z, q)
      BY <1>4, <2>2, <2>4, <3>2, BelowTop DEF AtOrBelow
    <3> HIDE DEF z, l
    <3>6. Below(x, z)
      BY <3>2, <3>3, <3>4 DEF AtOrBelow
    <3>7. n[z] = Directory
      BY <3>3, <3>6 DEF Closed
    <3>8. Child(z) /\ z # q
      BY <3>3, <3>5, <3>7, Numbers DEF Below, l
    <3> QED
      BY <1>5, <3>3, <3>6, <3>7, <3>8
  <2> QED
    BY <2>3, <2>4
<1> QED
  BY <1>8, <1>9, <1>10 DEF Clearing, after

LEMMA OpenDirectoryHandled ==
    ASSUME TypeInv, NEW r \in Reqs, r \in Changing,
           Progress(node, cells, kind, was, req[r]), OpenDirectory(r)
    PROVE  Handled(r)
<1> DEFINE p == req[r].p
           todo == req[r].todo
<1>1. /\ req[r].pc = "remove" /\ req[r].op = "delete" /\ p \in Paths
      /\ UNCHANGED <<node, cells, kind>> /\ todo \in [Paths -> Tasks]
  BY Changer DEF OpenDirectory, At, OnlyReq, disk, WellFormed, Requests
<1>2. /\ Shape(node, cells, kind) /\ was \in Trees /\ Closed(was)
      /\ \A x \in Paths : \/ TreeOf(node, cells, kind)[x] = was[x]
                          \/ Below(x, p) /\ TreeOf(node, cells, kind)[x] = 0
      /\ Clearing(node, p, todo)
  BY <1>1 DEF Progress, DeleteProgress
<1>3. PICK q \in Paths :
        /\ todo[q] = "open"
        /\ IsDir(q) => req' = [req EXCEPT ![r].todo = [x \in Paths |->
                     IF x = q THEN "rmdir"
                     ELSE IF Found(q, x) THEN IF IsDir(x) THEN "open" ELSE "unlink"
                     ELSE req[r].todo[x]]]
  BY DEF OpenDirectory
<1>4. IsDir(q)
  BY <1>2, <1>3 DEF Clearing, Noted, IsDir
<1>5. req' = [req EXCEPT ![r].todo = ReadDir(node, q, todo)]
  BY <1>3, <1>4 DEF ReadDir, Found, IsDir, Present
<1>6. /\ req'[r].pc = "remove" /\ req'[r].op = "delete" /\ req'[r].p = p
      /\ req'[r].todo = ReadDir(node, q, todo)
  BY <1>1, <1>5, Changer DEF Requests
<1>7. Clearing(node, p, ReadDir(node, q, todo))
  BY <1>1, <1>2, <1>3, ChildrenNoted DEF Shape
<1>8. DeleteProgress(node', cells', kind', was, req'[r])
  BY <1>1, <1>2, <1>6, <1>7 DEF DeleteProgress
<1> QED
  BY <1>1, <1>2, <1>6, <1>8 DEF Handled, Progress

\* What comes next can be taken out, and the rest remains to be.
LEMMA NextIsLeaf ==
    ASSUME NEW n \in [Paths -> 0..Directory], Closed(n), NEW p \in Paths, NEW todo,
           Clearing(n, p, todo), NEW q \in Paths, todo[q] \in {"unlink", "rmdir"},
           \A x \in Paths : Below(x, q) => todo[x] = "keep"
    PROVE  /\ AtOrBelow(q, p) /\ n[q] # 0
           /\ todo[q] = "unlink" <=> n[q] # Directory
           /\ \A x \in Paths : Below(x, q) => n[x] = 0
<1>1. \A x \in Paths : todo[x] # "keep" =>
            /\ AtOrBelow(x, p) /\ n[x] # 0
            /\ todo[x] = "unlink" <=> n[x] # Directory
  BY DEF Clearing, Noted
<1>2. AtOrBelow(q, p) /\ n[q] # 0 /\ (todo[q] = "unlink" <=> n[q] # Directory)
  BY <1>1
<1>3. ASSUME NEW x \in Paths, Below(x, q), n[x] # 0
      PROVE  FALSE
  <2>1. todo[x] = "keep" /\ AtOrBelow(x, p)
    BY <1>2, <1>3, BelowThat, PathNames DEF AtOrBelow
  <2>2. PICK y \in Paths : Below(x, y) /\ todo[y] = "open"
    BY <1>3, <2>1 DEF Clearing, Covered
  <2>3. q = y \/ Below(q, y) \/ Below(y, q)
    BY <1>3, <2>2, AboveIsChain, PathNames
  <2>4. CASE Below(q, y)
    <3>1. AtOrBelow(y, p)
      BY <1>1, <2>2
    <3>2. todo[y] = "rmdir"
      BY <2>4, <3>1 DEF Clearing, Ordered
    <3> QED
      BY <2>2, <3>2
  <2> QED
    BY <2>2, <2>3, <2>4
<1> QED
  BY <1>2, <1>3

LEMMA LeafGone ==
    ASSUME NEW n \in [Paths -> 0..Directory], NEW p \in Paths, NEW todo,
           Clearing(n, p, todo), NEW q \in Paths, q # p, todo[q] # "open",
           \A x \in Paths : Below(x, q) => todo[x] = "keep"
    PROVE  Clearing(Without(n, q), p, [todo EXCEPT ![q] = "keep"])
<1> DEFINE m == Without(n, q)
           after == [todo EXCEPT ![q] = "keep"]
<1>1. /\ todo \in [Paths -> Tasks] /\ todo[p] # "keep"
      /\ \A x \in Paths : todo[x] # "keep" =>
            /\ AtOrBelow(x, p) /\ n[x] # 0
            /\ todo[x] = "unlink" <=> n[x] # Directory
  BY DEF Clearing, Noted
<1>2. /\ \A x \in Paths : m[x] = IF x = q THEN 0 ELSE n[x]
      /\ \A x \in Paths : after[x] = IF x = q THEN "keep" ELSE todo[x]
      /\ after \in [Paths -> Tasks]
  BY <1>1 DEF Without, Tasks
<1> HIDE DEF m, after
<1>3. Noted(m, p, after)
  BY <1>1, <1>2 DEF Noted
<1>4. Ordered(p, after)
  BY <1>2 DEF Clearing, Ordered
<1>5. Covered(m, p, after)
  BY <1>2 DEF Clearing, Covered
<1> QED
  BY <1>3, <1>4, <1>5 DEF Clearing, m, after

LEMMA RemoveNextHandled ==
    ASSUME TypeInv, NEW r \in Reqs, r \in Changing,
           Progress(node, cells, kind, was, req[r]), RemoveNext(r)
    PROVE  Handled(r)
<1> DEFINE p == req[r].p
           todo == req[r].todo
           s == TreeOf(node, cells, kind)
<1>1. /\ req[r].pc = "remove" /\ req[r].op = "delete" /\ p \in Paths
      /\ UNCHANGED <<cells, kind>> /\ todo \in [Paths -> Tasks]
  BY Changer DEF RemoveNext, At, OnlyNode, WellFormed, Requests
<1>2. /\ Shape(node, cells, kind) /\ was \in Trees /\ Closed(was)
      /\ \A x \in Paths : s[x] = was[x] \/ (Below(x, p) /\ s[x] = 0)
      /\ Clearing(node, p, todo)
      /\ node \in [Paths -> 0..Directory] /\ Closed(node)
  BY <1>1 DEF Progress, DeleteProgress, Shape
<1>3. PICK q \in Paths :
        /\ todo[q] \in {"unlink", "rmdir"}
        /\ \A x \in Paths : Below(x, q) => todo[x] = "keep"
        /\ node' = IF Removable(q, todo[q]) THEN [node EXCEPT ![q] = 0] ELSE node
        /\ IF q # p /\ (Removable(q, todo[q]) \/ ~Present(q))
           THEN Doing(r, q, "keep") ELSE Finish(r)
  BY DEF RemoveNext
<1>4. /\ AtOrBelow(q, p) /\ node[q] # 0
      /\ todo[q] = "unlink" <=> node[q] # Directory
      /\ \A x \in Paths : Below(x, q) => node[x] = 0
  BY <1>1, <1>2, <1>3, NextIsLeaf
<1>5. Removable(q, todo[q])
  <2>1. \A i \in 0..Directory : i \in Uploads <=> i # 0 /\ i # Directory
    BY Numbers
  <2> QED
    BY <1>2, <1>3, <1>4, <2>1 DEF Removable, IsFile, IsDir, Present
<1>6. node' = Without(node, q)
  BY <1>3, <1>5 DEF Without
<1>7. Shape(node', cells, kind) /\ TreeOf(node', cells, kind) = Without(s, q)
  BY <1>2, <1>4, <1>6, Remove
<1>8. \A x \in Paths : Without(s, q)[x] = IF x = q THEN 0 ELSE s[x]
  BY DEF Without, TreeOf
<1> HIDE DEF s
<1>9. CASE q # p
  <2>1. Doing(r, q, "keep")
    BY <1>3, <1>5, <1>9
  <2> DEFINE after == [todo EXCEPT ![q] = "keep"]
  <2>2. req'[r].pc = "remove" /\ req'[r].op = "delete" /\ req'[r].p = p /\ req'[r].todo = after
    BY <1>1, <2>1, Changer DEF Doing, Requests
  <2>3. Clearing(node', p, after)
    <3>1. todo[q] # "open"
      BY <1>3
    <3> QED
      BY <1>1, <1>2, <1>3, <1>6, <1>9, <3>1, LeafGone
  <2> HIDE DEF after
  <2>4. Below(q, p)
    BY <1>4, <1>9 DEF AtOrBelow
  <2>5. \A x \in Paths : \/ TreeOf(node', cells, kind)[x] = was[x]
                         \/ Below(x, p) /\ TreeOf(node', cells, kind)[x] = 0
    BY <1>2, <1>7, <1>8, <2>4
  <2>6. DeleteProgress(node', cells', kind', was, req'[r])
    BY <1>1, <2>2, <2>3, <2>5 DEF DeleteProgress
  <2> QED
    BY <1>1, <1>2, <1>7, <2>2, <2>6 DEF Handled, Progress
<1>10. CASE q = p
  <2>1. req'[r] = Idle
    BY <1>3, <1>10, FinishedReq
  <2>2. \A x \in Paths : Without(s, q)[x] = IF AtOrBelow(x, p) THEN 0 ELSE was[x]
    <3>1. \A x \in Paths : Below(x, p) => s[x] = 0
      BY <1>2, <1>4, <1>10, ShapeEntries DEF s
    <3> QED
      BY <1>2, <1>8, <1>10, <3>1 DEF AtOrBelow
  <2>3. Result(req[r], was) = [x \in Paths |-> IF AtOrBelow(x, p) THEN 0 ELSE was[x]]
    BY <1>1, DeletedIs
  <2>4. TreeOf(node', cells, kind) = [x \in Paths |-> Without(s, q)[x]]
    BY <1>7 DEF TreeOf
  <2> QED
    BY <1>1, <1>7, <2>1, <2>2, <2>3, <2>4 DEF Handled, Ends
<1> QED
  BY <1>9, <1>10

\* A deletion that fails has taken out some of what is below.
LEMMA RemoveFails ==
    ASSUME NEW n, NEW c, NEW k, NEW t, NEW q, q.op = "delete", q.pc = "remove",
           Progress(n, c, k, t, q)
    PROVE  TreeOf(n, c, k) \in Parts(q, t)
<1> DEFINE s == TreeOf(n, c, k)
<1>1. s \in Trees /\ Closed(s)
  BY ShapeTree DEF Progress
<1>2. \A x \in Paths : s[x] = t[x] \/ (Below(x, q.p) /\ s[x] = 0)
  BY DEF Progress, DeleteProgress
<1> HIDE DEF s
<1>3. s \in Atomic!PartsOfDelete(t, q.p)
  BY <1>1, <1>2, AtomicIs DEF Atomic!PartsOfDelete, Trees
<1> QED
  BY <1>3, PartsIs DEF s

(***************************************************************************)
(* Renaming.                                                               *)
(***************************************************************************)
LEMMA BeginsDirs ==
    ASSUME NEW n, NEW c, NEW k, NEW q, WellFormed(q), q.op \in Makers,
           q.pc = "dirs", q.level = Len(Wanted(q))
    PROVE  MakeProgress(n, c, k, TreeOf(n, c, k), q)
<1> DEFINE w == Wanted(q)
<1>1. Way(w) /\ Len(w) \in Nat /\ Len(w) \in 0..Len(w) /\ q.level = Len(w)
  BY WantedMeans
<1>2. \A x \in Paths : AtOrBelow(w, x) => Len(x) \in 0..Len(w)
  BY <1>1, AboveIsTop, PathLength DEF Way
<1> HIDE DEF w
<1>3. Missing(TreeOf(n, c, k), w, Len(w))
  BY <1>1, <1>2 DEF Missing
<1> QED
  BY <1>1, <1>3 DEF MakeProgress, w

LEMMA ChecksHandled ==
    ASSUME TypeInv, NEW r \in Reqs, r \in Changing,
           Progress(node, cells, kind, was, req[r]), CheckSource(r) \/ CheckDest(r)
    PROVE  Handled(r)
<1> DEFINE p == req[r].p
           new == req[r].new
<1>1. /\ req[r].pc \in {"source", "dest"} /\ req[r].op = "rename" /\ p \in Paths
      /\ new \in Paths /\ UNCHANGED <<node, cells, kind>>
      /\ req \in [Reqs -> Requests] /\ WellFormed(req[r])
  BY Changer DEF CheckSource, CheckDest, At, OnlyReq, disk, WellFormed
<1>2. /\ was = TreeOf(node, cells, kind) /\ Shape(node, cells, kind)
      /\ was \in Trees /\ Closed(was)
  BY <1>1 DEF Progress
<1>3. (Present(p) <=> was[p] # 0) /\ (Present(new) <=> was[new] # 0)
  BY <1>1, <1>2, ShapeEntries DEF Present
<1>4. CASE Finish(r) /\ (~Present(p) \/ Present(new))
  <2>1. Result(req[r], was) = was
    BY <1>1, <1>3, <1>4, Gone
  <2> QED
    BY <1>1, <1>2, <1>4, <2>1, FinishedReq DEF Handled, Ends
<1>5. ASSUME Goto(r, "dest"), was[p] # 0
      PROVE  Handled(r)
  <2>1. "dest" \in Pcs
    BY DEF Pcs
  <2>2. req'[r].pc = "dest" /\ req'[r].op = "rename" /\ req'[r].p = p /\ req'[r].new = new
    BY <1>1, <1>5, <2>1, ReqGoes
  <2>3. RenameProgress(node', cells', kind', was, req'[r])
    BY <1>5, <2>2 DEF RenameProgress
  <2> QED
    BY <1>1, <1>2, <2>2, <2>3 DEF Handled, Progress
<1>6. ASSUME req' = [req EXCEPT ![r] = WantDirs(@)], was[p] # 0, was[new] = 0,
             req[r].pc = "dest"
      PROVE  Handled(r)
  <2>1. req'[r] = WantDirs(req[r]) /\ req[r].op \in Makers
    BY <1>1, <1>6 DEF Makers
  <2>2. /\ req'[r].pc = "dirs" /\ req'[r].level = Len(Wanted(req[r]))
        /\ req'[r].op = "rename" /\ req'[r].p = p /\ req'[r].new = new
    BY <1>1, <2>1, WantDirsOK
  <2>3. Wanted(req'[r]) = Wanted(req[r])
    BY <1>1, <2>2 DEF Wanted
  <2>4. WellFormed(req'[r]) /\ req'[r].op \in Makers
    <3>1. RequestsOK'
      BY <1>1, <1>6, LookOK DEF TypeInv, At
    <3> QED
      BY <2>2, <3>1 DEF RequestsOK, Makers
  <2>5. MakeProgress(node, cells, kind, was, req'[r])
    BY <1>2, <2>2, <2>3, <2>4, BeginsDirs
  <2>6. RenameProgress(node', cells', kind', was, req'[r])
    BY <1>6, <2>2 DEF RenameProgress
  <2> QED
    BY <1>1, <1>2, <2>2, <2>5, <2>6 DEF Handled, Progress
<1>7. CASE CheckSource(r)
  BY <1>3, <1>4, <1>5, <1>7 DEF CheckSource
<1>8. CASE CheckDest(r)
  <2>1. was[p] # 0 /\ req[r].pc = "dest"
    BY <1>1, <1>8 DEF CheckDest, At, Progress, RenameProgress
  <2> QED
    BY <1>3, <1>4, <1>6, <1>8, <2>1 DEF CheckDest
<1> QED
  BY <1>7, <1>8

(***************************************************************************)
(* rename(2): each path at or below new gets what was at the path that is  *)
(* moved there.                                                            *)
(***************************************************************************)
MovedTree(t, old, new) ==
    [q \in Paths |->
        IF AtOrBelow(q, new)
        THEN IF Moved(q, new, old) \in Paths THEN t[Moved(q, new, old)] ELSE 0
        ELSE IF AtOrBelow(q, old) THEN 0 ELSE t[q]]

LEMMA NotMoved ==
    ASSUME NEW old \in Paths, NEW new \in Paths, NEW q \in Paths, ~AtOrBelow(q, new)
    PROVE  \A x \in Paths : AtOrBelow(x, old) => Moved(x, old, new) # q
BY MovedBelow, PathNames

\* What the old name of q is, if it has one.
LEMMA OldName ==
    ASSUME NEW old \in Paths, NEW new \in Paths, NEW q \in Paths, AtOrBelow(q, new)
    PROVE  /\ Moved(q, new, old) \in Names /\ AtOrBelow(Moved(q, new, old), old)
           /\ Moved(Moved(q, new, old), old, new) = q
           /\ \A x \in Paths : AtOrBelow(x, old) /\ Moved(x, old, new) = q
                                  => x = Moved(q, new, old)
BY MovedBelow, MovedBack, PathNames

LEMMA MovedStep ==
    ASSUME NEW old \in Paths, NEW new \in Paths, NEW n,
           \A x \in Paths : AtOrBelow(x, new) => n[x] = 0
    PROVE  LET moving == {q \in Paths : AtOrBelow(q, old)}
           IN  [q \in Paths |->
                  IF \E x \in moving : Moved(x, old, new) = q
                  THEN n[CHOOSE x \in moving : Moved(x, old, new) = q]
                  ELSE IF q \in moving THEN 0 ELSE n[q]] = MovedTree(n, old, new)
<1> DEFINE moving == {q \in Paths : AtOrBelow(q, old)}
           Gets(q) == IF \E x \in moving : Moved(x, old, new) = q
                       THEN n[CHOOSE x \in moving : Moved(x, old, new) = q]
                       ELSE IF q \in moving THEN 0 ELSE n[q]
<1>1. ASSUME NEW q \in Paths
      PROVE  Gets(q) = MovedTree(n, old, new)[q]
  <2> DEFINE from == Moved(q, new, old)
  <2>1. CASE AtOrBelow(q, new) /\ from \in Paths
    <3>1. from \in moving /\ Moved(from, old, new) = q
      BY <2>1, OldName
    <3>2. \A x \in moving : Moved(x, old, new) = q => x = from
      BY <2>1, OldName
    <3> HIDE DEF from, moving
    <3>3. (CHOOSE x \in moving : Moved(x, old, new) = q) = from
      BY <3>1, <3>2
    <3>4. Gets(q) = n[from]
      BY <3>1, <3>3
    <3>5. MovedTree(n, old, new)[q] = n[from]
      BY <2>1 DEF MovedTree, from
    <3> QED
      BY <3>4, <3>5
  <2>2. CASE AtOrBelow(q, new) /\ from \notin Paths
    <3>1. ~\E x \in moving : Moved(x, old, new) = q
      BY <2>2, OldName
    <3>2. Gets(q) = 0
      BY <2>2, <3>1
    <3>3. MovedTree(n, old, new)[q] = 0
      BY <2>2 DEF MovedTree
    <3> QED
      BY <3>2, <3>3
  <2>3. CASE ~AtOrBelow(q, new)
    <3>1. ~\E x \in moving : Moved(x, old, new) = q
      BY <2>3, NotMoved
    <3> QED
      BY <2>3, <3>1 DEF MovedTree
  <2> QED
    BY <2>1, <2>2, <2>3
<1>2. [q \in Paths |-> Gets(q)] = MovedTree(n, old, new)
  BY <1>1 DEF MovedTree
<1> QED
  BY <1>2

\* The tree n can take what is at old in at new.
CanMove(n, old, new) ==
    /\ n \in [Paths -> 0..Directory] /\ Closed(n) /\ Unshared(n)
    /\ old \in Paths /\ new \in Paths /\ ~AtOrBelow(new, old)
    /\ n[new] = 0 /\ \A y \in Paths : Below(new, y) => n[y] = Directory

LEMMA MovedType ==
    ASSUME NEW n, NEW old, NEW new, CanMove(n, old, new)
    PROVE  /\ MovedTree(n, old, new) \in [Paths -> 0..Directory]
           /\ \A x \in Paths : MovedTree(n, old, new)[x] \in Uploads =>
                 \E y \in Paths : n[y] = MovedTree(n, old, new)[x]
<1>1. 0 \in 0..Directory /\ 0 \notin Uploads
  BY Numbers
<1> QED
  BY <1>1 DEF MovedTree, CanMove

LEMMA MovedClosed ==
    ASSUME NEW n, NEW old, NEW new, CanMove(n, old, new)
    PROVE  Closed(MovedTree(n, old, new))
<1> DEFINE m == MovedTree(n, old, new)
<1>1. /\ Closed(n) /\ old \in Paths /\ new \in Paths /\ ~AtOrBelow(new, old)
      /\ \A y \in Paths : Below(new, y) => n[y] = Directory
  BY DEF CanMove
<1> SUFFICES ASSUME NEW x \in Paths, NEW y \in Paths, m[x] # 0, Below(x, y)
             PROVE  m[y] = Directory
  BY DEF Closed
<1>2. x \in Names /\ y \in Names /\ old \in Names /\ new \in Names
  BY <1>1, PathNames
<1>3. CASE AtOrBelow(x, new) /\ AtOrBelow(y, new)
  <2> DEFINE from == Moved(x, new, old)
             above == Moved(y, new, old)
  <2>1. from \in Paths /\ n[from] # 0
    BY <1>3 DEF MovedTree
  <2>2. above \in Names /\ AtOrBelow(above, old) /\ Below(from, above)
    BY <1>2, <1>3, MovedBelow, MovedInOrder
  <2> HIDE DEF from, above
  <2>3. above # <<>>
    <3>1. old # <<>> /\ Len(old) \in Nat
      BY <1>1, <1>2, PathAssumption DEF Names
    <3>2. Len(old) <= Len(above)
      BY <1>2, <2>2, AtOrBelowMeans
    <3>3. Len(old) # 0
      BY <1>2, <3>1, EmptySeq DEF Names
    <3>4. Len(above) # 0
      BY <3>1, <3>2, <3>3
    <3> QED
      BY <3>4
  <2>4. above \in Paths
    BY <2>1, <2>2, <2>3, PathNames
  <2>5. n[above] = Directory
    BY <1>1, <2>1, <2>2, <2>4 DEF Closed
  <2> QED
    BY <1>3, <2>4, <2>5 DEF MovedTree, above
<1>4. CASE AtOrBelow(x, new) /\ ~AtOrBelow(y, new)
  <2>1. Below(new, y)
    BY <1>2, <1>4, AboveIsChain DEF AtOrBelow
  <2>2. ~AtOrBelow(y, old)
    BY <1>1, <1>2, <2>1, BelowThat DEF AtOrBelow
  <2> QED
    BY <1>1, <1>4, <2>1, <2>2 DEF MovedTree
<1>5. CASE ~AtOrBelow(x, new)
  <2>1. ~AtOrBelow(x, old) /\ n[x] # 0
    BY <1>5 DEF MovedTree
  <2>2. n[y] = Directory
    BY <1>1, <2>1 DEF Closed
  <2>3. ~AtOrBelow(y, new) /\ ~AtOrBelow(y, old)
    BY <1>2, <1>5, <2>1, BelowThat DEF AtOrBelow
  <2> QED
    BY <2>2, <2>3 DEF MovedTree
<1> QED
  BY <1>3, <1>4, <1>5

LEMMA MovedUnshared ==
    ASSUME NEW n, NEW old, NEW new, CanMove(n, old, new)
    PROVE  Unshared(MovedTree(n, old, new))
<1> DEFINE m == MovedTree(n, old, new)
           Source(x) == IF AtOrBelow(x, new) THEN Moved(x, new, old) ELSE x
<1>1. Unshared(n) /\ old \in Paths /\ new \in Paths /\ 0 \notin Uploads
  BY Numbers DEF CanMove
<1> SUFFICES ASSUME NEW x \in Paths, NEW y \in Paths, m[x] \in Uploads, m[x] = m[y]
             PROVE  x = y
  BY DEF Unshared
<1>2. ASSUME NEW z \in Paths, m[z] \in Uploads
      PROVE  /\ Source(z) \in Paths /\ n[Source(z)] = m[z]
             /\ AtOrBelow(z, new) => /\ AtOrBelow(Source(z), old)
                                     /\ Moved(Source(z), old, new) = z
             /\ ~AtOrBelow(z, new) => ~AtOrBelow(Source(z), old) /\ Source(z) = z
  <2>1. CASE AtOrBelow(z, new)
    <3>1. Moved(z, new, old) \in Paths /\ m[z] = n[Moved(z, new, old)]
      BY <1>1, <1>2, <2>1 DEF MovedTree
    <3> QED
      BY <1>1, <2>1, <3>1, OldName
  <2>2. CASE ~AtOrBelow(z, new)
    BY <1>1, <1>2, <2>2 DEF MovedTree
  <2> QED
    BY <2>1, <2>2
<1> HIDE DEF Source, m
<1>3. Source(x) = Source(y)
  <2>1. Source(x) \in Paths /\ n[Source(x)] = m[x] /\ Source(y) \in Paths /\ n[Source(y)] = m[x]
    BY <1>2
  <2> QED
    BY <1>1, <2>1 DEF Unshared
<1> QED
  BY <1>2, <1>3

LEMMA MovedSeen ==
    ASSUME NEW n, NEW c, NEW k, NEW old, NEW new, CanMove(n, old, new), Shape(n, c, k)
    PROVE  /\ Shape(MovedTree(n, old, new), c, k)
           /\ TreeOf(MovedTree(n, old, new), c, k) = MovedTree(TreeOf(n, c, k), old, new)
<1>1. Shape(MovedTree(n, old, new), c, k)
  <2> DEFINE m == MovedTree(n, old, new)
  <2>1. /\ m \in [Paths -> 0..Directory] /\ Closed(m) /\ Unshared(m)
        /\ \A x \in Paths : m[x] \in Uploads => \E y \in Paths : n[y] = m[x]
    BY MovedType, MovedClosed, MovedUnshared
  <2> HIDE DEF m
  <2>2. Shape(m, c, k)
    BY <2>1, SameInodes
  <2> QED
    BY <2>2 DEF m
<1>2. \A x \in Paths : EntryOf(c, k, MovedTree(n, old, new)[x]) =
                          MovedTree(TreeOf(n, c, k), old, new)[x]
  BY NoFileEntry DEF MovedTree, TreeOf
<1>3. TreeOf(MovedTree(n, old, new), c, k) = MovedTree(TreeOf(n, c, k), old, new)
  <2>1. MovedTree(TreeOf(n, c, k), old, new) =
           [x \in Paths |-> MovedTree(TreeOf(n, c, k), old, new)[x]]
    BY DEF MovedTree
  <2>2. TreeOf(MovedTree(n, old, new), c, k) =
           [x \in Paths |-> EntryOf(c, k, MovedTree(n, old, new)[x])]
    BY DEF TreeOf
  <2> QED
    BY <1>2, <2>1, <2>2
<1> QED
  BY <1>1, <1>3

LEMMA RenamedIs ==
    ASSUME NEW t, NEW q, q.op = "rename", q.p \in Paths, q.new \in Paths,
           t[q.p] # 0, t[q.new] = 0, Held(t, q.new)
    PROVE  /\ AtOrBelow(q.new, q.p) => Result(q, t) = WithDirs(t, q.new)
           /\ ~AtOrBelow(q.new, q.p) =>
                 Result(q, t) = MovedTree(WithDirs(t, q.new), q.p, q.new)
<1> DEFINE old == q.p
           new == q.new
           there == [x \in Paths |->
                       IF AtOrBelow(x, new)
                       THEN IF Moved(x, new, old) \in Paths THEN t[Moved(x, new, old)] ELSE 0
                       ELSE IF AtOrBelow(x, old) THEN 0 ELSE WithDirs(t, new)[x]]
<1>1. Result(q, t) = IF AtOrBelow(new, old) THEN WithDirs(t, new) ELSE there
  BY OutcomeIs, AtomicIs DEF Atomic!AfterRename, Moved
<1>2. ASSUME ~AtOrBelow(new, old), NEW x \in Paths, AtOrBelow(x, new),
             Moved(x, new, old) \in Paths
      PROVE  WithDirs(t, new)[Moved(x, new, old)] = t[Moved(x, new, old)]
  <2>1. AtOrBelow(Moved(x, new, old), old)
    BY <1>2, OldName
  <2>2. ~Below(new, Moved(x, new, old))
    BY <1>2, <2>1, BelowThat, PathNames DEF AtOrBelow
  <2> QED
    BY <1>2, <2>2 DEF WithDirs
<1>3. ~AtOrBelow(new, old) => there = MovedTree(WithDirs(t, new), old, new)
  BY <1>2 DEF MovedTree
<1> QED
  BY <1>1, <1>3

LEMMA RenameHandled ==
    ASSUME TypeInv, NEW r \in Reqs, r \in Changing,
           Progress(node, cells, kind, was, req[r]), Rename(r)
    PROVE  Handled(r)
<1> DEFINE old == req[r].p
           new == req[r].new
<1>1. /\ req[r].pc = "rename" /\ req[r].op = "rename" /\ old \in Paths
      /\ new \in Paths /\ UNCHANGED <<cells, kind>> /\ req'[r] = Idle
  BY Changer, FinishedReq DEF Rename, At, OnlyNode, WellFormed
<1>2. /\ Shape(node, cells, kind) /\ was[old] # 0 /\ was[new] = 0 /\ Held(was, new)
      /\ was \in Trees /\ Closed(was)
      /\ TreeOf(node, cells, kind) = WithDirs(was, new)
  BY <1>1 DEF Progress, RenameProgress
<1>3. \A x \in Paths : WithDirs(was, new)[x] = IF Below(new, x) THEN Directory ELSE was[x]
  BY DEF WithDirs
<1>4. \A x \in Paths : node[x] = 0 <=> WithDirs(was, new)[x] = 0
  BY <1>2, ShapeEntries
<1>5. /\ node[new] = 0 /\ node[old] # 0
      /\ \A y \in Paths : Below(new, y) => node[y] = Directory
  BY <1>1, <1>2, <1>3, <1>4, DirsThere, Numbers
<1>6. Present(old) /\ ParentThere(new) /\ Replaceable(old, new)
  BY <1>5 DEF Present, ParentThere, IsDir, Replaceable
<1>7. CASE AtOrBelow(new, old)
  <2>1. node' = node
    BY <1>7 DEF Rename
  <2>2. Result(req[r], was) = WithDirs(was, new)
    BY <1>1, <1>2, <1>7, RenamedIs
  <2> QED
    BY <1>1, <1>2, <2>1, <2>2 DEF Handled, Ends
<1>8. CASE ~AtOrBelow(new, old)
  <2>1. \A x \in Paths : AtOrBelow(x, new) => node[x] = 0
    BY <1>1, <1>2, <1>5, Numbers DEF AtOrBelow, Shape, Closed
  <2>2. node' = MovedTree(node, old, new)
    BY <1>1, <1>6, <1>8, <2>1, MovedStep DEF Rename
  <2>3. CanMove(node, old, new)
    BY <1>1, <1>2, <1>5, <1>8 DEF CanMove, Shape
  <2>4. /\ Shape(node', cells, kind)
        /\ TreeOf(node', cells, kind) = MovedTree(WithDirs(was, new), old, new)
    BY <1>2, <2>2, <2>3, MovedSeen
  <2>5. Result(req[r], was) = MovedTree(WithDirs(was, new), old, new)
    BY <1>1, <1>2, <1>8, RenamedIs
  <2> QED
    BY <1>1, <2>4, <2>5 DEF Handled, Ends
<1> QED
  BY <1>7, <1>8

(***************************************************************************)
(* One change at a time: it begins, goes on, answers or fails, and every   *)
(* other step leaves the disk alone.                                       *)
(***************************************************************************)
LEMMA ChangeHandled ==
    ASSUME TypeInv, NEW r \in Reqs, r \in Changing,
           Progress(node, cells, kind, was, req[r]), Handle(r)
    PROVE  Handled(r)
<1>1. WellFormed(req[r]) /\ req[r].op \in Changes
  BY Changer
<1>2. req[r].op # "download" /\ req[r].op # None
  BY <1>1, NoneAssumption DEF Changes
<1>3. ~(Begin(r) \/ FindFormat(r) \/ Reopen(r) \/ ReadCell(r) \/ Answer(r))
  BY <1>1, <1>2 DEF Begin, FindFormat, Reopen, ReadCell, Answer, At, WellFormed
<1> QED
  BY <1>3, MakeDirectoryHandled, CreateFileHandled, WriteCellHandled, StatHandled,
     OpenDirectoryHandled, RemoveNextHandled, ChecksHandled, RenameHandled DEF Handle

\* All directories were made, and no more.
LEMMA WithDirsPart ==
    ASSUME NEW n, NEW c, NEW k, Shape(n, c, k), NEW t \in Trees, NEW p \in Paths,
           Held(t, p), TreeOf(n, c, k) = WithDirs(t, p)
    PROVE  TreeOf(n, c, k) \in Atomic!PartsOfMkdir(t, p)
<1>1. TreeOf(n, c, k) \in Trees
  BY ShapeTree
<1>2. Len(p) \in 0..Len(p) /\ \A x \in Paths : Below(p, x) => Len(x) <= Len(p)
  BY PathLength DEF Below
<1>3. \A x \in Paths : TreeOf(n, c, k)[x] =
                          IF Below(p, x) /\ Len(x) <= Len(p) THEN Directory ELSE t[x]
  BY <1>2 DEF WithDirs
<1> QED
  BY <1>1, <1>2, <1>3, UpperDirs

LEMMA FailHandled ==
    ASSUME TypeInv, NEW r \in Reqs, r \in Changing,
           Progress(node, cells, kind, was, req[r]), Fail(r)
    PROVE  FailsInPart(r)
<1> DEFINE q == req[r]
           s == TreeOf(node, cells, kind)
<1>1. /\ WellFormed(q) /\ q.op \in Changes /\ q.p \in Paths
      /\ q.op = "rename" => q.new \in Paths
  BY Changer
<1>2. Shape(node, cells, kind) /\ was \in Trees /\ Closed(was) /\ s \in Trees
  BY ShapeTree DEF Progress
<1>3. q.pc \in {"dirs", "climb", "create", "write", "stat", "remove", "source", "rename"}
  <2>1. q.pc \notin {"idle", "open", "reopen", "read", "answer", "dest"}
    BY <1>1, NoneAssumption DEF Fail, Changes, WellFormed
  <2>2. q.pc \in Pcs
    BY <1>1 DEF WellFormed, Requests
  <2> QED
    BY <2>1, <2>2 DEF Pcs
<1>4. CASE q.pc = "write"
  BY <1>4, WriteFails DEF At
<1>5. CASE q.pc # "write"
  <2>1. UNCHANGED <<node, cells, kind>> /\ req'[r] = Idle
    BY <1>5, FinishedReq DEF Fail, At
  <2>2. s \in Parts(q, was)
    <3>1. CASE q.pc \in {"dirs", "climb"}
      BY <3>1, MakeFails
    <3>2. CASE q.pc = "create"
      <4>1. q.op = "upload" /\ Held(was, q.p) /\ s = WithDirs(was, q.p) /\ Target(q) = q.p
        BY <1>1, <3>2 DEF WellFormed, Progress, UploadProgress, Target
      <4>2. s \in Atomic!PartsOfMkdir(was, q.p)
        BY <1>1, <1>2, <4>1, WithDirsPart
      <4> QED
        BY <4>1, <4>2, PartsIs DEF Atomic!PartsOfUpload
    <3>3. CASE q.pc = "rename"
      <4>1. /\ q.op = "rename" /\ Held(was, q.new) /\ s = WithDirs(was, q.new)
            /\ was[q.p] # 0 /\ was[q.new] = 0
        BY <1>1, <3>3 DEF WellFormed, Progress, RenameProgress
      <4>2. s \in Atomic!PartsOfMkdir(was, q.new)
        BY <1>1, <1>2, <4>1, WithDirsPart
      <4> QED
        BY <4>1, <4>2, PartsIs DEF Atomic!PartsOfRename
    <3>4. CASE q.pc = "source"
      <4>1. q.op = "rename" /\ q.op \in Makers /\ s = was /\ q.new \in Paths
        BY <1>1, <3>4 DEF WellFormed, Progress, Makers
      <4>2. s \in Atomic!PartsOfMkdir(was, q.new) /\ Target(q) = q.new
        BY <1>2, <4>1, NothingYet DEF Target
      <4> QED
        BY <1>1, <1>2, <4>1, <4>2, UpperParts
    <3>5. CASE q.pc = "stat"
      <4>1. q.op = "delete" /\ s = was
        BY <1>1, <3>5 DEF WellFormed, Progress
      <4>2. s \in Atomic!PartsOfDelete(was, q.p)
        BY <1>2, <4>1, AtomicIs DEF Atomic!PartsOfDelete, Trees
      <4> QED
        BY <4>1, <4>2, PartsIs
    <3>6. CASE q.pc = "remove"
      BY <1>1, <3>6, RemoveFails DEF WellFormed
    <3> QED
      BY <1>3, <1>5, <3>1, <3>2, <3>3, <3>4, <3>5, <3>6
  <2> QED
    BY <1>2, <2>1, <2>2 DEF FailsInPart
<1> QED
  BY <1>4, <1>5

LEMMA KindKept ==
    ASSUME NEW c, NEW k, NEW l, NEW i \in Uploads, Known(c, k, i),
           \A v \in Uploads : k[v] \in Formats => l[v] = k[v]
    PROVE  Known(c, l, i) /\ EntryOf(c, l, i) = EntryOf(c, k, i)
<1>1. ASSUME NEW d, d = c
      PROVE  Known(d, l, i) /\ EntryOf(d, l, i) = EntryOf(c, k, i)
  <2>1. d[i] = c[i]
    BY <1>1
  <2> QED
    BY <2>1, EntryKept
<1> QED
  BY <1>1

\* The number of a new upload is that of no inode yet.
LEMMA NewKind ==
    ASSUME TypeInv, NEW u \in Uploads, NextUpload(u), NEW format \in Formats,
           kind' = [kind EXCEPT ![u] = format], Shape(node, cells, kind)
    PROVE  /\ Shape(node, cells, kind')
           /\ TreeOf(node, cells, kind') = TreeOf(node, cells, kind)
           /\ \A x \in Paths : node[x] # u
<1>1. kind \in [Uploads -> Formats \cup {None}]
  BY DEF TypeInv, DiskOK
<1>2. kind[u] \notin Formats
  BY NoneAssumption DEF NextUpload, Formats
<1>3. \A v \in Uploads : kind[v] \in Formats => kind'[v] = kind[v]
  BY <1>1, <1>2
<1>4. \A i \in Uploads : /\ Known(cells, kind', i)
                         /\ EntryOf(cells, kind', i) = EntryOf(cells, kind, i)
  <2> SUFFICES ASSUME NEW i \in Uploads
               PROVE  /\ Known(cells, kind', i)
                      /\ EntryOf(cells, kind', i) = EntryOf(cells, kind, i)
    OBVIOUS
  <2>1. Known(cells, kind, i)
    BY DEF Shape
  <2> QED
    BY <1>3, <2>1, KindKept
<1>5. \A x \in Paths : EntryOf(cells, kind', node[x]) = EntryOf(cells, kind, node[x])
  <2> SUFFICES ASSUME NEW x \in Paths
               PROVE  EntryOf(cells, kind', node[x]) = EntryOf(cells, kind, node[x])
    OBVIOUS
  <2>1. CASE node[x] \in Uploads
    BY <1>4, <2>1
  <2>2. CASE node[x] \notin Uploads
    BY <2>2 DEF EntryOf
  <2> QED
    BY <2>1, <2>2
<1>6. \A x \in Paths : node[x] \in Uploads => kind'[node[x]] \in Formats
  BY <1>3 DEF Shape
<1>7. Shape(node, cells, kind')
  BY <1>4, <1>6 DEF Shape
<1>8. \A x \in Paths : node[x] # u
  BY <1>2 DEF Shape
<1> QED
  BY <1>5, <1>7, <1>8 DEF TreeOf

LEMMA BeginProgress ==
    ASSUME TypeInv, NEW r \in Reqs, Begin(r), r \in Changing', Shape(node, cells, kind)
    PROVE  Progress(node', cells', kind', TreeOf(node, cells, kind), req'[r])
<1> DEFINE t == TreeOf(node, cells, kind)
           s == req'[r]
<1>1. req \in [Reqs -> Requests] /\ UNCHANGED <<node, cells>>
  BY DEF TypeInv, RequestsOK, Begin
<1>2. t \in Trees /\ Closed(t)
  BY ShapeTree
<1>3. WellFormed(s) /\ s.op \in Changes
  <2>1. RequestsOK'
    BY HandleOK DEF Handle, Kept
  <2> QED
    BY <2>1 DEF RequestsOK, Changing
\* How a change of each kind begins.
<1>4. ASSUME NEW op, NEW p, NEW new, NEW u, Enter(r, op, p, new, u)
      PROVE  /\ s.op = op /\ s.u = u /\ \A x \in Paths : s.todo[x] = "keep"
             /\ First[op] # "dirs" => s.pc = First[op]
             /\ First[op] = "dirs" => s.pc = "dirs" /\ s.level = Len(Wanted(s))
  <2> DEFINE q == Request(op, First[op], p, new, u)
  <2>1. s = IF q.pc = "dirs" THEN WantDirs(q) ELSE q
    BY <1>1, <1>4 DEF Enter
  <2>2. /\ q.op = op /\ q.u = u /\ q.pc = First[op] /\ q.p = p /\ q.new = new
        /\ \A x \in Paths : q.todo[x] = "keep"
    BY DEF Request
  <2>3. WantDirs(q) = [q EXCEPT !.pc = "dirs", !.level = Len(Wanted(q))]
    BY DEF WantDirs
  <2>4. /\ WantDirs(q).op = op /\ WantDirs(q).u = u /\ WantDirs(q).p = p
        /\ WantDirs(q).new = new /\ WantDirs(q).pc = "dirs"
        /\ WantDirs(q).level = Len(Wanted(q)) /\ WantDirs(q).todo = q.todo
    BY DEF WantDirs, Request
  <2> HIDE DEF q
  <2>5. Wanted(WantDirs(q)) = Wanted(q)
    BY <2>2, <2>4 DEF Wanted
  <2> HIDE DEF s
  <2> QED
    BY <2>1, <2>2, <2>4, <2>5
<1>5. s.pc = "dirs" => s.op \in Makers
  BY <1>3 DEF WellFormed
<1>6. CASE UNCHANGED kind /\ \E op \in {"mkdir", "delete", "rename", "download"} :
                                \E p, new : Enter(r, op, p, new, 0)
  <2>1. PICK op \in {"mkdir", "delete", "rename", "download"} :
                \E p, new : Enter(r, op, p, new, 0)
    BY <1>6
  <2>2. PICK p, new : Enter(r, op, p, new, 0)
    BY <2>1
  <2>3. /\ s.op = op /\ \A x \in Paths : s.todo[x] = "keep"
        /\ First[op] # "dirs" => s.pc = First[op]
        /\ First[op] = "dirs" => s.pc = "dirs" /\ s.level = Len(Wanted(s))
    BY <1>4, <2>2
  <2>4. op # "download"
    BY <1>3, <2>3 DEF Changes
  <2>5. TreeOf(node', cells', kind') = t /\ Shape(node', cells', kind')
    BY <1>1, <1>6
  <2>6. CASE op = "mkdir"
    <3>1. s.pc = "dirs" /\ s.level = Len(Wanted(s)) /\ s.op = "mkdir"
      BY <2>3, <2>6 DEF First
    <3>2. MakeProgress(node', cells', kind', t, s)
      BY <1>3, <1>5, <2>5, <3>1, BeginsDirs
    <3>9. Progress(node', cells', kind', t, s)
      <4> HIDE DEF s, t
      <4> QED
        BY <1>2, <2>5, <3>1, <3>2 DEF Progress
    <3> QED
      BY <3>9
  <2>7. CASE op = "delete"
    <3>1. s.pc = "stat" /\ s.op = "delete"
      BY <2>3, <2>7 DEF First
    <3>9. Progress(node', cells', kind', t, s)
      <4> HIDE DEF s, t
      <4> QED
        BY <1>2, <2>3, <2>5, <3>1 DEF Progress, DeleteProgress
    <3> QED
      BY <3>9
  <2>8. CASE op = "rename"
    <3>1. s.pc = "source" /\ s.op = "rename"
      BY <2>3, <2>8 DEF First
    <3>9. Progress(node', cells', kind', t, s)
      <4> HIDE DEF s, t
      <4> QED
        BY <1>2, <2>5, <3>1 DEF Progress, RenameProgress
    <3> QED
      BY <3>9
  <2> QED
    BY <2>4, <2>6, <2>7, <2>8
<1>7. CASE \E format \in Formats, u \in Uploads, p \in Paths :
              /\ NextUpload(u) /\ kind' = [kind EXCEPT ![u] = format]
              /\ Enter(r, "upload", p, <<>>, u)
  <2>1. PICK format \in Formats, u \in Uploads, p \in Paths :
              /\ NextUpload(u) /\ kind' = [kind EXCEPT ![u] = format]
              /\ Enter(r, "upload", p, <<>>, u)
    BY <1>7
  <2>2. /\ s.op = "upload" /\ s.u = u
        /\ First["upload"] = "dirs" => s.pc = "dirs" /\ s.level = Len(Wanted(s))
    BY <1>4, <2>1
  <2>3. s.pc = "dirs" /\ s.level = Len(Wanted(s))
    BY <2>2 DEF First
  <2>4. /\ Shape(node', cells', kind') /\ TreeOf(node', cells', kind') = t
        /\ \A x \in Paths : node'[x] # u
    BY <1>1, <2>1, NewKind
  <2>5. MakeProgress(node', cells', kind', t, s)
    BY <1>3, <1>5, <2>3, <2>4, BeginsDirs
  <2>6. UploadProgress(node', cells', kind', t, s)
    <3> HIDE DEF s, t
    <3> QED
      BY <2>2, <2>3, <2>4 DEF UploadProgress
  <2>7. Progress(node', cells', kind', t, s)
    <3> HIDE DEF s, t
    <3> QED
      BY <1>2, <2>2, <2>3, <2>4, <2>5, <2>6 DEF Progress
  <2> QED
    BY <2>7
<1> QED
  BY <1>6, <1>7, BoundAssumption DEF Begin, Formats

\* Only a request that begins starts to change something.
LEMMA OnlyBeginStarts ==
    ASSUME TypeInv, NEW x \in Reqs, Handle(x), x \notin Changing, x \in Changing'
    PROVE  Begin(x)
<1>1. WellFormed(req[x]) /\ req[x].op \notin Changes /\ req \in [Reqs -> Requests]
      /\ req[x] \in Requests
  BY DEF TypeInv, RequestsOK, Changing
<1>2. req'[x].op \in Changes
  BY DEF Changing
<1>3. Begin(x) \/ FindFormat(x) \/ Reopen(x) \/ ReadCell(x) \/ Answer(x)
  BY <1>1 DEF Handle, MakeDirectory, CreateFile, WriteCell, StatEntry, OpenDirectory,
              RemoveNext, CheckSource, CheckDest, Rename, At, WellFormed, Changes, Makers
<1>4. None \notin Changes /\ "download" \notin Changes
  BY NoneAssumption DEF Changes
<1>5. ~Finish(x)
  BY <1>2, <1>4, FinishedReq DEF Idle, Request
<1>6. FindFormat(x) \/ Reopen(x) \/ ReadCell(x) => req'[x].op \in {req[x].op, "download"}
  <2>1. FindFormat(x) => req'[x].op = req[x].op
    BY <1>1, <1>5 DEF FindFormat, Requests
  <2>2. Reopen(x) => req'[x].op = req[x].op
    BY <1>1, <1>5 DEF Reopen, Requests
  <2>3. ReadCell(x) => req'[x].op \in {req[x].op, "download"}
    BY <1>1, <1>5 DEF ReadCell, Requests, Request
  <2> QED
    BY <2>1, <2>2, <2>3
<1> QED
  BY <1>1, <1>2, <1>3, <1>4, <1>5, <1>6 DEF Answer

(***************************************************************************)
(* A step of a calm system.                                                *)
(***************************************************************************)
LEMMA AtMostOne ==
    ASSUME NEW S \in SUBSET Reqs, Cardinality(S) <= 1, NEW r \in S, NEW s \in S
    PROVE  r = s
<1>1. IsFiniteSet(S)
  <2>1. IsFiniteSet(Reqs)
    BY BoundAssumption, FS_Interval DEF Reqs
  <2> QED
    BY <2>1, FS_Subset
<1>2. Cardinality(S) \in Nat /\ Cardinality(S) # 0
  BY <1>1, FS_CardinalityType, FS_EmptySet
<1>3. Cardinality(S) = 1
  BY <1>2
<1>4. PICK x : S = {x}
  BY <1>1, <1>3, FS_Singleton
<1> QED
  BY <1>4

Rests == Changing = {} /\ Changing' = {} /\ UNCHANGED disk
Starts == /\ Changing = {} /\ was' = Tree
          /\ \E r \in Reqs : /\ Changing' = {r}
                             /\ Progress(node', cells', kind', was', req'[r])
GoesOn == /\ was' = was
          /\ \E r \in Reqs : /\ Changing = {r} /\ Changing' = {r}
                             /\ Progress(node', cells', kind', was', req'[r])
Answers == /\ Changing' = {} /\ mishaps' = mishaps
           /\ \E r \in Reqs : /\ Changing = {r}
                              /\ Ends(node', cells', kind', was, req[r])
Fails == /\ Changing' = {} /\ mishaps' # mishaps
         /\ \E r \in Reqs : Changing = {r} /\ FailsInPart(r)

\* A step that leaves disk and changers alone.
LEMMA Bystander ==
    ASSUME TreeInv, calm, UNCHANGED disk, Changing' = Changing,
           \A r \in Changing : req'[r] = req[r], Changing # {} => was' = was
    PROVE  Rests \/ GoesOn
<1>1. CASE Changing = {}
  BY <1>1 DEF Rests
<1>2. CASE Changing # {}
  <2>1. PICK r \in Changing : TRUE
    BY <1>2
  <2>2. r \in Reqs /\ Changing = {r} /\ Progress(node, cells, kind, was, req[r])
    BY <2>1 DEF TreeInv, Changing
  <2>3. Progress(node', cells', kind', was', req'[r])
    BY <1>2, <2>1, <2>2 DEF disk
  <2> QED
    BY <1>2, <2>2, <2>3 DEF GoesOn
<1> QED
  BY <1>1, <1>2

LEMMA CalmStep ==
    ASSUME TypeInv, Counts, TreeInv, Next, calm'
    PROVE  calm /\ (Rests \/ Starts \/ GoesOn \/ Answers \/ Fails)
<1>1. /\ calm /\ Cardinality(Changing') <= 1
      /\ Changing' # {} => was' = IF Changing = {} THEN Tree ELSE was
  BY DEF Next, Observe
<1>2. \A r, s \in Changing' : r = s
  <2>1. Changing' \in SUBSET Reqs
    BY DEF Changing, Reqs
  <2> QED
    BY <1>1, <2>1, AtMostOne
<1>3. CASE \E x \in Reqs : Handle(x)
  <2>1. PICK x \in Reqs : Handle(x)
    BY <1>3
  <2>2. \A r \in Reqs : r # x => req'[r] = req[r]
    BY <2>1, OthersKept
  <2>3. \A r \in Reqs : r # x => (r \in Changing' <=> r \in Changing)
    BY <2>2 DEF Changing, Reqs
  <2>4. Changing \subseteq Reqs /\ Changing' \subseteq Reqs
    BY DEF Changing, Reqs
  <2>5. CASE x \in Changing
    <3>1. Changing = {x} /\ Changing' \subseteq {x}
      BY <1>1, <2>3, <2>4, <2>5 DEF TreeInv
    <3>2. Handled(x)
      BY <1>1, <2>1, <2>5, ChangeHandled DEF TreeInv
    <3>3. CASE req'[x] = Idle /\ Ends(node', cells', kind', was, req[x])
      <4>1. x \notin Changing'
        BY <3>3, NoneAssumption DEF Changing, Idle, Request, Changes
      <4> QED
        BY <1>1, <2>1, <3>1, <3>3, <4>1, HandleCounts DEF Answers
    <3>4. CASE req'[x].op = req[x].op /\ Progress(node', cells', kind', was, req'[x])
      <4>1. x \in Changing'
        BY <2>5, <3>4 DEF Changing, Reqs
      <4> QED
        BY <1>1, <3>1, <3>4, <4>1 DEF GoesOn
    <3> QED
      BY <3>2, <3>3, <3>4 DEF Handled
  <2>6. CASE x \notin Changing /\ x \in Changing'
    <3>1. Begin(x)
      BY <2>1, <2>6, OnlyBeginStarts
    <3>2. Changing = {} /\ Changing' = {x}
      BY <1>2, <2>3, <2>4, <2>6
    <3>3. was' = TreeOf(node, cells, kind) /\ was' = Tree
      BY <1>1, <3>2, TreeIs DEF TreeFact
    <3>4. Progress(node', cells', kind', was', req'[x])
      BY <1>1, <2>6, <3>1, <3>2, <3>3, BeginProgress DEF TreeInv
    <3> QED
      BY <1>1, <3>2, <3>3, <3>4 DEF Starts
  <2>7. CASE x \notin Changing /\ x \notin Changing'
    <3>1. UNCHANGED disk /\ Changing' = Changing
      BY <2>1, <2>3, <2>4, <2>7, ReaderSteps
    <3>2. \A r \in Changing : req'[r] = req[r]
      BY <2>2, <2>4, <2>7
    <3> QED
      BY <1>1, <3>1, <3>2, Bystander
  <2> QED
    BY <2>5, <2>6, <2>7
<1>4. CASE Scanner \/ ScanFails
  <2>1. UNCHANGED disk /\ req' = req
    BY <1>4 DEF Scanner, StatFile, CheckHash, CheckTags, ScanFails
  <2>2. Changing' = Changing
    BY <2>1 DEF Changing, Reqs
  <2> QED
    BY <1>1, <2>1, <2>2, Bystander
\* Who is misled here is looking for the format of a file.
<1>5. CASE \E x \in Reqs : Mislead(x) /\ Observe(FALSE, {x})
  <2>1. PICK x \in Reqs : Mislead(x) /\ Observe(FALSE, {x})
    BY <1>5
  <2>2. x \notin Changing /\ UNCHANGED disk
    BY <2>1 DEF Observe, Mislead
  <2>3. req \in [Reqs -> Requests] /\ WellFormed(req[x])
    BY DEF TypeInv, RequestsOK
  <2>4. At(x, "open")
    <3>1. At(x, "dest") => x \in Changing
      BY <2>3 DEF At, WellFormed, Changing, Changes
    <3> QED
      BY <2>1, <2>2, <3>1 DEF Mislead
  <2>5. /\ req'[x].op = req[x].op
        /\ \A r \in Reqs : r # x => req'[r] = req[r]
    BY <2>1, <2>3, <2>4 DEF Mislead, At, Requests
  <2>6. Changing' = Changing
    BY <2>5 DEF Changing, Reqs
  <2>7. \A r \in Changing : req'[r] = req[r]
    BY <2>2, <2>5 DEF Changing
  <2> QED
    BY <1>1, <2>2, <2>6, <2>7, Bystander
<1>6. CASE \E x \in Reqs : Fail(x)
  <2>1. PICK x \in Reqs : Fail(x)
    BY <1>6
  <2>2. /\ req'[x] = Idle /\ mishaps' # mishaps
        /\ \A r \in Reqs : r # x => req'[r] = req[r]
    BY <2>1, FinishedReq DEF Fail, Finish, TypeInv, RequestsOK, Counts
  <2>3. x \notin Changing'
    BY <2>2, NoneAssumption DEF Changing, Idle, Request, Changes
  <2>4. \A r \in Reqs : r # x => (r \in Changing' <=> r \in Changing)
    BY <2>2 DEF Changing, Reqs
  <2>5. Changing \subseteq Reqs /\ Changing' \subseteq Reqs
    BY DEF Changing, Reqs
  <2>6. CASE x \in Changing
    <3>1. Changing = {x} /\ Changing' = {}
      BY <1>1, <2>3, <2>4, <2>5, <2>6 DEF TreeInv
    <3>2. FailsInPart(x)
      BY <1>1, <2>1, <2>6, FailHandled DEF TreeInv
    <3> QED
      BY <1>1, <2>2, <3>1, <3>2 DEF Fails
  <2>7. CASE x \notin Changing
    <3>1. ~At(x, "write")
      BY <2>7 DEF At, Changing, Changes, TypeInv, RequestsOK, WellFormed
    <3>2. UNCHANGED disk
      BY <2>1, <3>1 DEF Fail, disk
    <3>3. Changing' = Changing
      BY <2>3, <2>4, <2>5, <2>7
    <3>4. \A r \in Changing : req'[r] = req[r]
      BY <2>2, <2>5, <2>7
    <3> QED
      BY <1>1, <3>2, <3>3, <3>4, Bystander
  <2> QED
    BY <2>6, <2>7
<1>7. CASE Observe(TRUE, {})
  BY <1>7 DEF Observe
<1> QED
  BY <1>3, <1>4, <1>5, <1>6, <1>7 DEF Next

FileInv == TypeInv /\ Counts /\ calm \in BOOLEAN /\ TreeInv

LEMMA FileInit == Init => FileInv
<1> SUFFICES ASSUME Init
             PROVE  FileInv
  OBVIOUS
<1>1. TypeInv /\ Counts /\ calm \in BOOLEAN
  BY TypeInit DEF Init, Counts
<1>2. Changing = {}
  BY NoneAssumption DEF Init, Changing, Idle, Request, Changes
<1>3. \A x \in Paths : node[x] = IF x = Stored THEN 1
                               ELSE IF Below(Stored, x) THEN Directory ELSE 0
  BY DEF Init
<1>4. \A i \in Uploads : Known(cells, kind, i)
  <2> SUFFICES ASSUME NEW i \in Uploads
               PROVE  Known(cells, kind, i)
    OBVIOUS
  <2>1. kind[i] = (IF i = 1 THEN StoredFormat ELSE None) /\ kind[i] \in Formats \cup {None}
    BY BoundAssumption DEF Init, Formats
  <2>2. CASE kind[i] = None
    <3>1. cells[i] = <<>>
      BY <2>2 DEF Init
    <3> QED
      BY <3>1 DEF Known
  <2>3. CASE kind[i] # None
    <3>1. cells[i] = Whole(i) /\ kind[i] \in Formats
      BY <2>1, <2>3 DEF Init
    <3>2. CellCount[kind[i]] \in {2, 3}
      BY <3>1, CellCounts
    <3>3. Whole(i) \in Seq(Int) /\ \A j \in 1..Len(Whole(i)) : Whole(i)[j] = i
      BY <3>1, <3>2 DEF Whole, Uploads
    <3> QED
      BY <3>1, <3>3 DEF Known
  <2> QED
    BY <2>2, <2>3
<1>5. Closed(node)
  <2> SUFFICES ASSUME NEW x \in Paths, NEW y \in Paths, node[x] # 0, Below(x, y)
               PROVE  node[y] = Directory
    BY DEF Closed
  <2>1. x = Stored \/ Below(Stored, x)
    BY <1>3
  <2>2. Below(Stored, y)
    BY <2>1, BelowTransitive, PathNames, BoundAssumption
  <2> QED
    BY <1>3, <2>2, NotBelowItself
<1>6. \A x \in Paths : node[x] \in Uploads => x = Stored /\ node[x] = 1
  BY <1>3, Numbers
<1>7. Shape(node, cells, kind)
  <2>1. Unshared(node)
    BY <1>6 DEF Unshared
  <2>2. kind[1] \in Formats
    BY Numbers, BoundAssumption DEF Init, Formats
  <2> QED
    BY <1>1, <1>4, <1>5, <1>6, <2>1, <2>2 DEF Shape, TypeInv, DiskOK
<1> QED
  BY <1>1, <1>2, <1>7 DEF FileInv, TreeInv

LEMMA FileStep ==
    ASSUME FileInv, [Next]_vars
    PROVE  FileInv'
<1>1. TypeInv' /\ Counts'
  BY TypeStep, CountStep DEF FileInv
<1>2. CASE UNCHANGED vars
  <2>1. calm' \in BOOLEAN /\ Changing' = Changing
    BY <1>2 DEF vars, history, FileInv, Changing, Reqs
  <2> QED
    BY <1>1, <1>2, <2>1 DEF vars, disk, history, FileInv, TreeInv
<1>3. CASE Next
  <2>1. calm' \in BOOLEAN
    BY <1>3 DEF Next, Observe
  <2>2. ASSUME calm'
        PROVE  /\ \A r, s \in Changing' : r = s
               /\ \A r \in Changing' : Progress(node', cells', kind', was', req'[r])
               /\ Changing' = {} => Shape(node', cells', kind')
    <3>1. calm /\ (Rests \/ Starts \/ GoesOn \/ Answers \/ Fails)
      BY <1>3, <2>2, CalmStep DEF FileInv
    <3>2. CASE Rests
      BY <3>1, <3>2 DEF Rests, disk, FileInv, TreeInv
    <3>3. CASE Starts \/ GoesOn
      BY <3>3 DEF Starts, GoesOn
    <3>4. CASE Answers \/ Fails
      BY <3>4 DEF Answers, Ends, Fails, FailsInPart
    <3> QED
      BY <3>1, <3>2, <3>3, <3>4
  <2>3. TreeInv'
    BY <2>2 DEF TreeInv
  <2> QED
    BY <1>1, <2>1, <2>3 DEF FileInv
<1> QED
  BY <1>2, <1>3

(***************************************************************************)
(* AloneAsAsked: create_directory, delete_entry, rename_entry and the two  *)
(* ways to write a file do what they were asked to when they run alone,    *)
(* refuse what they refuse without a trace, and leave a stated part of it  *)
(* when one of their calls fails.                                          *)
(***************************************************************************)
THEOREM AloneDoesAsAsked == Spec => AloneAsAsked
<1> DEFINE AsAsked == \A r \in Changing : calm' /\ Changing' = {} =>
                         IF mishaps' = mishaps THEN Tree' = Result(req[r], was)
                         ELSE Tree' \in Parts(req[r], was)
<1>1. ASSUME FileInv, [Next]_vars
      PROVE  [AsAsked]_vars
  <2> SUFFICES ASSUME Next, NEW r \in Changing, calm', Changing' = {}
               PROVE  IF mishaps' = mishaps THEN Tree' = Result(req[r], was)
                      ELSE Tree' \in Parts(req[r], was)
    BY <1>1
  <2>1. Rests \/ Starts \/ GoesOn \/ Answers \/ Fails
    BY <1>1, CalmStep DEF FileInv
  <2>2. Answers \/ Fails
    BY <2>1 DEF Rests, Starts, GoesOn
  <2>3. Tree' = TreeOf(node', cells', kind')
    BY TreeWillBe DEF TreeFact
  <2>4. CASE Answers
    BY <2>3, <2>4 DEF Answers, Ends
  <2>5. CASE Fails
    BY <2>3, <2>5 DEF Fails, FailsInPart
  <2> QED
    BY <2>2, <2>4, <2>5
<1>2. FileInv /\ [Next]_vars => [AsAsked]_vars
  BY <1>1
<1>3. FileInv /\ [Next]_vars => FileInv'
  BY FileStep
<1> QED
  BY <1>2, <1>3, FileInit, PTL DEF Spec, AloneAsAsked

(***************************************************************************)
(* AloneIsAtomic: the file store implements FileTree.                      *)
(***************************************************************************)
Shown == IF ~calm THEN Nothing ELSE IF Changing = {} THEN Tree ELSE was

LEMMA ShownInit ==
    ASSUME Init
    PROVE  Atomic!Init
<1>1. FileInv /\ calm = TRUE /\ Changing = {}
  BY FileInit, NoneAssumption DEF Init, Changing, Idle, Request, Changes
<1>2. Tree = TreeOf(node, cells, kind)
  BY TreeIs DEF TreeFact
<1>3. Tree \in Trees /\ Closed(Tree)
  BY <1>1, <1>2, ShapeTree DEF FileInv, TreeInv
<1> QED
  BY <1>1, <1>3, AtomicIs DEF Atomic!Init, Trees

\* What a request that runs alone answers is one step of FileTree.
LEMMA OutcomeIsChange ==
    ASSUME TypeInv, NEW r \in Reqs, r \in Changing, NEW t
    PROVE  \E p \in Paths :
             \/ \E u \in 1..MaxUploads : Result(req[r], t) = Atomic!AfterUpload(t, p, u)
             \/ Result(req[r], t) = Atomic!AfterMkdir(t, p)
             \/ Result(req[r], t) = Atomic!AfterDelete(t, p)
             \/ \E new \in Paths : Result(req[r], t) = Atomic!AfterRename(t, p, new)
<1>1. /\ req[r].op \in {"upload", "mkdir", "delete", "rename"} /\ req[r].p \in Paths
      /\ req[r].op = "rename" => req[r].new \in Paths
      /\ req[r].op = "upload" => req[r].u \in 1..MaxUploads
  BY Changer DEF Changes, Uploads
<1> QED
  BY <1>1, OutcomeIs

\* And what one that fails leaves is a part of it.
LEMMA PartOfChange ==
    ASSUME TypeInv, NEW r \in Reqs, r \in Changing, NEW t, NEW s \in Parts(req[r], t)
    PROVE  \E p \in Paths :
             \/ s \in Atomic!PartsOfUpload(t, p) \/ s \in Atomic!PartsOfMkdir(t, p)
             \/ s \in Atomic!PartsOfDelete(t, p)
             \/ \E new \in Paths : s \in Atomic!PartsOfRename(t, p, new)
<1>1. /\ req[r].op \in {"upload", "mkdir", "delete", "rename"} /\ req[r].p \in Paths
      /\ req[r].op = "rename" => req[r].new \in Paths
  BY Changer DEF Changes
<1> QED
  BY <1>1, PartsIs

LEMMA ShownStep ==
    ASSUME FileInv, [Next]_vars
    PROVE  [Atomic!Next]_<<Shown, calm>>
<1>1. CASE UNCHANGED vars
  <2>1. Tree' = Tree
    BY <1>1, TreeIs, TreeWillBe DEF TreeFact, vars, disk
  <2>2. Changing' = Changing
    BY <1>1 DEF vars, Changing, Reqs
  <2>3. Shown' = Shown /\ calm' = calm
    BY <1>1, <2>1, <2>2 DEF vars, history, Shown, Nothing
  <2> QED
    BY <2>3
<1>2. CASE Next /\ ~calm'
  <2>1. calm' = FALSE
    BY <1>2 DEF Next, Observe
  <2>2. Shown' = Atomic!Nothing
    BY <1>2 DEF Shown, Nothing, Atomic!Nothing
  <2> QED
    BY <2>1, <2>2 DEF Atomic!Next, Shown
<1>3. CASE Next /\ calm'
  <2>1. calm /\ (Rests \/ Starts \/ GoesOn \/ Answers \/ Fails)
    BY <1>1, <1>3, CalmStep DEF FileInv
  <2>2. calm' = calm
    BY <1>3, <2>1 DEF FileInv, Next, Observe
  <2>3. Tree = TreeOf(node, cells, kind) /\ Tree' = TreeOf(node', cells', kind')
    BY TreeIs, TreeWillBe DEF TreeFact
  <2>4. CASE Rests
    <3>1. Tree' = Tree
      BY <2>3, <2>4 DEF Rests, disk
    <3> QED
      BY <1>3, <2>1, <2>2, <2>4, <3>1 DEF Rests, Shown
  <2>5. CASE Starts \/ GoesOn
    BY <1>3, <2>1, <2>2, <2>5 DEF Starts, GoesOn, Shown
  <2>6. CASE Answers
    <3>1. PICK r \in Reqs : Changing = {r} /\ Ends(node', cells', kind', was, req[r])
      BY <2>6 DEF Answers
    <3>2. Shown = was /\ Shown' = Result(req[r], was)
      BY <1>3, <2>1, <2>3, <2>6, <3>1 DEF Answers, Ends, Shown
    <3>3. Atomic!Change
      BY <3>1, <3>2, OutcomeIsChange DEF FileInv, Atomic!Change, Shown
    <3> QED
      BY <2>1, <2>2, <3>3 DEF Atomic!Next
  <2>7. CASE Fails
    <3>1. PICK r \in Reqs : Changing = {r} /\ FailsInPart(r)
      BY <2>7 DEF Fails
    <3>2. Shown = was /\ Shown' \in Parts(req[r], was)
      BY <1>3, <2>1, <2>3, <2>7, <3>1 DEF Fails, FailsInPart, Shown
    <3>3. Atomic!Part
      BY <3>1, <3>2, PartOfChange DEF FileInv, Atomic!Part, Shown
    <3> QED
      BY <2>1, <2>2, <3>3 DEF Atomic!Next
  <2> QED
    BY <2>1, <2>4, <2>5, <2>6, <2>7
<1> QED
  BY <1>1, <1>2, <1>3

THEOREM FileStoreImplementsTree == Spec => AloneIsAtomic
<1>1. Init => Atomic!Init
  BY ShownInit
<1>2. FileInv /\ [Next]_vars => [Atomic!Next]_<<Shown, calm>>
  BY ShownStep
<1>3. FileInv /\ [Next]_vars => FileInv'
  BY FileStep
<1> QED
  BY <1>1, <1>2, <1>3, FileInit, PTL DEF Spec, AloneIsAtomic, Atomic!Spec, Shown

=============================================================================
