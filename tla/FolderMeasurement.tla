------------------------- MODULE FolderMeasurement -------------------------
(***************************************************************************)
(* measure_folder and collect_regular_files of src/tpm.rs: a directory is  *)
(* walked, the regular files found are sorted by name, and their contents  *)
(* are read and hashed.  Each access to the file system is a step, and     *)
(* files, directories and links may change between two of them.            *)
(*                                                                         *)
(* A path is a sequence of components and a component a sequence of        *)
(* letters joined by backslashes, which Linux allows in a file name.  The  *)
(* first component of a path outside the measured root is Outside.         *)
(***************************************************************************)
EXTENDS Integers, Sequences, FiniteSets, SequencesExt

CONSTANTS
    Paths,              \* paths below the measured root
    OutsidePaths,       \* paths outside it
    Nodes,              \* what a path below the root can be
    Contents,           \* contents of files, as numbers
    MaxLinks,           \* links that the kernel follows for one path
    MaxChanges,         \* changes of the file system (a bound)
    None

\* What is at a path: a file, a directory, a link, nothing, or a FIFO, socket
\* or device.
File(c) == [kind |-> "file", content |-> c]
Link(p) == [kind |-> "link", to |-> p]
Dir == [kind |-> "dir"]
Absent == [kind |-> "absent"]
Special == [kind |-> "special"]

Outside == <<0>>
Inside(p) == p = <<>> \/ p[1] # Outside
Parent(p) == SubSeq(p, 1, Len(p) - 1)

ASSUME BoundsAssumption == MaxLinks \in Nat /\ MaxChanges \in Nat
ASSUME PathsAssumption ==
    /\ IsFiniteSet(Paths) /\ IsFiniteSet(OutsidePaths)
    /\ Paths \cup OutsidePaths \subseteq Seq(Seq(Nat)) \ {<<>>}
    /\ \A p \in Paths : Inside(p) /\ (Parent(p) = <<>> \/ Parent(p) \in Paths)
    /\ \A p \in OutsidePaths : ~Inside(p)
ASSUME NodesAssumption ==
    /\ 0 \in Contents /\ Contents \subseteq Nat
    /\ Nodes \subseteq {Absent, Dir, Special} \cup {File(c) : c \in Contents}
                       \cup {Link(p) : p \in Paths \cup OutsidePaths}
ASSUME NoneAssumption == None \notin Seq(Seq(Nat)) \cup Nat

VARIABLES
    fs,                 \* the file system
    changes, touched,   \* number of changes, and the paths changed since the start
    pc,                 \* next step of measure_folder
    dir,                \* the directory that is about to be read
    stack,              \* children yet to be visited, innermost directory last
    link,               \* the link being examined and its resolved target
    out,                \* paths collected by the walk
    entries,            \* sorted paths yet to be read
    measurement,        \* [path, name, content] of every file read
    sources,            \* the resolved paths that the contents were read from
    total               \* what was fed to the hasher of total_hash

fsVars == <<fs, changes, touched>>
walkVars == <<dir, stack, link, out>>
readVars == <<entries, measurement, sources, total>>
vars == <<fsVars, pc, walkVars, readVars>>

-----------------------------------------------------------------------------
(* The file system (external) *)

\* A path can hold something only in a directory.
WellFormed(f) ==
    \A p \in Paths : f[p] # Absent /\ Parent(p) # <<>> => f[Parent(p)] = Dir

NodeAt(f, p) == IF p = <<>> THEN Dir ELSE IF p \in DOMAIN f THEN f[p] ELSE Absent

\* The components of paths.
Components == UNION {Range(p) : p \in Paths \cup OutsidePaths}

\* The path that p leads to when links are followed, or None: nothing there,
\* or more links than the kernel follows.  x is the number of links that may
\* still be followed, and the path.
Resolve(f, path) ==
    LET resolve[x \in (0..MaxLinks) \X Seq(Components)] ==
          LET n == x[1]
              p == x[2]
              up == resolve[<<n, Parent(p)>>]
              q == Append(up, p[Len(p)])
          IN  IF p = <<>> THEN <<>>
              ELSE IF up = None THEN None
              ELSE IF NodeAt(f, up) # Dir \/ NodeAt(f, q) = Absent THEN None
              ELSE IF f[q].kind # "link" THEN q
              ELSE IF n = 0 THEN None
              ELSE resolve[<<n - 1, f[q].to>>]
    IN  resolve[<<MaxLinks, path>>]

\* lstat: the directories of the path are followed, the last component is not.
LStat(f, p) ==
    LET up == Resolve(f, Parent(p))
    IN  IF up = None \/ NodeAt(f, up) # Dir THEN Absent ELSE NodeAt(f, Append(up, p[Len(p)]))

\* Something else happens to one path while the program runs.
Change(p, node) ==
    /\ pc \notin {"ok", "internal"}
    /\ changes < MaxChanges
    /\ node # fs[p]
    /\ WellFormed([fs EXCEPT ![p] = node])
    /\ fs' = [fs EXCEPT ![p] = node]
    /\ changes' = changes + 1
    /\ touched' = IF pc = "start" THEN touched ELSE touched \cup {p}
    /\ UNCHANGED <<pc, walkVars, readVars>>

-----------------------------------------------------------------------------
(* Names *)

\* The bytes of sequences in lexicographic order.
Less(s, t) ==
    \E i \in 1..Len(t) :
        /\ i <= Len(s) + 1
        /\ \A j \in 1..(i - 1) : s[j] = t[j]
        /\ i = Len(s) + 1 \/ s[i] < t[i]

\* Paths are ordered component by component.
PathLess(p, q) ==
    \E i \in 1..Len(q) :
        /\ i <= Len(p) + 1
        /\ \A j \in 1..(i - 1) : p[j] = q[j]
        /\ i = Len(p) + 1 \/ Less(p[i], q[i])

\* The elements of a set, sorted.
Sorted(S, Before(_, _)) ==
    CHOOSE s \in [1..Cardinality(S) -> S] : \A i, j \in DOMAIN s : i < j => Before(s[i], s[j])

\* to_string_lossy().replace('\\', "/"): the letters between separators,
\* whichever separator it was.
Name(p) == FlattenSeq(p)

\* The stable sort of the collected paths by name.
SortedByName(ps) ==
    LET order == Sorted(1..Len(ps), LAMBDA i, j :
                    Less(Name(ps[i]), Name(ps[j])) \/ (Name(ps[i]) = Name(ps[j]) /\ i < j))
    IN  [i \in 1..Len(ps) |-> ps[order[i]]]

\* SHA-256 of a file: 32 bytes, one symbol, different for different contents.
Hash(c) == 100 + c

-----------------------------------------------------------------------------
InitFs ==
    {f \in [Paths \cup OutsidePaths -> Nodes \cup {Dir, File(0)}] :
        /\ \A p \in Paths : f[p] \in Nodes
        /\ \A p \in OutsidePaths : f[p] = IF Len(p) = 1 THEN Dir ELSE File(0)
        /\ WellFormed(f)}

Init ==
    /\ fs \in InitFs
    /\ changes = 0
    /\ touched = {}
    /\ pc = "start"
    /\ dir = None
    /\ stack = <<>>
    /\ link = [path |-> None, target |-> None]
    /\ out = <<>>
    /\ entries = <<>>
    /\ measurement = <<>>
    /\ sources = {}
    /\ total = <<>>

\* metadata and canonicalize of the root; it may be missing or no directory.
Start ==
    /\ pc = "start"
    /\ \/ pc' = "internal" /\ UNCHANGED dir
       \/ pc' = "read_dir" /\ dir' = <<>>
    /\ UNCHANGED <<fsVars, stack, link, out, readVars>>

\* Any access to a directory or file may fail, which ends the measurement.
IoError ==
    /\ pc \in {"read_dir", "visit", "read"}
    /\ pc = "visit" => stack # <<>> /\ stack[Len(stack)] # <<>>
    /\ pc = "read" => entries # <<>>
    /\ pc' = "internal"
    /\ UNCHANGED <<fsVars, walkVars, readVars>>

Children(d) ==
    LET at == Resolve(fs, d)
        below == {q \in DOMAIN fs : Parent(q) = at /\ (at = <<>> => Inside(q)) /\ fs[q] # Absent}
    IN  {Append(d, p[Len(p)]) : p \in below}

\* Faulty variant: the children are visited in the order read_dir gives them.
ReadDirUnsorted ==
    /\ pc = "read_dir"
    /\ Resolve(fs, dir) # None
    /\ NodeAt(fs, Resolve(fs, dir)) = Dir
    /\ \E order \in SetToSeqs(Children(dir)) : stack' = Append(stack, order)
    /\ pc' = "visit"
    /\ UNCHANGED <<fsVars, dir, link, out, readVars>>

\* read_dir, and children.sort().
ReadDir ==
    /\ pc = "read_dir"
    /\ \/ /\ Resolve(fs, dir) # None
          /\ NodeAt(fs, Resolve(fs, dir)) = Dir
          /\ stack' = Append(stack, Sorted(Children(dir), PathLess))
          /\ pc' = "visit"
       \/ /\ Resolve(fs, dir) = None \/ NodeAt(fs, Resolve(fs, dir)) # Dir
          /\ pc' = "internal"
          /\ UNCHANGED stack
    /\ UNCHANGED <<fsVars, dir, link, out, readVars>>

Child == Head(stack[Len(stack)])
Visited == [stack EXCEPT ![Len(stack)] = Tail(@)]

\* Faulty variant: a child that is gone ends the visit of its directory.
VisitGoneEndsDir ==
    /\ pc = "visit"
    /\ stack # <<>> /\ stack[Len(stack)] # <<>>
    /\ LStat(fs, Child) = Absent
    /\ stack' = [stack EXCEPT ![Len(stack)] = <<>>]
    /\ UNCHANGED <<fsVars, pc, dir, link, out, readVars>>

\* symlink_metadata fails for a child that is gone by now.
VisitGone ==
    /\ pc = "visit"
    /\ stack # <<>> /\ stack[Len(stack)] # <<>>
    /\ LStat(fs, Child) = Absent
    /\ pc' = "internal"
    /\ UNCHANGED <<fsVars, walkVars, readVars>>

\* Directories are walked, files collected, links examined, others skipped.
Visit ==
    /\ pc = "visit"
    /\ stack # <<>> /\ stack[Len(stack)] # <<>>
    /\ stack' = Visited
    /\ LET kind == LStat(fs, Child).kind
       IN  \/ kind = "dir" /\ pc' = "read_dir" /\ dir' = Child /\ UNCHANGED <<link, out>>
           \/ kind = "file" /\ out' = Append(out, Child) /\ UNCHANGED <<pc, dir, link>>
           \/ /\ kind = "link" /\ pc' = "canonicalize"
              /\ link' = [path |-> Child, target |-> None]
              /\ UNCHANGED <<dir, out>>
           \/ kind = "special" /\ UNCHANGED <<pc, dir, link, out>>
    /\ UNCHANGED <<fsVars, readVars>>

\* Faulty variant: a link may lead anywhere.
CanonicalizeAnywhere ==
    /\ pc = "canonicalize"
    /\ \/ /\ Resolve(fs, link.path) # None
          /\ link' = [link EXCEPT !.target = Resolve(fs, link.path)]
          /\ pc' = "target"
       \/ Resolve(fs, link.path) = None /\ pc' = "visit" /\ UNCHANGED link
    /\ UNCHANGED <<fsVars, dir, stack, out, readVars>>

\* A link that leaves the root, dangles or cannot be resolved is skipped.
Canonicalize ==
    /\ pc = "canonicalize"
    /\ \/ /\ Resolve(fs, link.path) # None
          /\ Inside(Resolve(fs, link.path))
          /\ link' = [link EXCEPT !.target = Resolve(fs, link.path)]
          /\ pc' = "target"
       \/ pc' = "visit" /\ UNCHANGED link
          /\ (Resolve(fs, link.path) # None => ~Inside(Resolve(fs, link.path)))
    /\ UNCHANGED <<fsVars, dir, stack, out, readVars>>

\* metadata(&target): only a link to a regular file is collected.
TargetMetadata ==
    /\ pc = "target"
    /\ LET at == Resolve(fs, link.target)
       IN  IF at # None /\ NodeAt(fs, at).kind = "file" THEN out' = Append(out, link.path)
           ELSE UNCHANGED out
    /\ pc' = "visit"
    /\ UNCHANGED <<fsVars, dir, stack, link, readVars>>

\* The end of one directory, and of the walk: the names are sorted.
LeaveDir ==
    /\ pc = "visit"
    /\ stack # <<>> /\ stack[Len(stack)] = <<>>
    /\ stack' = SubSeq(stack, 1, Len(stack) - 1)
    /\ \/ Len(stack) > 1 /\ UNCHANGED <<pc, entries>>
       \/ Len(stack) = 1 /\ pc' = "read" /\ entries' = SortedByName(out)
    /\ UNCHANGED <<fsVars, dir, link, out, measurement, sources, total>>

\* Faulty variant: the name is hashed without its length.
HashEntryNoLength(name, c) == name \o <<Hash(c)>>

\* u64_le(len(name)) || name || hash
HashEntry(name, c) == <<Len(name)>> \o name \o <<Hash(c)>>

\* Faulty variant: a file that cannot be read counts as empty.
ReadGoneAsEmpty ==
    /\ pc = "read" /\ entries # <<>>
    /\ Resolve(fs, Head(entries)) = None
    /\ measurement' = Append(measurement,
         [path |-> Head(entries), name |-> Name(Head(entries)), content |-> None])
    /\ entries' = Tail(entries)
    /\ UNCHANGED <<fsVars, pc, walkVars, sources, total>>

\* fs::read of a path that is gone or a directory by now.
ReadGone ==
    /\ pc = "read" /\ entries # <<>>
    /\ LET at == Resolve(fs, Head(entries))
       IN  at = None \/ NodeAt(fs, at) = Dir
    /\ pc' = "internal"
    /\ UNCHANGED <<fsVars, walkVars, readVars>>

\* fs::read follows the path again.  A path that is a FIFO by now blocks.
ReadFile ==
    /\ pc = "read" /\ entries # <<>>
    /\ LET p == Head(entries)
           at == Resolve(fs, p)
       IN  /\ at # None
           /\ NodeAt(fs, at).kind = "file"
           /\ measurement' = Append(measurement,
                [path |-> p, name |-> Name(p), content |-> fs[at].content])
           /\ sources' = sources \cup {at}
           /\ total' = total \o HashEntry(Name(p), fs[at].content)
    /\ entries' = Tail(entries)
    /\ UNCHANGED <<fsVars, pc, walkVars>>

Finish ==
    /\ pc = "read" /\ entries = <<>>
    /\ pc' = "ok"
    /\ UNCHANGED <<fsVars, walkVars, readVars>>

Next ==
    \/ \E p \in Paths, n \in Nodes : Change(p, n)
    \/ Start \/ IoError \/ ReadDir \/ VisitGone \/ Visit \/ Canonicalize
    \/ TargetMetadata \/ LeaveDir \/ ReadGone \/ ReadFile \/ Finish

Spec == Init /\ [][Next]_vars

-----------------------------------------------------------------------------
(* Properties *)

\* The paths that the documentation says are measured in file system f:
\* regular files, and links that resolve to one inside the root.
Measurable(f) ==
    {p \in Paths :
        /\ f[p] # Absent
        /\ \/ f[p].kind = "file"
           \/ /\ f[p].kind = "link"
              /\ Resolve(f, p) # None
              /\ Inside(Resolve(f, p))
              /\ NodeAt(f, Resolve(f, p)).kind = "file"}

\* The measurement of f, by name and then by path.
Reference(f) ==
    LET sorted == Sorted(Measurable(f), LAMBDA p, q :
                    Less(Name(p), Name(q)) \/ (Name(p) = Name(q) /\ PathLess(p, q)))
    IN  [i \in 1..Len(sorted) |->
            [path |-> sorted[i], name |-> Name(sorted[i]),
             content |-> f[Resolve(f, sorted[i])].content]]

\* The list of names and hashes that a string fed to the hasher stands for.
Decode(s) ==
    LET decode[i \in 1..(Len(s) + 1)] ==
          IF i > Len(s) THEN <<>>
          ELSE IF i + s[i] + 1 > Len(s) THEN <<None>>
          ELSE <<[name |-> SubSeq(s, i + 1, i + s[i]), hash |-> s[i + s[i] + 1]]>>
               \o decode[i + s[i] + 2]
    IN  decode[1]

\* The types of the variables.
TypeOK ==
    /\ fs \in [Paths \cup OutsidePaths -> Nodes \cup {Dir, File(0)}]
    /\ changes \in 0..MaxChanges
    /\ touched \subseteq Paths
    /\ pc \in {"start", "read_dir", "visit", "canonicalize", "target", "read", "ok", "internal"}
    /\ dir \in Seq(Components) \cup {None}
    /\ \A i \in 1..Len(measurement) : measurement[i].content \in Contents
    /\ Len(measurement) + Len(entries) <= Len(out)

\* A directory that does not change under the measurement has one measurement,
\* that of the documentation: every regular file and every link to one inside
\* the root, nothing else, in an order that does not depend on read_dir, also
\* where two paths get the same name.
UndisturbedExact == pc = "ok" /\ touched = {} => measurement = Reference(fs)

\* Whatever changes under the measurement, a regular file that does not change,
\* in directories that do not, is measured once and with its contents; and a
\* FIFO, socket or device that does not change is not measured.
Untouched(p) == \A n \in 1..Len(p) : SubSeq(p, 1, n) \notin touched
UntouchedExact ==
    pc = "ok" =>
        \A p \in Paths : Untouched(p) =>
            LET found == {i \in 1..Len(measurement) : measurement[i].path = p}
            IN  /\ fs[p].kind = "file" =>
                     /\ Cardinality(found) = 1
                     /\ \A i \in found : measurement[i].content = fs[p].content
                /\ fs[p].kind \in {"special", "dir", "absent"} => found = {}

\* total_hash stands for the names and file hashes of the response, all of
\* them and in their order: from the string fed to the hasher, where names of
\* any length follow each other, they can be read back.
TotalBindsEntries ==
    pc = "ok" =>
        Decode(total) = [i \in 1..Len(measurement) |->
            [name |-> measurement[i].name, hash |-> Hash(measurement[i].content)]]

\* Contents are read outside the root only after something changed below it: a
\* link is followed again when its file is read, and while nothing changes that
\* is where the walk found it to lead, also when the measurement fails later.
SourcesInside == touched = {} => \A p \in sources : Inside(p)
=============================================================================
