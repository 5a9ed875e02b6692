------------------------------ MODULE LiveFiles ------------------------------
(***************************************************************************)
(* Live files of one generation (hand-core: files.rs and page.rs): writes  *)
(* that are staged beside the workspace and installed in one step, and     *)
(* paged walks over the workspace, the listing of a directory and the      *)
(* search below one.  Both run in threads of their own while the tools of  *)
(* the generation change the same tree.  A name is a sequence of bytes,    *)
(* because the two orders that a walk uses, that of paths and that of      *)
(* their text, differ in the byte that separates names.                    *)
(***************************************************************************)
EXTENDS Integers, Sequences, FiniteSets, Functions

CONSTANTS
    Separator,   \* the byte between two names
    Paths,       \* paths below the workspace, sequences of names
    Writers,     \* writes
    PathOf, Overwrite, \* [Writers -> path, BOOLEAN]
    Kinds,       \* the walks that are made: "list" or "search"
    Matching,    \* paths that the expression of a search matches
    Limit,       \* entries of a page
    MaxEntries,  \* entries of one walk
    MaxChanges,  \* bound: changes made by tools
    MaxFaults,   \* bound: failed file operations
    None

Parent(p) == SubSeq(p, 1, Len(p) - 1)

\* What any workspace has: a path is a sequence of names, its parent is the root or a path, and a
\* written file is neither a directory nor another kind of entry.
Parameters ==
    /\ \A p \in Paths : p \in Seq(Seq(Nat)) /\ p # <<>> /\ Parent(p) \in Paths \cup {<<>>}
    /\ PathOf \in [Writers -> Paths] /\ Overwrite \in [Writers -> BOOLEAN] /\ MaxFaults \in Nat
    /\ {None, "dir", "tool", "part"} \cap Writers = {} /\ None \notin {"dir", "tool", "part", "whole"}

ASSUME FilesAssumption == Parameters

VARIABLES
    node,   \* [Paths -> None, "dir", "tool" (a tool's file), a writer (its whole file) or "part"]
    staged, \* [Writers -> None, "part" or "whole"]
    write,  \* [Writers -> where the write is]
    walk,   \* [at, kind, pending, batch, seen, cursor, got, stable]
    changes, faults

vars == <<node, staged, write, walk, changes, faults>>

Exists(p) == p # <<>> => node[p] # None
IsDir(p) == p # <<>> => node[p] = "dir"
Children(d) == {p \in Paths : Parent(p) = d /\ Exists(p)}

NoWalk == [at |-> "idle", kind |-> None, pending |-> {}, batch |-> {}, seen |-> {},
           cursor |-> None, got |-> <<>>, stable |-> {}]

Init ==
    /\ node \in [Paths -> {None, "dir", "tool"}]
    /\ \A p \in Paths : node[p] # None => IsDir(Parent(p))
    /\ staged = [w \in Writers |-> None] /\ write = [w \in Writers |-> "idle"]
    /\ walk = NoWalk
    /\ changes = 0 /\ faults = 0

-----------------------------------------------------------------------------
(* The two orders *)

\* Lexicographic order of sequences over an order of their elements.
Before(s, t, Less(_, _)) ==
    \E i \in 1..Len(t) :
        /\ \A j \in 1..(i - 1) : j <= Len(s) /\ s[j] = t[j]
        /\ i > Len(s) \/ Less(s[i], t[i])

Smaller(a, b) == a < b
NameBefore(m, n) == Before(m, n, Smaller)

\* The order of PathBuf, name by name.
PathBefore(p, q) == Before(p, q, NameBefore)

\* project_logical_path: the text of a path.
Logical(p) ==
    LET text[n \in 0..Len(p)] == IF n = 0 THEN <<>> ELSE text[n - 1] \o <<Separator>> \o p[n]
    IN  text[Len(p)]

\* An entry is left for this page when its text is after the cursor.
Remaining(cursor, p) == cursor # None => Before(Logical(cursor), Logical(p), Smaller)

\* The entries in the order of their paths.
Sorted(S) ==
    CHOOSE s \in Injection(1..Cardinality(S), S) :
        \A i, j \in DOMAIN s : i < j => PathBefore(s[i], s[j])

Take(s, n) == SubSeq(s, 1, IF Len(s) > n THEN n ELSE Len(s))

\* Mutant: the cursor is the entry after the last one that is kept.
Page_CursorOnNext(entries) ==
    [items |-> Take(entries, Limit),
     next |-> IF Len(entries) > Limit THEN entries[Limit + 1] ELSE None]

\* page: of at most Limit + 1 entries the first Limit are kept, and the cursor is the last of them.
Page(entries) ==
    [items |-> Take(entries, Limit),
     next |-> IF Len(entries) > Limit THEN entries[Limit] ELSE None]

-----------------------------------------------------------------------------
(* list, find and grep: each page reads the tree anew *)

Request(kind, cursor, got, stable) ==
    walk' = [at |-> "scan", kind |-> kind, pending |-> {<<>>}, batch |-> {}, seen |-> {},
             cursor |-> cursor, got |-> got, stable |-> stable]

Begin ==
    /\ walk.at = "idle"
    /\ \E kind \in Kinds : Request(kind, None, <<>>, {p \in Paths : Exists(p)})
    /\ UNCHANGED <<node, staged, write, changes, faults>>

NextPage ==
    /\ walk.at = "page"
    /\ Request(walk.kind, walk.cursor, walk.got, walk.stable)
    /\ UNCHANGED <<node, staged, write, changes, faults>>

\* One directory is opened and its names are read.  The bound on a walk counts what it has seen.
Scan ==
    /\ walk.at = "scan" /\ walk.batch = {}
    /\ \E d \in walk.pending :
          LET full == walk.kind = "search" /\ Cardinality(walk.seen) >= MaxEntries
              over == Cardinality(walk.seen) + Cardinality(Children(d)) > MaxEntries
              left == [walk EXCEPT !.pending = @ \ {d}]
          IN walk' = IF full THEN [walk EXCEPT !.at = "bound"]
                     ELSE IF ~Exists(d) THEN [walk EXCEPT !.at = "not_found"]
                     ELSE IF ~IsDir(d) THEN [walk EXCEPT !.at = "not_directory"]
                     ELSE IF over THEN [walk EXCEPT !.at = "bound"]
                     ELSE IF walk.kind = "list" THEN [left EXCEPT !.seen = Children(d)]
                     ELSE [left EXCEPT !.batch = Children(d)]
    /\ UNCHANGED <<node, staged, write, changes, faults>>

\* A search looks up each name that it read, and goes on below the directories.
Visit ==
    /\ walk.at = "scan"
    /\ \E p \in walk.batch :
          walk' = IF ~Exists(p) THEN [walk EXCEPT !.at = "not_found"]
                  ELSE [walk EXCEPT !.batch = @ \ {p}, !.seen = @ \cup {p},
                                    !.pending = IF IsDir(p) THEN @ \cup {p} ELSE @]
    /\ UNCHANGED <<node, staged, write, changes, faults>>

\* The entries are sorted, those up to the cursor skipped, and the others looked up again until
\* there is one match more than a page holds; an entry that is gone fails the request.
Project ==
    LET entries == Sorted({p \in walk.seen : Remaining(walk.cursor, p)})
        hits == SelectSeq(entries, LAMBDA p : walk.kind = "search" => p \in Matching)
        last == IF Len(hits) > Limit THEN hits[Limit + 1] ELSE None
        page == Page(Take(hits, Limit + 1))
    IN /\ walk.at = "scan" /\ walk.pending = {} /\ walk.batch = {}
       /\ walk' = IF \E p \in Range(entries) : ~Exists(p) /\ (last # None => ~PathBefore(last, p))
                  THEN [walk EXCEPT !.at = "not_found"]
                  ELSE [walk EXCEPT !.at = IF page.next = None THEN "done" ELSE "page",
                                    !.cursor = page.next, !.got = @ \o page.items,
                                    !.seen = {}]
       /\ UNCHANGED <<node, staged, write, changes, faults>>

-----------------------------------------------------------------------------
(* write and write_from_file *)

Step(w, at) == write' = [write EXCEPT ![w] = at]
Ancestors(p) == {q \in Paths : Len(q) < Len(p) /\ q = SubSeq(p, 1, Len(q))}

\* create_dir_all of the parent.
MakeParents(w) ==
    /\ write[w] = "idle"
    /\ IF \A q \in Ancestors(PathOf[w]) : node[q] \in {None, "dir"}
       THEN /\ node' = [p \in Paths |-> IF p \in Ancestors(PathOf[w]) THEN "dir" ELSE node[p]]
            /\ Step(w, "stage")
       ELSE Step(w, "failed") /\ UNCHANGED node
    /\ UNCHANGED <<staged, walk, changes, faults>>

Stage(w) ==
    /\ write[w] = "stage"
    /\ staged' = [staged EXCEPT ![w] = "part"] /\ Step(w, "fill")
    /\ UNCHANGED <<node, walk, changes, faults>>

Fill(w) ==
    /\ write[w] = "fill"
    /\ staged' = [staged EXCEPT ![w] = "whole"] /\ Step(w, "install")
    /\ UNCHANGED <<node, walk, changes, faults>>

\* Mutant: a copy that ends early is installed.
Fails_Ignored(w) ==
    /\ write[w] = "fill" /\ faults < MaxFaults
    /\ faults' = faults + 1 /\ Step(w, "install")
    /\ UNCHANGED <<node, staged, walk, changes>>

\* The staging file cannot be created, written, synced or installed, or the object that is copied
\* is not as long as it should be.
Fails(w) ==
    /\ write[w] \in {"stage", "fill", "install"} /\ faults < MaxFaults
    /\ faults' = faults + 1 /\ Step(w, "cleanup")
    /\ UNCHANGED <<node, staged, walk, changes>>

\* Mutant: the staged file is renamed over the path whatever the request says.
Install_Renames(w) ==
    /\ write[w] = "install"
    /\ IF IsDir(Parent(PathOf[w])) /\ node[PathOf[w]] # "dir"
       THEN /\ node' = [node EXCEPT ![PathOf[w]] = w]
            /\ staged' = [staged EXCEPT ![w] = None] /\ Step(w, "entry")
       ELSE Step(w, "cleanup") /\ UNCHANGED <<node, staged>>
    /\ UNCHANGED <<walk, changes, faults>>

\* With overwrite the staged file is renamed over the path; without, it is linked, which fails on
\* any existing entry, and its staging name removed afterwards.
Install(w) ==
    /\ write[w] = "install"
    /\ IF IsDir(Parent(PathOf[w])) /\ (IF Overwrite[w] THEN node[PathOf[w]] # "dir" ELSE node[PathOf[w]] = None)
       THEN /\ node' = [node EXCEPT ![PathOf[w]] = IF staged[w] = "whole" THEN w ELSE "part"]
            /\ staged' = IF Overwrite[w] THEN [staged EXCEPT ![w] = None] ELSE staged
            /\ Step(w, IF Overwrite[w] THEN "entry" ELSE "unlink")
       ELSE Step(w, "cleanup") /\ UNCHANGED <<node, staged>>
    /\ UNCHANGED <<walk, changes, faults>>

\* The staging name of a linked file is removed; when that fails the write fails after its effect.
Unlink(w) ==
    /\ write[w] = "unlink"
    /\ \/ staged' = [staged EXCEPT ![w] = None] /\ Step(w, "entry") /\ UNCHANGED faults
       \/ faults < MaxFaults /\ faults' = faults + 1 /\ Step(w, "cleanup") /\ UNCHANGED staged
    /\ UNCHANGED <<node, walk, changes>>

\* A failed write removes its staging file, as far as that succeeds.
Cleanup(w) ==
    /\ write[w] = "cleanup" /\ Step(w, "failed")
    /\ \/ staged' = [staged EXCEPT ![w] = None] /\ UNCHANGED faults
       \/ faults < MaxFaults /\ faults' = faults + 1 /\ UNCHANGED staged
    /\ UNCHANGED <<node, walk, changes>>

\* The entry that is returned is looked up under the path.
Entry(w) ==
    /\ write[w] = "entry"
    /\ Step(w, IF Exists(PathOf[w]) THEN "written" ELSE "failed")
    /\ UNCHANGED <<node, staged, walk, changes, faults>>

-----------------------------------------------------------------------------
(* Tools *)

Tool ==
    /\ changes < MaxChanges /\ changes' = changes + 1
    /\ \E p \in Paths :
          \/ /\ node[p] # "dir" /\ IsDir(Parent(p))
             /\ \E new \in {"tool"} \cup (IF node[p] = None THEN {"dir"} ELSE {}) :
                   node' = [node EXCEPT ![p] = new]
             /\ UNCHANGED walk
          \/ /\ node[p] # None /\ Children(p) = {}
             /\ node' = [node EXCEPT ![p] = None]
             /\ walk' = [walk EXCEPT !.stable = @ \ {p}]
    /\ UNCHANGED <<staged, write, faults>>

-----------------------------------------------------------------------------
Next ==
    \/ Begin \/ NextPage \/ Scan \/ Visit \/ Project \/ Tool
    \/ \E w \in Writers :
          \/ MakeParents(w) \/ Stage(w) \/ Fill(w) \/ Fails(w)
          \/ Install(w) \/ Unlink(w) \/ Cleanup(w) \/ Entry(w)

Spec == Init /\ [][Next]_vars

-----------------------------------------------------------------------------
(* Properties *)

\* TypeOK: what every variable holds; an entry is always below a directory.
TypeOK ==
    /\ node \in [Paths -> {None, "dir", "tool", "part"} \cup Writers]
    /\ \A p \in Paths : node[p] # None => IsDir(Parent(p))
    /\ staged \in [Writers -> {None, "part", "whole"}]
    /\ walk.at \in {"idle", "scan", "page", "done", "not_found", "not_directory", "bound"}
    /\ walk.pending \subseteq Paths \cup {<<>>} /\ walk.batch \cup walk.seen \subseteq Paths

\* WholeFilesOnly: whatever fails and whoever else writes, no path of the workspace ever shows a
\* part of a written file (staging, rename and hard link).
WholeFilesOnly == \A p \in Paths : node[p] # "part"

\* NeverReplaces: a write without overwrite never replaces an entry, also not one that a tool or
\* another write creates in the middle of it.
NeverReplaces ==
    [][\A w \in Writers : ~Overwrite[w] /\ node[PathOf[w]] # w /\ node'[PathOf[w]] = w
                             => node[PathOf[w]] = None]_vars

\* StagingReleased: a write that ended left no staging file, unless removing it failed.
StagingReleased == \A w \in Writers : write[w] \in {"written", "failed"} /\ staged[w] # None => faults > 0

\* ListedOnce: an entry of the directory that is there from the first page of a listing to the last
\* is returned exactly once, whatever else tools and writes add, replace or remove between pages.
ListedOnce ==
    walk.at = "done" /\ walk.kind = "list" =>
        \A p \in walk.stable : Len(p) = 1 =>
            Cardinality({i \in DOMAIN walk.got : walk.got[i] = p}) = 1

\* FilesAreWhole: what LiveFiles::write leaves in the workspace: whole files, no staging files, and
\* every entry below a directory.
FilesAreWhole == TypeOK /\ WholeFilesOnly /\ StagingReleased
=============================================================================
