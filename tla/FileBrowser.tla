---------------------------- MODULE FileBrowser ----------------------------
(***************************************************************************)
(* The path picker of the console (src/internal/runtime/fsbrowse.go and    *)
(* src/internal/httpapi/fsbrowse.go) and the inspection of a project       *)
(* directory (runtime_env.go), whose root a launch resolves again later.   *)
(* Only what lies in a browse root may be seen, as written and with every  *)
(* link followed.  An absolute path is the sequence of its names; a disk   *)
(* maps paths to [kind, to].  The disk does not change within a request.   *)
(***************************************************************************)
EXTENDS Naturals, Sequences, FiniteSets, FiniteSetsExt, SequencesExt

CONSTANTS
    Disks,          \* states of the host's file system
    Policies,       \* [data, global, extra, declared]: sets of roots, the last
                    \* one those an upstream declares for itself
    Typed,          \* paths an administrator types, "." first if relative
    Contexts,       \* paths a form holds, in its order
    NameBefore(_, _), \* the order of names, without case
    Limits,         \* limits of a page, clamped
    MaxContext,     \* browseMaxContext
    ScanCap,        \* hardScanCap
    MaxLinks        \* links EvalSymlinks follows before it gives up

VARIABLES
    disk, settings,
    page,           \* what the picker shows
    form            \* the project directory a form has got from an inspection

browseVars == <<disk, settings, page, form>>

Closed == [kind |-> "closed"]
Host == <<disk, settings>>

Init ==
    /\ disk \in Disks /\ settings \in Policies
    /\ page = Closed /\ form = Closed

-----------------------------------------------------------------------------
(* Paths and links                                                         *)

Fails(error) == [ok |-> FALSE, error |-> error]

EvalSymlinks(path) ==
    LET Walk[done \in Seq(STRING), rest \in Seq(STRING), links \in 0..MaxLinks] ==
          IF rest = <<>> THEN [ok |-> TRUE, path |-> done]
          ELSE LET p == Append(done, Head(rest)) IN
               IF p \notin DOMAIN disk THEN Fails("missing")
               ELSE IF disk[p].kind = "link"
                    THEN IF links = 0 THEN Fails("links")
                         ELSE Walk[<<>>, disk[p].to \o Tail(rest), links - 1]
               ELSE IF disk[p].kind = "file" /\ Len(rest) > 1 THEN Fails("no directory")
               ELSE Walk[p, Tail(rest), links]
    IN  Walk[<<>>, path, MaxLinks]

IsDir(real) == real = <<>> \/ disk[real].kind = "dir"
Lstat(path) ==      \* does not follow the last link
    LET parent == EvalSymlinks(Front(path))
    IN  IF path = <<>> THEN "found"
        ELSE IF ~parent.ok THEN parent.error
        ELSE IF Append(parent.path, Last(path)) \in DOMAIN disk THEN "found"
        ELSE IF IsDir(parent.path) THEN "missing" ELSE "no directory"
Exists(path) == Lstat(path) = "found"

(* NormalizeBrowsePath: ".." goes up in the text, not on the disk.           *)
Absolute(text) == text # <<>> /\ Head(text) # "."
Clean(text) ==
    FoldLeft(LAMBDA path, name :
                IF name # ".." THEN Append(path, name)
                ELSE IF path = <<>> THEN path ELSE Front(path),
             <<>>, text)

(* pathUnderRoot: of the root directory nothing but itself.                  *)
Under(path, root) == path = root \/ (root # <<>> /\ IsPrefix(root, path))
UnderAny(path, roots) == \E root \in roots : Under(path, root)

(* ResolveExistingPathWithinRoots: as written and resolved, in the same root. *)
Resolve(path, roots) ==
    LET real == EvalSymlinks(path)
        within(root) == LET r == EvalSymlinks(root)
                        IN  /\ r.ok
                            /\ Under(path, root) \/ Under(path, r.path)
                            /\ Under(real.path, r.path)
    IN  IF real.ok THEN [ok |-> TRUE, path |-> real.path, allowed |-> \E r \in roots : within(r)]
        ELSE real
Resolves(path, roots) == LET r == Resolve(path, roots) IN r.ok /\ r.allowed

(* MissingPathWithinRoots: by the nearest ancestor that exists.              *)
MissingWithin(path, roots) ==
    /\ UnderAny(path, roots)
    /\ LET depth == Max({n \in 0..Len(path) : Exists(SubSeq(path, 1, n))})
       IN  Resolves(SubSeq(path, 1, depth), roots)

-----------------------------------------------------------------------------
(* The requests                                                            *)

Base == settings.data \cup settings.global \cup settings.extra
LaunchRoots == settings.global \cup settings.declared

(* BuildBrowseRoots: a form's paths are shortcuts into the roots, never      *)
(* roots themselves; a file stands for its directory.                        *)
Shortcut(path) ==
    LET r == Resolve(path, Base)
    IN  IF ~UnderAny(path, Base) THEN {}
        ELSE IF r.ok THEN IF ~r.allowed THEN {}
                          ELSE {IF IsDir(r.path) THEN r.path ELSE Front(r.path)}
        ELSE IF r.error = "missing" /\ MissingWithin(path, Base) THEN {path} ELSE {}
BrowseRoots(contexts) ==
    LET taken == SelectSeq(contexts, LAMBDA c : Absolute(c) /\ Shortcut(Clean(c)) # {})
    IN  Base \cup UNION {Shortcut(Clean(taken[i])) : i \in 1..Min({Len(taken), MaxContext})}

(* ListBrowseDir, up to the directory it opens.  (Its second look for a link *)
(* is for a disk that changes meanwhile.)                                    *)
OpenedDir(path) ==
    LET r == Resolve(path, Base)
    IN  IF UnderAny(path, Base) /\ r.ok /\ r.allowed /\ IsDir(r.path) THEN {r.path} ELSE {}

Entry(path, type, readable, enterable) ==
    [path |-> path, type |-> type, readable |-> readable, enterable |-> enterable]

Classify_AnyLink(path) ==
    LET target == EvalSymlinks(path)
    IN  IF target.ok /\ IsDir(target.path) THEN Entry(path, "dir", TRUE, TRUE)
        ELSE Entry(path, "file", target.ok, FALSE)
(* classifyBrowseEntry: a link is a directory only inside of the roots.      *)
Classify(path) ==
    CASE disk[path].kind = "link" ->
            LET target == EvalSymlinks(path)
            IN  IF ~target.ok THEN Entry(path, "file", FALSE, FALSE)
                ELSE IF UnderAny(target.path, Base) /\ IsDir(target.path)
                THEN Entry(path, "dir", TRUE, TRUE) ELSE Entry(path, "file", TRUE, FALSE)
      [] disk[path].kind = "dir" -> Entry(path, "dir", TRUE, UnderAny(path, Base))
      [] OTHER -> Entry(path, "file", TRUE, FALSE)

Children(dir) == {p \in DOMAIN disk : p # <<>> /\ Front(p) = dir}
Before(e, f) ==
    IF e.type # f.type THEN e.type = "dir" ELSE NameBefore(Last(e.path), Last(f.path))

(* browseParent: never out of the roots.                                     *)
Parent(dir) == IF dir # <<>> /\ UnderAny(Front(dir), Base) THEN {Front(dir)} ELSE {}

(* The rest of ListBrowseDir: of the names it scans those of the mode, the   *)
(* directories first, up to the limit. Mode "file" shows what "any" does.    *)
Listing(dir, mode, limit, scanned) ==
    LET kept == {e \in {Classify(p) : p \in scanned} : mode = "directory" => e.type = "dir"}
        sorted == SetToSortSeq(kept, Before)
    IN  [kind |-> "list", of |-> Host, path |-> dir, parent |-> Parent(dir),
         entries |-> SubSeq(sorted, 1, Min({limit, Len(sorted)})),
         truncated |-> scanned # Children(dir) \/ Len(sorted) > limit]

(* StatBrowsePath: the real path and its type.                               *)
Stat(path) ==
    LET r == Resolve(path, Base)
    IN  IF ~UnderAny(path, Base) THEN Fails("forbidden")
        ELSE IF Lstat(path) = "missing"
        THEN [ok |-> TRUE, type |-> "missing", path |-> path, allowed |-> MissingWithin(path, Base)]
        ELSE IF ~Exists(path) THEN Fails("inaccessible")
        ELSE IF ~r.ok THEN [ok |-> TRUE, type |-> "other", path |-> path, allowed |-> FALSE]
        ELSE [ok |-> TRUE, path |-> r.path, allowed |-> r.allowed,
              type |-> IF ~r.allowed THEN "other" ELSE IF IsDir(r.path) THEN "dir" ELSE "file"]

-----------------------------------------------------------------------------
(* GET /fs/roots, for a form that holds some paths.                          *)
ShowRoots ==
    /\ page' = [kind |-> "roots", of |-> Host, paths |-> BrowseRoots(Contexts)]
    /\ UNCHANGED <<disk, settings, form>>

(* What can be clicked on the page: paths of a page may be out of date.      *)
Offered ==
    CASE page.kind = "roots" -> page.paths
      [] page.kind = "list" ->
            page.parent \cup {e.path : e \in {f \in Range(page.entries) : f.enterable}}
      [] OTHER -> {}

(* GET /fs/list; a refusal leaves an error on an empty page.                 *)
List(path, mode, limit) ==
    /\ IF OpenedDir(path) = {} THEN page' = Closed
       ELSE \E dir \in OpenedDir(path) :
            \E scanned \in kSubset(Min({ScanCap, Cardinality(Children(dir))}), Children(dir)) :
                page' = Listing(dir, mode, limit, scanned)
    /\ UNCHANGED <<disk, settings, form>>

(* POST /runtime/directory/inspect, of a directory that can be browsed: the  *)
(* form takes over the root as the answer spells it. (LaunchPolicy has the   *)
(* entries it finds there; without one there is no answer.)                  *)
Inspect(path) ==
    LET stat == Stat(path)
    IN  /\ stat.ok /\ stat.allowed /\ stat.type = "dir"
        /\ Resolves(stat.path, LaunchRoots)
        /\ form' = [kind |-> "directory", of |-> Host, root |-> stat.path]
        /\ UNCHANGED <<disk, settings, page>>

Change(d) == disk' = d /\ UNCHANGED <<settings, page, form>>
SetPolicy(s) == settings' = s /\ UNCHANGED <<disk, page, form>>

Texts == {Clean(t) : t \in {u \in Typed : Absolute(u)}}

Next ==
    \/ ShowRoots
    \/ \E path \in Texts \cup Offered, mode \in {"directory", "any"}, limit \in Limits :
           List(path, mode, limit)
    \/ \E path \in Texts \cup Offered : Inspect(path)
    \/ \E d \in Disks : Change(d)
    \/ \E s \in Policies : SetPolicy(s)

Spec == Init /\ [][Next]_browseVars

-----------------------------------------------------------------------------
(* A link from one root into another, which the code refuses to follow       *)
Crosses(path) ==
    LET target == EvalSymlinks(path)
        holds(root, p) == LET r == EvalSymlinks(root) IN r.ok /\ Under(p, r.path)
    IN  target.ok /\ (\E r \in Base : holds(r, target.path))
        /\ ~\E r \in Base : holds(r, path) /\ holds(r, target.path)

(* The picker shows nothing outside of the real roots, whatever is typed,    *)
(* linked or nested, and offers what it opens: as long as nothing changes,   *)
(* the entries it shows as enterable, links into another root aside, and no  *)
(* others can be listed; the way up can be listed and leads back; roots that *)
(* are directories can be listed, and shortcuts too where no root is a link. *)
(* A directory that was inspected is one a launch resolves to itself, though *)
(* it was browsed by other roots and by another spelling.                    *)
BrowserOffersWhatItOpens ==
    /\ page.kind = "list" /\ page.of = Host =>
          /\ \E r \in Base : EvalSymlinks(r).ok /\ Under(page.path, EvalSymlinks(r).path)
          /\ \A i \in DOMAIN page.entries :
                LET e == page.entries[i]
                IN  /\ ~Crosses(e.path) => (e.enterable <=> OpenedDir(e.path) # {})
                    /\ e.enterable /\ disk[e.path].kind = "dir" => Parent(e.path) = {page.path}
          /\ \A p \in page.parent : OpenedDir(p) = {p}
    /\ page.kind = "roots" /\ page.of = Host =>
          \A p \in page.paths :
             LET real == EvalSymlinks(p)
             IN  /\ real.ok /\ IsDir(real.path) /\ (p \in Base \/ real.path = p)
                 /\ \A r \in Base : EvalSymlinks(r).ok => EvalSymlinks(r).path = r
                 => OpenedDir(p) = {real.path}
    /\ form.kind = "directory" /\ form.of = Host =>
          Resolves(form.root, LaunchRoots) /\ EvalSymlinks(form.root).path = form.root
=============================================================================
