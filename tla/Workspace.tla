----------------------------- MODULE Workspace -----------------------------
(***************************************************************************)
(* trajir/mcp: where the paths a tool is given lead.  The work directory,  *)
(* the package path and the two databases have to be under the approved    *)
(* root, symbolic links resolved, or the tool refuses the call.            *)
(*                                                                         *)
(* A path is the sequence of its names from "/".  A file tree maps the     *)
(* paths that exist to directories, files and links; a link records the    *)
(* place it leads to in the end, links to links followed, and Nowhere when *)
(* it dangles or is one of a cycle.  Nothing changes during a call.        *)
(*                                                                         *)
(* "Variant" definitions are the following one with a mistake in it.       *)
(***************************************************************************)
EXTENDS Naturals, SequencesExt

CONSTANTS
    Name,         \* names of files and directories
    FileTrees,    \* file trees
    Envs,         \* values of TRAJIR_MCP_ROOT, as absolute paths
    WorkDirs,     \* work_dir arguments
    Dests         \* package paths

Nowhere   == <<"?">>    \* an error
NoPath    == <<"">>     \* an argument left out
Databases == {"nodes.sqlite", "memo.sqlite"}

UserPaths == [abs : BOOLEAN, names : Seq(Name \cup {".."})]

IsDir(t, p) == p = << >> \/ (p \in DOMAIN t /\ t[p].kind = "dir")
Real(t)     == {<< >>} \cup {p \in DOMAIN t : t[p].kind # "link"}

ASSUME NamesAssumption ==
    /\ {"", "?", ".."} \cap Name = {} /\ Databases \subseteq Name
    /\ Envs \subseteq Seq(Name) /\ WorkDirs \cup Dests \subseteq UserPaths

\* An entry is in a directory, and a link leads to what is no link.
ASSUME TreesAssumption ==
    \A t \in FileTrees : \A p \in DOMAIN t :
       /\ p \in Seq(Name) /\ p # << >> /\ IsDir(t, Front(p))
       /\ t[p].kind \in {"dir", "file", "link"}
       /\ t[p].kind = "link" => t[p].to \in Real(t) \cup {Nowhere}

----------------------------------------------------------------------------
\* Where name n in directory d leads.
Entry(t, d, n) ==
    LET q == Append(d, n)
    IN  IF d = Nowhere \/ q \notin DOMAIN t THEN Nowhere
        ELSE IF t[q].kind = "link" THEN t[q].to ELSE q

\* filepath.EvalSymlinks.
EvalSymlinks(t, p) ==
    LET at[i \in 0..Len(p)] == IF i = 0 THEN << >> ELSE Entry(t, at[i - 1], p[i])
    IN  at[Len(p)]

\* ".." takes back the name before it.
CleanName(done, n) ==
    IF n # ".." THEN Append(done, n) ELSE IF done = << >> THEN << >> ELSE Front(done)

\* filepath.Clean, of a path whose names may be "..".
CleanPath(p) ==
    LET done[i \in 0..Len(p)] == IF i = 0 THEN << >> ELSE CleanName(done[i - 1], p[i])
    IN  done[Len(p)]

\* An argument that is the empty string.
Blank(user) == ~user.abs /\ user.names = << >>

\* A user's path: absolute, or below the given base.
Candidate(base, user) == CleanPath(IF user.abs THEN user.names ELSE base \o user.names)

\* os.Lstat: the links of the parents are followed, the last one is not.
Lstat(t, p) ==
    IF p = << >> THEN "dir"
    ELSE LET d == EvalSymlinks(t, Front(p))
             q == Append(d, Last(p))
         IN  CASE d = Nowhere                       -> "missing"
               [] d # Nowhere /\ ~IsDir(t, d)       -> "error"
               [] IsDir(t, d) /\ q \in DOMAIN t     -> t[q].kind
               [] IsDir(t, d) /\ q \notin DOMAIN t  -> "missing"

\* Variant: symbolic links are not resolved.
ResolveLexically(t, p) == p

\* The nearest ancestor that exists is resolved, and what is missing below it
\* is put back.
resolveViaExistingAncestor(t, p) ==
    LET n   == Max({i \in 0..Len(p) : Lstat(t, SubSeq(p, 1, i)) # "missing"})
        cur == SubSeq(p, 1, n)
        to  == EvalSymlinks(t, cur)
    IN  IF Lstat(t, cur) = "error" \/ to = Nowhere THEN Nowhere
        ELSE to \o SubSeq(p, n + 1, Len(p))

\* filepath.Rel(root, target).
Rel(root, target) ==
    LET common == CHOOSE n \in 0..Len(root) :
                     /\ IsPrefix(SubSeq(root, 1, n), target)
                     /\ n < Len(root) => ~IsPrefix(SubSeq(root, 1, n + 1), target)
    IN  [i \in 1..(Len(root) - common) |-> ".."] \o SubSeq(target, common + 1, Len(target))

isSubpath(root, target) ==
    LET rel == Rel(root, target) IN rel = << >> \/ Head(rel) # ".."

canonicalizeDir(t, p) ==
    LET r == EvalSymlinks(t, p) IN IF r # Nowhere /\ IsDir(t, r) THEN r ELSE Nowhere

resolveUnderRoot(t, root, user, requireDir) ==
    LET rootAbs  == canonicalizeDir(t, root)
        resolved == resolveViaExistingAncestor(t, Candidate(rootAbs, user))
    IN  IF /\ rootAbs # Nowhere
           /\ resolved # Nowhere /\ isSubpath(rootAbs, resolved)
           /\ requireDir => IsDir(t, resolved)
        THEN resolved ELSE Nowhere

approvedRoot(t, env) == canonicalizeDir(t, env)

requireBoundedWorkDir(t, root, workDir) ==
    IF Blank(workDir) THEN root ELSE resolveUnderRoot(t, root, workDir, TRUE)

\* Under the work directory when there is one (resolved again), else the root.
requireBoundedPath(t, root, path, preferRoot) ==
    LET base == IF preferRoot = NoPath THEN root
                ELSE resolveUnderRoot(t, root, [abs |-> TRUE, names |-> preferRoot], TRUE)
    IN  IF Blank(path) \/ base = Nowhere THEN Nowhere ELSE resolveUnderRoot(t, base, path, FALSE)

requireNonSymlinkLeaf(t, root, leaf) ==
    CASE Lstat(t, leaf) = "missing"           -> TRUE
      [] Lstat(t, leaf) \in {"link", "error"} -> FALSE
      [] OTHER                                ->
            LET r == resolveViaExistingAncestor(t, leaf) IN r # Nowhere /\ isSubpath(root, r)

workdirSQLitePaths(t, root, dir) ==
    IF \A f \in Databases : requireNonSymlinkLeaf(t, root, Append(dir, f))
    THEN {Append(dir, f) : f \in Databases} ELSE {}

----------------------------------------------------------------------------
(* The tools: the paths they go on to open, {} when they refuse.           *)

toolPath(t, env, path) ==
    LET root == approvedRoot(t, env)
        at   == IF root = Nowhere THEN Nowhere ELSE requireBoundedPath(t, root, path, NoPath)
    IN  {at} \ {Nowhere}

toolStatus(t, env, workDir) ==
    LET root == approvedRoot(t, env)
        dir  == IF root = Nowhere THEN Nowhere ELSE requireBoundedWorkDir(t, root, workDir)
        dbs  == IF dir = Nowhere THEN {} ELSE workdirSQLitePaths(t, root, dir)
    IN  {p \in dbs : p = Append(dir, "nodes.sqlite")}

toolExportTIR(t, env, workDir, dest) ==
    LET root == approvedRoot(t, env)
        dir  == IF root = Nowhere THEN Nowhere ELSE requireBoundedWorkDir(t, root, workDir)
        to   == IF dir = Nowhere THEN Nowhere ELSE requireBoundedPath(t, root, dest, dir)
        dbs  == IF dir = Nowhere THEN {} ELSE workdirSQLitePaths(t, root, dir)
    IN  IF to # Nowhere /\ dbs # {} THEN {to} \cup dbs ELSE {}

VARIABLES
    request,   \* the file tree and the arguments of the calls
    answer     \* << >>, then the paths each tool opens

workVars == <<request, answer>>

Requests == [tree : FileTrees, env : Envs, workDir : WorkDirs, dest : Dests]

WorkspaceInit == request \in Requests /\ answer = << >>

CallTools ==
    /\ answer = << >>
    /\ LET t == request.tree  env == request.env
       IN  answer' = <<[status |-> toolStatus(t, env, request.workDir),
                        export |-> toolExportTIR(t, env, request.workDir, request.dest),
                        path   |-> toolPath(t, env, request.dest)]>>
    /\ UNCHANGED request

WorkspaceSpec == WorkspaceInit /\ [][CallTools]_workVars

----------------------------------------------------------------------------
(* Reference: where the operating system takes a call on path p that opens *)
(* a file or creates it.  A link that dangles opens nothing here: the      *)
(* target it might create is not modelled, and the tools refuse such a     *)
(* link (EvalSymlinks fails).                                              *)

Opened(t, p) ==
    IF Lstat(t, p) = "missing"
    THEN LET d == EvalSymlinks(t, Front(p)) IN IF d = Nowhere THEN Nowhere ELSE Append(d, Last(p))
    ELSE EvalSymlinks(t, p)

Lands(t, p, base) == Opened(t, p) = Nowhere \/ IsPrefix(base, Opened(t, p))

\* The work directory the caller means is there, below the root, and no
\* database in it is a link.
GoodWorkDir(t, root, dir) ==
    /\ root # Nowhere /\ dir # Nowhere /\ IsDir(t, dir) /\ IsPrefix(root, dir)
    /\ \A f \in Databases : Lstat(t, Append(dir, f)) \in {"missing", "file"}

\* paths.go, "all MCP tool paths must resolve under this root": every file a
\* tool opens or creates is below the root when the links on the way to it are
\* followed, and an exported package is below the work directory.  No other
\* path is refused, names like "..s" included: an existing work directory below
\* the root, with databases that are no links, and a package path that leads
\* below it are accepted.
PathsStayUnderRoot ==
    answer # << >> =>
       LET t == request.tree  root == approvedRoot(t, request.env)
           work == requireBoundedWorkDir(t, root, request.workDir)
           dir  == EvalSymlinks(t, Candidate(root, request.workDir))
           dest == Opened(t, Candidate(dir, request.dest))
           res  == Head(answer)
       IN  /\ \A p \in res.status \cup res.path : Lands(t, p, root)
           /\ \A p \in res.export : Lands(t, p, work) /\ IsPrefix(root, work)
           /\ GoodWorkDir(t, root, dir) => res.status # {}
           /\ /\ GoodWorkDir(t, root, dir) /\ ~Blank(request.dest)
              /\ dest # Nowhere /\ IsPrefix(dir, dest)
              => dest \in res.export

=============================================================================
