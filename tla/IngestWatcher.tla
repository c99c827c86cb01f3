---------------------------- MODULE IngestWatcher ----------------------------
(***************************************************************************)
(* How the panel picks up the artifacts that runners write                 *)
(* (panel/src/server/ingest-watcher.ts, runner/src/state.ts).              *)
(*                                                                         *)
(* Every few seconds a scan walks the directories, asking each for its     *)
(* mtime and then for its entries; a directory below the second level is   *)
(* left out, with all below it, when its mtime is the one of the last      *)
(* visit.  A directory's mtime changes with its entries only, not with     *)
(* what happens further below.  Runners write between any two calls, and a *)
(* call may fail: reconcile then goes on with the next directory.          *)
(***************************************************************************)
EXTENDS Naturals, FiniteSets

CONSTANTS
    Dirs,
    Root,      \* the deepest directory that every scan visits
    Parent,
    Depth,     \* below the state directory
    Files,     \* artifacts
    Dir,       \* where an artifact is
    First,     \* the deployment.json of its transaction
    SeenMax,   \* SEEN_MAX_ENTRIES
    SeenTrim,  \* SEEN_TRIM_TO
    MaxFails,  \* bound: calls of the scans that fail
    Nowhere

ASSUME IngestAssumption ==
    /\ IsFiniteSet(Files) /\ IsFiniteSet(Dirs)
    /\ Root \in Dirs /\ Nowhere \notin Dirs
    /\ Parent \in [Dirs \ {Root} -> Dirs]
    /\ Depth \in [Dirs -> Nat] /\ Depth[Root] <= 2
    /\ \A d \in Dirs \ {Root} : Depth[d] = Depth[Parent[d]] + 1
    /\ Dir \in [Files -> Dirs]
    /\ First \in [Files -> Files]
    /\ SeenMax \in Nat /\ SeenTrim \in 0 .. SeenMax
    /\ MaxFails \in Nat

VARIABLES
    made,     \* directories that exist
    written,  \* artifacts that exist
    changed,  \* directories whose mtime is not the one in dirMtime
    scan,     \* the await at which reconcile stands, or "off"
    stack,    \* directories to visit
    here,     \* the directory whose entries are being read
    entries,  \* its files that are to be ingested
    seen,     \* this.seen
    stored,   \* artifacts whose contents are in the database
    unread,   \* history: artifacts that could not be read since the boot
    fails     \* calls that have failed, counted for the bound

ingestVars == <<made, written, changed, scan, stack, here, entries, seen,
                stored, unread, fails>>
treeVars == <<made, written>>
scanVars == <<scan, stack, here, entries, seen, stored, unread, fails>>

IngestTypeOK ==
    /\ made \subseteq Dirs
    /\ written \subseteq Files
    /\ changed \subseteq made
    /\ scan \in {"off", "pop", "list", "files"}
    /\ stack \subseteq made
    /\ here \in Dirs \cup {Nowhere}
    /\ entries \subseteq written \ seen
    /\ seen \subseteq written
    /\ stored \subseteq written
    /\ unread \subseteq seen
    /\ fails \in 0 .. MaxFails

IngestInit ==
    /\ made = {Root}
    /\ written = {}
    /\ changed = {Root}
    /\ scan = "off"
    /\ stack = {}
    /\ here = Nowhere
    /\ entries = {}
    /\ seen = {}
    /\ stored = {}
    /\ unread = {}
    /\ fails = 0
-----------------------------------------------------------------------------
(* The runner: writeJsonFile makes the directories one by one, *)
MakeDir(d) ==
    /\ d \notin made
    /\ Parent[d] \in made
    /\ made' = made \cup {d}
    /\ changed' = changed \cup {d, Parent[d]}
    /\ UNCHANGED <<written, scanVars>>

(* and renames the complete file into the last.  A replay writes the files *)
(* of a transaction again.  deployment.json comes before the audits.       *)
Put(f) ==
    /\ Dir[f] \in made
    /\ First[f] \in written \cup {f}
    /\ written' = written \cup {f}
    /\ changed' = changed \cup {Dir[f]}
    /\ UNCHANGED <<made, scanVars>>
-----------------------------------------------------------------------------
(* tick: one reconcile at a time. *)
Reconcile ==
    /\ scan = "off"
    /\ scan' = "pop"
    /\ stack' = {Root}
    /\ UNCHANGED <<treeVars, changed, here, entries, seen, stored, unread, fails>>

Unchanged_FromLevelTwo(d) == Depth[d] >= 2 /\ d \notin changed

(* "Always descend into the top-level stateDir and first two levels". *)
Unchanged(d) == Depth[d] > 2 /\ d \notin changed

Skip(d) ==
    /\ scan = "pop"
    /\ d \in stack
    /\ Unchanged(d)
    /\ stack' = stack \ {d}
    /\ UNCHANGED <<treeVars, changed, scan, here, entries, seen, stored, unread,
                   fails>>

(* stat fails: the directory is left to the scan that comes to it next. *)
StatFails(d) ==
    /\ scan = "pop"
    /\ d \in stack
    /\ fails < MaxFails
    /\ fails' = fails + 1
    /\ stack' = stack \ {d}
    /\ UNCHANGED <<treeVars, changed, scan, here, entries, seen, stored, unread>>

(* The mtime is remembered before the entries are read. *)
Visit(d) ==
    /\ scan = "pop"
    /\ d \in stack
    /\ ~Unchanged(d)
    /\ stack' = stack \ {d}
    /\ changed' = changed \ {d}
    /\ here' = d
    /\ scan' = "list"
    /\ UNCHANGED <<treeVars, entries, seen, stored, unread, fails>>

ReadDir ==
    /\ scan = "list"
    /\ entries' = {f \in written \ seen : Dir[f] = here}
    /\ stack' = stack \cup {d \in made \ {Root} : Parent[d] = here}
    /\ here' = Nowhere
    /\ scan' = IF entries' = {} THEN "pop" ELSE "files"
    /\ UNCHANGED <<treeVars, changed, seen, stored, unread, fails>>

(* readdir fails, and the mtime stays remembered. *)
ReadDirFails ==
    /\ scan = "list"
    /\ fails < MaxFails
    /\ fails' = fails + 1
    /\ here' = Nowhere
    /\ scan' = "pop"
    /\ UNCHANGED <<treeVars, changed, stack, entries, seen, stored, unread>>

(* handlePath.  A file that could not be read is remembered like one that  *)
(* was: "so we don't retry forever on a broken file".                      *)
HandlePath(f) ==
    /\ scan = "files"
    /\ f \in entries
    /\ seen' = seen \cup {f}
    /\ \/ stored' = stored \cup {f} /\ UNCHANGED unread
       \/ unread' = unread \cup {f} /\ UNCHANGED stored
    /\ entries' = entries \ {f}
    /\ scan' = IF entries' = {} THEN "pop" ELSE "files"
    /\ UNCHANGED <<treeVars, changed, stack, here, fails>>

EndScan_StampsAgain ==
    /\ scan = "pop"
    /\ stack = {}
    /\ scan' = "off"
    /\ changed' = {}
    /\ UNCHANGED <<treeVars, stack, here, entries, seen, stored, unread, fails>>

(* The end of reconcile, with trimSeen: the oldest paths are forgotten, in *)
(* whatever order they came, and the mtimes of directories likewise.       *)
EndScan ==
    /\ scan = "pop"
    /\ stack = {}
    /\ scan' = "off"
    /\ IF Cardinality(seen) > SeenMax
       THEN /\ seen' \in {S \in SUBSET seen : Cardinality(S) = SeenTrim}
            /\ \/ UNCHANGED changed
               \/ /\ Cardinality(made) > SeenMax
                  /\ \E kept \in SUBSET made :
                        /\ Cardinality(kept) = SeenTrim
                        /\ changed' = changed \cup (made \ kept)
       ELSE UNCHANGED <<seen, changed>>
    /\ unread' = unread \cap seen'
    /\ UNCHANGED <<treeVars, stack, here, entries, stored, fails>>

(* The panel boots again and knows nothing of earlier scans. *)
IngestRestart ==
    /\ changed' = made
    /\ scan' = "off"
    /\ stack' = {}
    /\ here' = Nowhere
    /\ entries' = {}
    /\ seen' = {}
    /\ unread' = {}
    /\ UNCHANGED <<treeVars, stored, fails>>

Runner == (\E d \in Dirs \ {Root} : MakeDir(d)) \/ (\E f \in Files : Put(f))

Scan ==
    \/ Reconcile
    \/ \E d \in stack : Skip(d) \/ Visit(d)
    \/ ReadDir
    \/ \E f \in entries : HandlePath(f)
    \/ EndScan

CallFails == ReadDirFails \/ \E d \in stack : StatFails(d)
-----------------------------------------------------------------------------
(* A scan will come to the directory d and read its entries, if those that *)
(* lead to it do the same; way is the set of them.                         *)
Leads(way, d) ==
    \/ d = here
    \/ /\ Depth[d] <= 2 \/ d \in changed
       /\ d = Root \/ d \in stack \/ Parent[d] \in way

(* The running scan or the next one will find the artifact. *)
Sought(f) ==
    \/ f \in entries
    \/ \E way \in SUBSET made : Dir[f] \in way /\ \A d \in way : Leads(way, d)

Waiting(f) == f \in written \ (stored \cup unread)

(* d and the directories that lead to it. *)
Above(d) ==
    {e \in Dirs : \A S \in SUBSET Dirs :
                     d \in S /\ (\A x \in S \ {Root} : Parent[x] \in S) => e \in S}

(* A failing call that hides what is in d and below: its mtime is already  *)
(* remembered, or that of the directory above it.                          *)
Hides(d) ==
    \/ ReadDirFails /\ d = here /\ Depth[d] > 2
    \/ d \in stack /\ StatFails(d) /\ Depth[d] > 3

(* No artifact is overlooked between two awaits: one that would be found,  *)
(* wherever a scan stands and whatever is written meanwhile, will be found *)
(* after any step, or has been read by it, unless that step is a call that *)
(* fails on one of its own directories and below the level which every     *)
(* scan enters.  No change falls between remembering an mtime and reading  *)
(* the entries, neither the trimming of the memory nor a new boot loses    *)
(* one, and a call that fails elsewhere costs it nothing.                  *)
NoneOverlooked ==
    [][\A f \in Files : Waiting(f) /\ Sought(f) =>
           Sought(f)' \/ ~Waiting(f)' \/ \E d \in Above(Dir[f]) : Hides(d)]_ingestVars

(* And it is ingested in the end, found to be unreadable, or hidden by a   *)
(* call that failed, until its directories change again.  (Every change is *)
(* taken to give a new mtime.  An artifact is not sought when only its own *)
(* directory has changed, see the README.)                                 *)
ArtifactsIngested ==
    \A f \in Files :
        (Waiting(f) /\ Sought(f)) ~> f \in stored \cup unread \/ ~Sought(f)
=============================================================================
