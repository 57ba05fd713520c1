---------------------------- MODULE LibraryStore ----------------------------
(***************************************************************************)
(* A workspace library (src/app/application_workspace_store*.cpp): a       *)
(* directory with an SQLite catalog, one file per artifact, and a writer   *)
(* lock.  A writer is a contender of module DirectoryLock that runs one    *)
(* command while it holds the lock: a compile (LibraryTransaction), a link *)
(* of the SystemC objects, delete_artifact or delete_library.              *)
(*                                                                         *)
(* The catalog is replaced in one SQLite transaction; the artifact files   *)
(* follow one by one, and a writer may crash between any two steps.  The   *)
(* revision id of an artifact stands for its content and its fingerprint.  *)
(***************************************************************************)
EXTENDS DirectoryLock, FiniteSets

CONSTANTS
  Outputs,       (* the objects that compiling may make: kind, sources, the *)
                 (* units they own, each with its source, and artifact_name*)
  NeedsOf,       (* the units a unit refers to, directly or through others *)
  Vhdl,          (* the units subject to VHDL re-analysis                  *)
  PrimaryOf,     (* the primary unit of a unit, itself if it is primary    *)
  Groupings,     (* the sources one compile command may be given           *)
  MaxRevisions   (* bound on the artifacts ever allocated                  *)

VARIABLES
  directory,     (* whether the library directory exists                   *)
  catalogued,    (* whether library.sqlite3 exists                         *)
  records,       (* its committed artifact records                         *)
  files,         (* the artifact files, pending ones too: <<name, revision>>*)
  revision,      (* new_revision                                           *)
  command,       (* what a writer was asked to do                          *)
  step,          (* how far it is                                          *)
  catalog,       (* the catalog a writer loaded, then the one it saved     *)
  given,         (* the sources it was given: replaced_sources             *)
  fresh,         (* the records of its transaction that have no file yet   *)
  unused,        (* collect_artifacts: what is left to remove              *)
  torn,          (* history: committed records whose file never followed   *)
  missing,       (* history: units deleted, or no longer in their source   *)
  unbacked,      (* history: dependencies that a command itself replaced   *)
  refused        (* history: what a collection could not list or remove    *)

diskVars == <<directory, catalogued, records, files, revision>>
writerVars == <<command, step, catalog, given, fresh, unused>>
historyVars == <<torn, missing, unbacked, refused>>
storeVars == <<diskVars, writerVars, historyVars>>
vars == <<lockVars, storeVars>>

Pending(id) == <<".pending", id>>
Nothing == [c \in Contenders |-> {}]
Commands == {"compile", "link", "delete_artifact", "delete_library"}

Init ==
  /\ LockInit
  /\ directory = FALSE /\ catalogued = FALSE /\ records = {} /\ files = {}
  /\ revision = 0
  /\ torn = {} /\ missing = {} /\ unbacked = {} /\ refused = {}
  /\ command = [c \in Contenders |-> "compile"]
  /\ step = [c \in Contenders |-> "load"]
  /\ catalog = Nothing /\ given = Nothing /\ fresh = Nothing /\ unused = Nothing

Working(c, point) == pc[c] = "held" /\ step[c] = point
Advance(c, point) == step' = [step EXCEPT ![c] = point]

-----------------------------------------------------------------------------
(***************************************************************************)
(* merge_records.                                                          *)
(***************************************************************************)
OwnedBy(S) == UNION {{owned[1] : owned \in r.units} : r \in S}
IdsOf(S) == {r.id : r \in S}
Secondary(u) == PrimaryOf[u] # u

(* The sources given again take their units out of the records they were   *)
(* in; a linked plugin keeps the list of sources it was linked from.       *)
Stripped(r, sources) ==
  IF r.kind = "plugin" THEN r
  ELSE [r EXCEPT !.sources = @ \ sources,
                 !.units = {owned \in @ : owned[2] \notin sources}]

(* VHDL re-analysis: a unit leaves when it is analyzed again, even from    *)
(* another source, or when its primary unit is.                            *)
Reanalyzed(u, new) ==
  LET again == OwnedBy(new) \cap Vhdl
  IN /\ u \in Vhdl
     /\ \/ u \in again
        \/ Secondary(u) /\ \E p \in again : ~Secondary(p) /\ p = PrimaryOf[u]

DependsOn(r, units) == \E need \in r.deps : need.unit \in units

(* Faulty variant: the records that depend on a replaced unit stay.        *)
ObsoleteNone(hdl, gone) == {}

(* The records that depend on a unit analyzed again, on a unit of such a   *)
(* record, and so on: the least set with that closure.                     *)
Obsolete(hdl, gone) ==
  LET Closed(S) == \A r \in hdl : DependsOn(r, gone \cup OwnedBy(S)) => r \in S
  IN {r \in hdl : \A S \in SUBSET hdl : Closed(S) => r \in S}

(* The records that stay, and the units they keep.  A unit that its source *)
(* no longer defines is only stripped: nothing that depends on it leaves.  *)
Kept(old, new, sources) ==
  LET native == \/ \E r \in new : r.kind # "hdl"
                \/ \E r \in old : r.kind = "object" /\ r.sources \cap sources # {}
      strip == {Stripped(r, sources) : r \in old}
      cut == {[r EXCEPT !.units = {o \in @ : ~Reanalyzed(o[1], new)}] : r \in
                {q \in strip : q.kind = "hdl"}}
      emptied == {r \in cut : r.units = {} /\ \E q \in strip :
                                  q.id = r.id /\ q.units # {}}
      live == {r \in cut : r.units # {}}
  IN {r \in (cut \ emptied) \ Obsolete(live, OwnedBy(new) \cap Vhdl) : r.sources # {}}
     \cup {r \in strip : r.kind = "object" /\ r.sources # {}}
     \cup {r \in strip : r.kind = "plugin" /\ ~native}

(* "workspace definition collision": another source owns the unit.         *)
Collides(old, new, sources) ==
  \/ OwnedBy(Kept(old, new, sources)) \cap OwnedBy(new) # {}
  \/ \E r, q \in new : r # q /\ OwnedBy({r}) \cap OwnedBy({q}) # {}

(* Faulty variant: the names the kept records use are not avoided.         *)
NamedFreely(kept, new) == {[r EXCEPT !.name = <<r.base, 1>>] : r \in new}

(* Each new artifact is named after its primary unit, with the smallest    *)
(* counter that no kept record and no earlier new one uses.                *)
Named(kept, new) ==
  LET Free(b) == {k \in 1 .. MaxRevisions : <<b, k>> \notin {q.name : q \in kept}}
      Earlier(r) == {q \in new : q.base = r.base /\ q.id < r.id}
      Counter(r) == CHOOSE k \in Free(r.base) :
        Cardinality({j \in Free(r.base) : j < k}) = Cardinality(Earlier(r))
  IN {[r EXCEPT !.name = <<r.base, Counter(r)>>] : r \in new}

-----------------------------------------------------------------------------
(***************************************************************************)
(* A command: find the library, lock it, load the catalog.                 *)
(***************************************************************************)
(* locate_library, which creates the directory for begin_library only.     *)
(* The mapping lock keeps two delete_library calls apart.                  *)
Begin(c, what) ==
  /\ step[c] # "rmdir" /\ Construct(c)
  /\ what = "delete_library" =>
       \A d \in Contenders : command[d] = what =>
         pc[d] = "crashed" \/ (pc[d] = "idle" /\ step[d] # "rmdir")
  /\ directory' = (directory \/ what \in {"compile", "link"})
  /\ directory'
  /\ command' = [command EXCEPT ![c] = what] /\ Advance(c, "load")
  /\ UNCHANGED <<catalogued, records, files, revision, catalog, given, fresh,
                 unused, historyVars>>

(* The lock's directory is made in the library's directory.                *)
Lock(c) ==
  /\ LockStep(c)
  /\ CreateError(c) => ~directory
  /\ TryCreate(c) => directory
  /\ UNCHANGED storeVars

(* load_catalog; begin_library creates an absent catalog, a deletion fails.*)
Load(c, sources) ==
  /\ Working(c, "load")
  /\ sources \in IF command[c] = "compile" THEN Groupings ELSE {{}}
  /\ IF catalogued \/ command[c] \in {"compile", "link"}
     THEN /\ catalogued' = TRUE
          /\ catalog' = [catalog EXCEPT ![c] = records]
          /\ given' = [given EXCEPT ![c] = sources]
          /\ Advance(c, "work")
     ELSE Advance(c, "done") /\ UNCHANGED <<catalogued, catalog, given>>
  /\ UNCHANGED <<lockVars, directory, records, files, revision, command, fresh,
                 unused, historyVars>>

-----------------------------------------------------------------------------
(***************************************************************************)
(* LibraryTransaction: allocate_artifact for each object, then commit.     *)
(***************************************************************************)
NewRecord(kind, sources, units, base) ==
  [id |-> revision + 1, name |-> Pending(revision + 1), kind |-> kind,
   sources |-> sources, units |-> units, base |-> base, deps |-> {}]

(* allocate_artifact, and the publisher writes the pending file.           *)
Allocate(c, r) ==
  /\ Working(c, "work") /\ revision < MaxRevisions
  /\ revision' = revision + 1 /\ files' = files \cup {<<r.name, r.id>>}
  /\ fresh' = [fresh EXCEPT ![c] = @ \cup {r}]
  /\ UNCHANGED <<lockVars, directory, catalogued, records, command, step,
                 catalog, given, unused, historyVars>>

(* One object of the given sources: a VHDL unit, the units of sources that *)
(* share a compilation unit, or a SystemC source.  What a source defines   *)
(* is what the command makes of it.                                        *)
Compile(c, o) ==
  /\ command[c] = "compile" /\ o.sources \subseteq given[c]
  /\ o.units # {} => OwnedBy(fresh[c]) \cap OwnedBy({o}) = {}
  /\ o.units = {} => \A r \in fresh[c] : r.sources # o.sources
  /\ Allocate(c, NewRecord(o.kind, o.sources, o.units, o.base))

Objects(S) == {r \in S : r.kind = "object"}

(* handle_workspace_systemc_link: the plugin of all SystemC objects.       *)
Link(c) ==
  /\ command[c] = "link" /\ fresh[c] = {} /\ Objects(catalog[c]) # {}
  /\ LET sources == UNION {r.sources : r \in Objects(catalog[c])}
     IN Allocate(c, NewRecord("plugin", sources, {}, "plugin"))

(* replace_catalog_sources: what the catalog offers beside the new records.*)
Remaining(old, new, sources) ==
  {[r EXCEPT !.units = {o \in @ : o[2] \notin sources /\ ~Reanalyzed(o[1], new)}] :
     r \in {q \in old : q.kind = "hdl"}}

(* workspace_dependencies: the objects that own the units r refers to, and *)
(* the dependencies of those in the catalog, with the fingerprints they    *)
(* have; not r's own units.  A plugin is given what it was linked from.    *)
Needed(r) == UNION {NeedsOf[u] : u \in OwnedBy({r})} \ OwnedBy({r})
Owners(u, new, old, sources) ==
  {q \in new \cup Remaining(old, new, sources) : u \in OwnedBy({q})}
Resolved(r, new, old, sources) ==
  LET Direct == UNION {{[unit |-> u, id |-> q.id] : q \in Owners(u, new, old, sources)} :
                         u \in Needed(r)}
      Inherited == UNION {q.deps : q \in {o \in old : o.id \in {n.id : n \in Direct}}}
  IN [r EXCEPT !.deps = IF r.kind = "plugin"
                        THEN {[unit |-> "none", id |-> q.id] : q \in Objects(old)}
                        ELSE {n \in Direct \cup Inherited : n.unit \notin OwnedBy({r})}]

(* A compile needs every unit it depends on, all the sources of an object  *)
(* that shares compilation-unit state, and an object of a SystemC source.  *)
Compiles(old, new, sources) ==
  /\ \A r \in new : \A u \in Needed(r) : Owners(u, new, old, sources) # {}
  /\ \A r \in old : r.kind = "hdl" =>
       r.sources \cap sources = {} \/ r.sources \subseteq sources
  /\ \A o \in Objects(Outputs) : o.sources \subseteq sources =>
       \E r \in new : r.sources = o.sources

(* save_catalog, one SQLite transaction.  The units it takes out for good  *)
(* are noted, and so is what the records of the command were themselves    *)
(* compiled against and it made obsolete: elaboration reports an object    *)
(* that depends on those (validate_workspace_dependencies).                *)
Backs(S, need) == \E q \in S : q.id = need.id /\ need.unit \in OwnedBy({q})
DepsOf(S) == UNION {r.deps : r \in S}
Save(c, S, removed) ==
  LET mine == {r \in S : r.id \in IdsOf(fresh[c])}
      older == {need \in unbacked \cap DepsOf(S) : need.unit \notin OwnedBy(mine)}
  IN /\ records' = S
     /\ catalog' = [catalog EXCEPT ![c] = S]
     /\ torn' = torn \cap IdsOf(S)
     /\ missing' = ((missing \cup removed) \cap {need.unit : need \in DepsOf(S)})
                   \ OwnedBy(S)
     /\ unbacked' = {need \in older \cup DepsOf(mine) : ~Backs(S, need)}

(* commit, up to the saved catalog.                                        *)
Commit(c) ==
  LET old == catalog[c]
      sources == given[c]
      kept == Kept(old, fresh[c], sources)
      new == Named(kept, {Resolved(r, fresh[c], old, sources) : r \in fresh[c]})
      dropped == {o[1] : o \in {p \in UNION {r.units : r \in old} : p[2] \in sources}}
  IN /\ Working(c, "work") /\ command[c] \in {"compile", "link"}
     /\ command[c] = "link" => fresh[c] # {}
     /\ Compiles(old, fresh[c], sources) /\ ~Collides(old, fresh[c], sources)
     /\ Save(c, kept \cup new, dropped \ OwnedBy(new))
     /\ fresh' = [fresh EXCEPT ![c] = new]
     /\ Advance(c, IF new = {} THEN "collect" ELSE "install")
     /\ UNCHANGED <<lockVars, directory, catalogued, files, revision, command,
                    given, unused, refused>>

(* The command fails before its catalog is saved: the destructor of the    *)
(* transaction removes the pending files, and a removal may fail.          *)
Abandon(c) ==
  /\ Working(c, "work") /\ Advance(c, "done")
  /\ \E S \in SUBSET fresh[c] :
       /\ files' = files \ {<<r.name, r.id>> : r \in S}
       /\ IF S = fresh[c] THEN UNCHANGED faults ELSE Fault("io")
  /\ fresh' = [fresh EXCEPT ![c] = {}]
  /\ UNCHANGED <<lock, quarantine, pc, attempts, original, active, alive,
                 directory, catalogued, records, revision, command, catalog,
                 given, unused, historyVars>>

(* install_pending renames one pending file over its artifact.             *)
First(S) == CHOOSE r \in S : \A q \in S : r.id <= q.id
Install(c) ==
  /\ Working(c, "install")
  /\ LET r == First(fresh[c])
     IN /\ files' = {f \in files : f[1] \notin {r.name, Pending(r.id)}}
                    \cup {<<r.name, r.id>>}
        /\ fresh' = [fresh EXCEPT ![c] = @ \ {r}]
  /\ Advance(c, IF Cardinality(fresh[c]) = 1 THEN "collect" ELSE "install")
  /\ UNCHANGED <<lockVars, directory, catalogued, records, revision, command,
                 catalog, given, unused, historyVars>>

(* The rename fails: commit returns false, the catalog stays saved.        *)
InstallFails(c) ==
  /\ Working(c, "install") /\ Fault("io") /\ Advance(c, "done")
  /\ torn' = torn \cup IdsOf(fresh[c])
  /\ fresh' = [fresh EXCEPT ![c] = {}]
  /\ UNCHANGED <<lock, quarantine, pc, attempts, original, active, alive,
                 diskVars, command, catalog, given, unused, missing, unbacked,
                 refused>>

-----------------------------------------------------------------------------
(***************************************************************************)
(* delete_artifact and delete_library; collect_artifacts.                  *)
(***************************************************************************)
SaveDeletion(c, rest) ==
  /\ Working(c, "work") /\ Save(c, rest, OwnedBy(catalog[c]) \ OwnedBy(rest))
  /\ Advance(c, "collect")
  /\ UNCHANGED <<lockVars, directory, catalogued, files, revision, command,
                 given, fresh, unused, refused>>

DeleteArtifact(c, r) ==
  /\ command[c] = "delete_artifact" /\ r \in catalog[c]
  /\ SaveDeletion(c, {q \in catalog[c] \ {r} :
                        r.kind = "object" => q.kind # "plugin"})

DeleteLibrary(c) == command[c] = "delete_library" /\ SaveDeletion(c, {})

(* Faulty variant: the files of interrupted writers are passed over.       *)
UncollectedNamed(c) ==
  {f \in files : f[1] \notin {r.name : r \in catalog[c]} /\ f[1] # Pending(f[2])}

(* collect_artifacts: the managed files the catalog does not name.  The    *)
(* listing stops at an error of the directory.                             *)
Uncollected(c) == {f \in files : f[1] \notin {r.name : r \in catalog[c]}}

ListUnused(c, listed) ==
  /\ Working(c, "collect") /\ Advance(c, "remove")
  /\ unused' = [unused EXCEPT ![c] = listed]
  /\ IF listed = Uncollected(c) THEN UNCHANGED faults ELSE Fault("io")
  /\ refused' = Uncollected(c) \ listed
  /\ UNCHANGED <<lock, quarantine, pc, attempts, original, active, alive,
                 diskVars, command, catalog, given, fresh, torn, missing, unbacked>>

(* remove_artifact; what the system refuses stays for a later collection.  *)
RemoveUnused(c, f) ==
  /\ Working(c, "remove") /\ f \in unused[c]
  /\ unused' = [unused EXCEPT ![c] = @ \ {f}]
  /\ \/ files' = {g \in files : g[1] # f[1]} /\ UNCHANGED <<refused, faults>>
     \/ Fault("io") /\ refused' = refused \cup {f} /\ UNCHANGED files
  /\ UNCHANGED <<lock, quarantine, pc, attempts, original, active, alive,
                 directory, catalogued, records, revision, command, step,
                 catalog, given, fresh, torn, missing, unbacked>>

Collected(c) ==
  /\ Working(c, "remove") /\ unused[c] = {}
  /\ Advance(c, IF command[c] = "delete_library" THEN "unlink" ELSE "done")
  /\ UNCHANGED <<lockVars, diskVars, command, catalog, given, fresh, unused,
                 historyVars>>

(* A delete_library that cannot remove the catalog returns early.          *)
RemoveCatalog(c) ==
  /\ Working(c, "unlink")
  /\ \/ catalogued' = FALSE /\ Advance(c, "emptied") /\ UNCHANGED faults
     \/ Fault("io") /\ Advance(c, "done") /\ UNCHANGED catalogued
  /\ UNCHANGED <<lock, quarantine, pc, attempts, original, active, alive,
                 directory, records, files, revision, command, catalog, given,
                 fresh, unused, historyVars>>

(* The lock is released; then a delete_library that got this far removes   *)
(* the directory, which fails while it holds anything.                     *)
Finish(c) ==
  /\ (Working(c, "done") \/ Working(c, "emptied")) /\ Release(c)
  /\ Advance(c, IF step[c] = "emptied" THEN "rmdir" ELSE "load")
  /\ catalog' = [catalog EXCEPT ![c] = {}] /\ given' = [given EXCEPT ![c] = {}]
  /\ refused' = {}
  /\ UNCHANGED <<diskVars, command, fresh, unused, torn, missing, unbacked>>

RemoveDirectory(c) ==
  /\ pc[c] = "idle" /\ step[c] = "rmdir" /\ Advance(c, "load")
  /\ directory' = ~(/\ lock = Absent /\ \A d \in Contenders : quarantine[d] = Absent
                    /\ ~catalogued /\ files = {})
  /\ UNCHANGED <<lockVars, catalogued, records, files, revision, command,
                 catalog, given, fresh, unused, historyVars>>

(* A process crashes.                                                      *)
CrashWriter(p) ==
  /\ Crash(p)
  /\ torn' = torn \cup UNION {IdsOf(fresh[c]) :
               c \in {d \in Contenders : ProcessOf[d] = p /\ step[d] = "install"}}
  /\ LET Lost(S) == [c \in Contenders |-> IF ProcessOf[c] = p THEN {} ELSE S[c]]
     IN /\ catalog' = Lost(catalog) /\ given' = Lost(given)
        /\ fresh' = Lost(fresh) /\ unused' = Lost(unused)
  /\ UNCHANGED <<diskVars, command, step, missing, unbacked, refused>>

-----------------------------------------------------------------------------
(***************************************************************************)
(* The specification.                                                      *)
(***************************************************************************)
Next ==
  \/ \E c \in Contenders :
       \/ \E what \in Commands : Begin(c, what)
       \/ \E sources \in Groupings \cup {{}} : Load(c, sources)
       \/ Lock(c) \/ Link(c) \/ Commit(c) \/ Abandon(c)
       \/ \E o \in Outputs : Compile(c, o)
       \/ Install(c) \/ InstallFails(c)
       \/ \E r \in catalog[c] : DeleteArtifact(c, r)
       \/ DeleteLibrary(c) \/ Collected(c) \/ RemoveCatalog(c) \/ Finish(c)
       \/ \E listed \in SUBSET Uncollected(c) : ListUnused(c, listed)
       \/ \E f \in unused[c] : RemoveUnused(c, f)
       \/ RemoveDirectory(c)
  \/ \E p \in Processes : CrashWriter(p)

Spec == Init /\ [][Next]_vars

-----------------------------------------------------------------------------
(***************************************************************************)
(* Properties.                                                             *)
(***************************************************************************)
(* A library keeps what it promises: each record of the committed catalog  *)
(* has its own artifact under its name, unless its writer is still         *)
(* installing it, or failed or crashed between save_catalog and            *)
(* install_pending.  No install overwrites, and no collection removes, the *)
(* artifact of another record; no delete_library takes the directory from  *)
(* under a writer that has just filled it.                                 *)
RecordsBacked ==
  \A r \in records :
    /\ directory /\ catalogued
    /\ \/ <<r.name, r.id>> \in files
       \/ r.id \in torn
       \/ \E c \in Contenders : Working(c, "install") /\ r \in fresh[c]

(* No record is obsolete: the catalog still has the very revisions of the  *)
(* VHDL units an object was compiled against, unless the object's own      *)
(* command replaced them, or the user deleted them or took them out of     *)
(* their source and has not compiled them again since; a SystemC plugin    *)
(* was linked from exactly the catalog's objects.                          *)
NoRecordObsolete ==
  \A r \in records :
    /\ \A need \in r.deps : need.unit \in Vhdl =>
         Backs(records, need) \/ need \in unbacked \/ need.unit \in missing
    /\ r.kind = "plugin" =>
         {need.id : need \in r.deps} = IdsOf(Objects(records))

(* A collection leaves no file behind that the catalog does not name, save *)
(* those that this collection could not list or remove: what a crashed     *)
(* writer left, and what an earlier collection could not remove, goes.     *)
NoGarbageAfterCollection ==
  [][\A c \in Contenders : Working(c, "remove") /\ step'[c] # "remove" =>
       \A f \in files' : f \in refused \/ \E r \in records' : r.name = f[1]]_vars
=============================================================================
