---------------------------- MODULE ProjectMemory ----------------------------
(***************************************************************************)
(* The compiler of project memory (project_memory/): a build reads the     *)
(* sources, publishes a snapshot directory under a lock and then renames   *)
(* the manifest that names it.  System calls fail, processes are killed,   *)
(* and sources are edited while they are read.                             *)
(***************************************************************************)
EXTENDS Naturals, FiniteSets, Functions

CONSTANTS
  Files,        \* source files of the project
  Contents,     \* what a file holds
  TooLarge,     \* content that a limit of normalize_documents refuses
  Configs,      \* include patterns, as the sets of files they select
  Dates,        \* as_of of a build
  Compilers,    \* processes that build
  Viewers,      \* processes that ask for a context
  MaxEdits,     \* bound on edits of the sources
  MaxBuilds,    \* bound on builds
  Nothing       \* no manifest, no lock holder, no call

VARIABLES
  sources,      \* the content of every file
  root,         \* output directory: absent, without its marker, owned
  snapshots,    \* published snapshot directories, by identity
  manifest,     \* the manifest: snapshot, config, digests of its inputs
  holder,       \* process that holds pmc.lock
  build,        \* per compiler, its call
  view,         \* per viewer, its call
  edits, builds,
  provenance,   \* history: snapshots that provenance_record has recorded
  named,        \* history: snapshots some manifest named
  kills         \* history: snapshots whose build was cut short

disk == <<root, snapshots, manifest>>
counters == <<edits, builds>>
history == <<provenance, named, kills>>
mvars == <<sources, disk, holder, build, view, counters, history>>

\* Observations, sections and their digests are a function of the inputs.
SnapshotId(inputs, config, date) == <<inputs, config, date>>
WithinLimits(inputs) == \A f \in DOMAIN inputs : inputs[f] # TooLarge
Manifest(b) == [id |-> SnapshotId(b.inputs, b.config, b.date),
                config |-> b.config, inputs |-> b.inputs]

MInit ==
  /\ sources \in [Files -> Contents \ {TooLarge}]
  /\ root = "absent" /\ snapshots = {} /\ manifest = Nothing /\ holder = Nothing
  /\ build = [c \in Compilers |-> Nothing] /\ view = [v \in Viewers |-> Nothing]
  /\ edits = 0 /\ builds = 0
  /\ provenance = {} /\ named = {} /\ kills = {}

EditSource(f, content) ==
  /\ edits < MaxEdits /\ content # sources[f]
  /\ sources' = [sources EXCEPT ![f] = content]
  /\ edits' = edits + 1
  /\ UNCHANGED <<disk, holder, build, view, builds, history>>

-----------------------------------------------------------------------------
(* project_build *)

Building(c, step) == build[c] # Nothing /\ build[c].step = step
To(c, step) == build' = [build EXCEPT ![c].step = step]
Done(c) == build' = [build EXCEPT ![c] = Nothing]
Id(c) == Manifest(build[c]).id
Calm == UNCHANGED <<sources, view, counters>>

Begin(c, config, date) ==
  /\ build[c] = Nothing /\ builds < MaxBuilds
  /\ build' = [build EXCEPT ![c] =
       [step |-> "scan", config |-> config, date |-> date, inputs |-> <<>>]]
  /\ builds' = builds + 1
  /\ UNCHANGED <<sources, disk, holder, view, edits, history>>
ProjectBuild(c, config, date) == Begin(c, config, date)
\* project_update builds with the configuration the manifest keeps.
ProjectUpdate(c, date) ==
  /\ root # "unowned"
  /\ Begin(c, IF manifest = Nothing THEN Files ELSE manifest.config, date)

\* _scan reads the selected files one after the other.
Scan(c, f) ==
  /\ Building(c, "scan")
  /\ f \in build[c].config \ DOMAIN build[c].inputs
  /\ build' = [build EXCEPT ![c].inputs =
       [g \in DOMAIN @ \union {f} |-> IF g = f THEN sources[f] ELSE @[g]]]
  /\ Calm /\ UNCHANGED <<disk, holder, history>>
Compile(c) ==
  /\ Building(c, "scan") /\ DOMAIN build[c].inputs = build[c].config
  /\ IF WithinLimits(build[c].inputs) THEN To(c, "own") ELSE Done(c)
  /\ Calm /\ UNCHANGED <<disk, holder, history>>
\* A dry run plans and refuses a directory that is not owned.
PlanOnly(c) ==
  /\ Building(c, "own")
  /\ Done(c)
  /\ Calm /\ UNCHANGED <<disk, holder, history>>

\* validate_owned(create=True): the directory, then its marker.
CreateRoot(c) ==
  /\ Building(c, "own") /\ root = "absent"
  /\ root' = "unowned"
  /\ To(c, "mark")
  /\ Calm /\ UNCHANGED <<snapshots, manifest, holder, history>>
WriteMarker(c) ==
  /\ Building(c, "mark")
  /\ root' = "owned"
  /\ To(c, "lock")
  /\ Calm /\ UNCHANGED <<snapshots, manifest, holder, history>>
ValidateOwned(c) ==
  /\ Building(c, "own") /\ root # "absent"
  /\ IF root = "owned" THEN To(c, "lock") ELSE Done(c)
  /\ Calm /\ UNCHANGED <<disk, holder, history>>

LockStore(c) ==
  /\ Building(c, "lock")
  /\ IF holder = Nothing THEN holder' = c /\ To(c, "check")
     ELSE Done(c) /\ UNCHANGED holder
  /\ Calm /\ UNCHANGED <<disk, history>>
\* Already applied, or an identity that is there under another manifest.
Refused(c) ==
  \/ manifest # Nothing /\ manifest.id = Id(c)
  \/ Id(c) \in snapshots
CheckIdentity(c) ==
  /\ Building(c, "check")
  /\ IF Refused(c) THEN Done(c) /\ holder' = Nothing
     ELSE To(c, "snapshot") /\ UNCHANGED holder
  /\ Calm /\ UNCHANGED <<disk, history>>
PublishSnapshot(c) ==
  /\ Building(c, "snapshot")
  /\ snapshots' = snapshots \union {Id(c)}
  /\ To(c, "manifest")
  /\ Calm /\ UNCHANGED <<root, manifest, holder, history>>
PublishManifest(c) ==
  /\ Building(c, "manifest")
  /\ manifest' = Manifest(build[c])
  /\ named' = named \union {Id(c)}
  /\ To(c, "sync")
  /\ Calm /\ UNCHANGED <<root, snapshots, holder, provenance, kills>>
Applied(c) ==
  /\ Building(c, "sync")
  /\ holder' = Nothing
  /\ To(c, "record")
  /\ Calm /\ UNCHANGED <<disk, history>>
RecordProvenance(c) ==
  /\ Building(c, "record")
  /\ provenance' = provenance \union {Id(c)}
  /\ Done(c)
  /\ Calm /\ UNCHANGED <<disk, holder, named, kills>>

\* A system call fails: what was published without its manifest is removed,
\* and the exception leaves the build without provenance.
Orphan_Everything(c) == build[c].step # "snapshot"
Orphan_Nothing(c) == FALSE
Orphan(c) == build[c].step = "manifest"
Fail(c) ==
  /\ build[c] # Nothing /\ build[c].step \in {"snapshot", "manifest", "sync"}
  /\ snapshots' = IF Orphan(c) THEN snapshots \ {Id(c)} ELSE snapshots
  /\ kills' = IF build[c].step = "sync" THEN kills \union {Id(c)} ELSE kills
  /\ holder' = Nothing
  /\ Done(c)
  /\ Calm /\ UNCHANGED <<root, manifest, provenance, named>>
KillBuild(c) ==
  /\ build[c] # Nothing
  /\ kills' = IF DOMAIN build[c].inputs = build[c].config
              THEN kills \union {Id(c)} ELSE kills
  /\ holder' = IF holder = c THEN Nothing ELSE holder
  /\ Done(c)
  /\ Calm /\ UNCHANGED <<disk, provenance, named>>

-----------------------------------------------------------------------------
(* project_context and project_status, without the lock *)

ReadManifest(v) ==
  /\ view[v] = Nothing /\ manifest # Nothing
  /\ view' = [view EXCEPT ![v] = [step |-> "open", id |-> manifest.id]]
  /\ UNCHANGED <<sources, disk, holder, build, counters, history>>
\* project_status: the digests of the manifest against a scan of its files.
Stale_Added(m) == DOMAIN m.inputs # m.config
Stale(m) == m.inputs # Restrict(sources, m.config)
OpenSnapshot(v) ==
  /\ view[v] # Nothing /\ view[v].step = "open"
  /\ view' = [view EXCEPT ![v] =
       [step |-> "shown", id |-> @.id, found |-> @.id \in snapshots,
        current |-> manifest.id = @.id,
        stale |-> Stale(manifest), truth |-> sources]]
  /\ UNCHANGED <<sources, disk, holder, build, counters, history>>
CloseView(v) ==
  /\ view[v] # Nothing /\ view[v].step = "shown"
  /\ view' = [view EXCEPT ![v] = Nothing]
  /\ UNCHANGED <<sources, disk, holder, build, counters, history>>

MNext ==
  \/ \E f \in Files, x \in Contents : EditSource(f, x)
  \/ \E c \in Compilers :
       \/ \E d \in Dates : \/ \E g \in Configs : ProjectBuild(c, g, d)
                           \/ ProjectUpdate(c, d)
       \/ \E f \in Files : Scan(c, f)
       \/ Compile(c) \/ PlanOnly(c) \/ CreateRoot(c) \/ WriteMarker(c) \/ ValidateOwned(c)
       \/ LockStore(c) \/ CheckIdentity(c) \/ PublishSnapshot(c) \/ PublishManifest(c)
       \/ Applied(c) \/ RecordProvenance(c) \/ Fail(c) \/ KillBuild(c)
  \/ \E v \in Viewers : ReadManifest(v) \/ OpenSnapshot(v) \/ CloseView(v)

MSpec == MInit /\ [][MNext]_mvars

-----------------------------------------------------------------------------
(* Properties. *)

\* Whatever fails, is killed or overlaps: the manifest names a snapshot that
\* is there, and so does every reader that read a manifest earlier.
NamedSnapshotsExist ==
  /\ manifest # Nothing => manifest.id \in snapshots
  /\ \A v \in Viewers : view[v] # Nothing /\ view[v].step = "shown" => view[v].found

\* A snapshot no manifest ever named comes from a process killed between the
\* two renames (its identity is refused from then on); a failing call cleans
\* up, and a snapshot without provenance comes from a kill or a failure.
LeftoversComeFromFaults ==
  holder = Nothing =>
    /\ snapshots \subseteq named \union kills
    /\ named \subseteq provenance \union kills \union
         {Id(c) : c \in {d \in Compilers : Building(d, "record")}}

\* A context that is not reported stale shows the sources as they are, unless
\* another build moved the manifest between the two reads.
ContextsAreHonest ==
  \A v \in Viewers : view[v] # Nothing /\ view[v].step = "shown"
                     /\ view[v].current /\ ~view[v].stale =>
    \E g \in Configs \union {Files}, d \in Dates :
      view[v].id = SnapshotId(Restrict(view[v].truth, g), g, d)
=============================================================================
