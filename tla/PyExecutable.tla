---------------------------- MODULE PyExecutable ----------------------------
(***************************************************************************)
(* ossie.device.LoadableDevice and ExecutableDevice: the cache of loaded   *)
(* files, the environment of shared packages and the processes.            *)
(*                                                                         *)
(* load, unload and terminate hold _cmdLock throughout, so each is one     *)
(* step; execute gives it up before the process is started, executeLinked  *)
(* does not, and has the environment of the whole device changed meanwhile.*)
(* The SIGCHLD handler and _unloadAll take no _cmdLock.                    *)
(***************************************************************************)
EXTENDS Integers, FiniteSets, FiniteSetsExt

CONSTANTS Names,         \* names that are loaded
          Tree,          \* the files below each name: pairs <<file, 0>>
          Main,          \* the file of each name that is executed
          Clients,
          Pids,          \* processes
          MaxLoads, MaxCalls,
          None

VARIABLES disk,          \* files in the cache directory
          loaded,        \* _loadedFiles: None or the count and the files of a name
          packages,      \* _sharedPkgs
          environ,       \* os.environ: the packages it has
          lock,          \* _cmdLock, while an executeLinked has it
          loads,         \* ghost: loads that succeeded less unloads, of each name
          stray,         \* ghost: files without an entry: failed loads, renamed files
          clobbered,     \* ghost: files deleted with a name that has them as well
          applications,  \* _applications: processes on record
          process,       \* processes: "none", "running" or "dead", their file, environment
                         \* and, of a linked one, dependencies
          call,          \* execute and releaseObject under way
          locked, released,
          unseen,        \* ghost: processes that the release did not see
          calls

vars == <<disk, loaded, packages, environ, lock, loads, stray, clobbered, applications, process,
          call, locked, released, unseen, calls>>

cache == <<disk, loaded, packages, loads, stray, clobbered>>
linking == <<environ, lock>>
processes == <<applications, process, unseen>>

Init ==
    /\ disk = {} /\ packages = {} /\ environ = {}
    /\ lock = None
    /\ loaded = [n \in Names |-> None]
    /\ loads = [n \in Names |-> 0]
    /\ stray = {} /\ clobbered = {}
    /\ applications = {}
    /\ process = [p \in Pids |-> [is |-> "none", file |-> None, env |-> {}, deps |-> {}]]
    /\ call = [c \in Clients |-> None]
    /\ locked = FALSE /\ released = FALSE
    /\ unseen = {} /\ calls = 0

Called(c) == ~released /\ calls < MaxCalls /\ calls' = calls + 1 /\ call[c] = None

Free_Always == TRUE

\* nobody has _cmdLock
Free == lock = None

Count(n) == IF loaded[n] = None THEN 0 ELSE loaded[n].count
FilesOf(n) == IF loaded[n] = None THEN {} ELSE loaded[n].files

----------------------------------------------------------------------------
(* LoadableDevice                                                          *)

\* a file that is being executed cannot be written: it is renamed and kept
Renamed(f) == <<f[1], 1>>

Busy == {f \in disk : \E p \in Pids : process[p].is = "running" /\ process[p].file = f}

\* the files are there: the file or directory itself, and all that was loaded
Exists(n) == Tree[n] \subseteq disk /\ FilesOf(n) \subseteq disk

NewCount(n) == Count(n) + 1

\* _loadTree: the files, and the renamed ones that were in the way
LoadTree(n, renamed) == Tree[n] \union renamed

\* _setEnvVars adds the package to the environment, for all processes to come
setEnvVars(n) ==
    /\ packages' = packages \union {n}
    /\ environ' = environ \union packages'

\* load: the tree is copied unless it is there and not older than the
\* remote one; a failure leaves the files copied so far.  Setting up the
\* environment of a package may fail after the file was counted.
load(c, n, newer, copied, package, setup) ==
    /\ Called(c) /\ Free /\ ~locked
    /\ LET copies == Count(n) = 0 \/ ~Exists(n) \/ newer
           busy == copied \intersect Busy
           renamed == {Renamed(f) : f \in busy}
           files == IF copies THEN LoadTree(n, renamed) ELSE FilesOf(n)
           others == UNION {FilesOf(m) : m \in Names}
       IN /\ copies \/ copied = {}
          /\ disk' = disk \union copied \union renamed
          /\ process' = [p \in Pids |-> IF process[p].file \in busy
                                        THEN [process[p] EXCEPT !.file = Renamed(@)]
                                        ELSE process[p]]
          /\ clobbered' = clobbered \ copied
          /\ IF ~copies \/ copied = Tree[n]
             THEN /\ NewCount(n) <= MaxLoads
                  /\ loaded' = [loaded EXCEPT ![n] = [count |-> NewCount(n), files |-> files]]
                  /\ loads' = [loads EXCEPT ![n] = @ + 1]
                  /\ stray' = (stray \union FilesOf(n)) \ files
                  /\ IF package /\ setup THEN setEnvVars(n) ELSE UNCHANGED <<packages, environ>>
             ELSE /\ stray' = stray \union ((copied \union renamed) \ others)
                  /\ UNCHANGED <<loaded, loads, packages, environ>>
    /\ UNCHANGED <<applications, unseen, call, lock, locked, released>>

\* the files on record, renamed ones included
Deleted(n) == FilesOf(n)

\* _unload: the last one deletes the files, also those of another name
Unload(n, count) ==
    IF count = 0
    THEN /\ loaded' = [loaded EXCEPT ![n] = None]
         /\ disk' = disk \ Deleted(n)
         /\ clobbered' = clobbered \union (FilesOf(n) \intersect UNION {FilesOf(m) : m \in Names \ {n}})
         /\ stray' = stray \ FilesOf(n)
    ELSE /\ loaded' = [loaded EXCEPT ![n].count = count]
         /\ UNCHANGED <<disk, stray, clobbered>>

unload(c, n) ==
    /\ Called(c) /\ Free /\ ~locked /\ loaded[n] # None
    /\ Unload(n, Count(n) - 1)
    /\ loads' = [loads EXCEPT ![n] = @ - 1]
    /\ UNCHANGED <<packages, linking, processes, call, locked, released>>

----------------------------------------------------------------------------
(* ExecutableDevice                                                        *)

Unused == {p \in Pids : process[p].is = "none"}
NextPid == CHOOSE p \in Unused : TRUE

Spawned(n, deps) ==
    process' = [process EXCEPT ![NextPid] =
                   [is |-> "running", file |-> Main[n], env |-> environ, deps |-> deps]]

\* execute: the checks, under _cmdLock
execute(c, n) ==
    /\ Called(c) /\ Free /\ ~locked /\ Main[n] \in disk
    /\ call' = [call EXCEPT ![c] = [at |-> "popen", name |-> n, todo |-> {}]]
    /\ UNCHANGED <<cache, linking, processes, locked, released>>

\* _execute: the process, with the environment as it is now; its file may be
\* gone
_execute(c) ==
    /\ call[c] # None /\ call[c].at = "popen"
    /\ IF Main[call[c].name] \in disk
       THEN /\ Unused # {}
            /\ Spawned(call[c].name, {})
            /\ call' = [call EXCEPT ![c] = [at |-> "record", name |-> call[c].name, todo |-> {NextPid}]]
       ELSE call' = [call EXCEPT ![c] = None] /\ UNCHANGED process
    /\ UNCHANGED <<cache, linking, applications, unseen, locked, released, calls>>

record(c) ==
    /\ call[c] # None /\ call[c].at = "record"
    /\ applications' = applications \union call[c].todo
    /\ call' = [call EXCEPT ![c] = None]
    /\ UNCHANGED <<cache, linking, process, unseen, locked, released, calls>>

\* the packages of the dependencies, and all others with them: a
\* sharedLibraryStorage keeps its changes in a list of the class
Environment(deps) == IF deps \intersect packages # {} THEN packages ELSE {}

executeLinked(c, n, deps) ==
    /\ Called(c) /\ Free
    /\ lock' = c
    /\ environ' = Environment(deps)
    /\ call' = [call EXCEPT ![c] = [at |-> "linked", name |-> n, todo |-> deps, env |-> environ]]
    /\ UNCHANGED <<cache, processes, locked, released>>

\* execute within the lock; then the environment of before
linked(c) ==
    /\ call[c] # None /\ call[c].at = "linked"
    /\ IF ~locked /\ Main[call[c].name] \in disk /\ Unused # {}
       THEN /\ Spawned(call[c].name, call[c].todo \intersect packages)
            /\ applications' = applications \union {NextPid}
       ELSE UNCHANGED <<process, applications>>
    /\ environ' = call[c].env
    /\ lock' = None
    /\ call' = [call EXCEPT ![c] = None]
    /\ UNCHANGED <<cache, unseen, locked, released, calls>>

Killed(p) == [process EXCEPT ![p].is = "dead"]

\* terminate: signals until the process group is gone, then the record
terminate(c, p) ==
    /\ Called(c) /\ Free /\ ~locked /\ p \in applications
    /\ process' = Killed(p)
    /\ applications' = applications \ {p}
    /\ UNCHANGED <<cache, linking, unseen, call, locked, released>>

\* _child_handler forgets a process that a signal ended
Forget(p, signalled) == IF signalled THEN applications \ {p} ELSE applications

_child_handler(p, signalled) ==
    /\ process[p].is = "running"
    /\ process' = Killed(p)
    /\ applications' = Forget(p, signalled)
    /\ UNCHANGED <<cache, linking, unseen, call, locked, released, calls>>

\* _set_adminState
_set_adminState(c, l) ==
    /\ Called(c) /\ locked # l
    /\ locked' = l
    /\ UNCHANGED <<cache, linking, processes, call, released>>

----------------------------------------------------------------------------
(* releaseObject                                                           *)

Unseen == {p \in Pids : process[p].is = "none" \/ \E d \in Clients :
                            call[d] # None /\ call[d].at = "record" /\ p \in call[d].todo}

\* the processes on record now are terminated, one after the other
ToKill == applications

releaseObject(c) ==
    /\ Called(c)
    /\ call' = [call EXCEPT ![c] = [at |-> "kill", name |-> None, todo |-> ToKill,
                                     left |-> None, ghost |-> Unseen]]
    /\ UNCHANGED <<cache, linking, processes, locked, released>>

\* a device that is locked, and a process that is no longer on record, end
\* the release with an exception
releaseKill(c, p) ==
    /\ call[c] # None /\ call[c].at = "kill" /\ p \in call[c].todo /\ Free
    /\ IF ~locked /\ p \in applications
       THEN /\ process' = Killed(p)
            /\ applications' = applications \ {p}
            /\ call' = [call EXCEPT ![c].todo = @ \ {p}]
       ELSE call' = [call EXCEPT ![c] = None] /\ UNCHANGED <<process, applications>>
    /\ UNCHANGED <<cache, linking, unseen, locked, released, calls>>

Forced == {n \in Names : loaded[n] # None}

Unloading(c) == call[c] # None /\ call[c].at = "kill" /\ call[c].todo = {}

\* _unloadAll goes through the names that are loaded when it begins; what another
\* client loads meanwhile stays, and what it unloads is passed over
_unloadAll(c) ==
    /\ Unloading(c) /\ call[c].left = None
    /\ call' = [call EXCEPT ![c].left = Forced]
    /\ UNCHANGED <<cache, linking, processes, locked, released, calls>>

releaseUnload(c, n) ==
    /\ Unloading(c) /\ call[c].left # None /\ n \in call[c].left
    /\ call' = [call EXCEPT ![c].left = @ \ {n}]
    /\ IF n \in Forced
       THEN Unload(n, 0) /\ loads' = [loads EXCEPT ![n] = 0]
       ELSE UNCHANGED <<disk, loaded, loads, stray, clobbered>>
    /\ UNCHANGED <<packages, linking, processes, locked, released, calls>>

releaseEnd(c) ==
    /\ Unloading(c) /\ call[c].left = {}
    /\ released' = TRUE
    /\ unseen' = call[c].ghost
    /\ call' = [call EXCEPT ![c] = None]
    /\ UNCHANGED <<cache, linking, applications, process, locked, calls>>

----------------------------------------------------------------------------
Next ==
    \/ \E c \in Clients, n \in Names :
          \/ \E newer, package, setup \in BOOLEAN, copied \in SUBSET Tree[n] :
                load(c, n, newer, copied, package, setup)
          \/ unload(c, n) \/ execute(c, n) \/ releaseUnload(c, n)
          \/ \E deps \in SUBSET Names : executeLinked(c, n, deps)
    \/ \E c \in Clients :
          \/ _execute(c) \/ record(c) \/ linked(c) \/ releaseObject(c) \/ _unloadAll(c)
          \/ releaseEnd(c)
          \/ \E p \in Pids : terminate(c, p) \/ releaseKill(c, p)
          \/ \E l \in BOOLEAN : _set_adminState(c, l)
    \/ \E p \in Pids, signalled \in BOOLEAN : _child_handler(p, signalled)

Spec == Init /\ [][Next]_vars

----------------------------------------------------------------------------
(* The types of the records, and what None must not be.                    *)

Files == UNION {Tree[n] \union {Renamed(f) : f \in Tree[n]} : n \in Names}

LoadRecords == [count : Nat \ {0}, files : SUBSET Files]
ProcessRecords ==
    [is : {"none", "running", "dead"}, file : Files \union {None}, env : SUBSET Names,
     deps : SUBSET Names]

StartCalls == [at : {"popen", "record"}, name : Names, todo : SUBSET Pids]
LinkCalls == [at : {"linked"}, name : Names, todo : SUBSET Names, env : SUBSET Names]
KillCalls == [at : {"kill"}, name : {None}, todo : SUBSET Pids,
              left : {None} \union SUBSET Names, ghost : SUBSET Pids]
Calls == StartCalls \union LinkCalls \union KillCalls

\* None is no client, no call and no entry of a file
ExecutableConstants ==
    /\ None \notin Clients /\ None \notin Calls /\ None \notin LoadRecords

TypeOK ==
    /\ disk \subseteq Files
    /\ loaded \in [Names -> {None} \union LoadRecords]
    /\ packages \subseteq Names /\ environ \subseteq Names
    /\ lock \in {None} \union Clients
    /\ loads \in [Names -> Nat]
    /\ applications \subseteq Pids
    /\ process \in [Pids -> ProcessRecords]
    /\ call \in [Clients -> {None} \union Calls]
    /\ released \in BOOLEAN

----------------------------------------------------------------------------
\* A name that was loaded more often than it was unloaded has its files on
\* the disk, except those that went with another name that has them too.
LoadedOnDisk ==
    \A n \in Names : loads[n] > 0 => loaded[n] # None /\ Tree[n] \ clobbered \subseteq disk

\* The files on the disk are those of the names that are loaded: nothing is
\* left of a name that was unloaded, except what a failed load copied.
NothingLeft == disk \ stray \subseteq UNION {FilesOf(n) : n \in Names}

\* A process that runs can be terminated: it is on record, or the call that
\* started it is about to put it there.
ProcessesKnown ==
    \A p \in Pids :
        process[p].is = "running" =>
            p \in applications \/ \E c \in Clients : call[c] # None /\ call[c].at = "record"
                                                                   /\ p \in call[c].todo

\* No process survives the device, except those started while it was being
\* released.
ReleaseKillsAll == released => \A p \in Pids : process[p].is = "running" => p \in unseen

\* A linked process has the packages it depends on in its environment, and
\* the device has its own environment back afterwards.
EnvironmentRight ==
    /\ \A p \in Pids : process[p].deps \subseteq process[p].env
    /\ Free => environ = packages
============================================================================
