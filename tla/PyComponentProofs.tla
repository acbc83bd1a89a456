------------------------- MODULE PyComponentProofs -------------------------
(***************************************************************************)
(* Proofs about the parts of a Python component, in the module that runs   *)
(* them: the logging configuration (Logs), the executable device (Exec),   *)
(* the monitored properties (PyResource, extended), the event manager      *)
(* (Events) and the messages (Msgs).  What is proved of a device in        *)
(* PyDeviceProofs and of the client's view in PyDomainViewProofs is        *)
(* carried over by instantiation.                                          *)
(*                                                                         *)
(* A behaviour of MCSafety is, for each part, a behaviour of that part:    *)
(* its variables start in the part's Init, and change by the part's Next   *)
(* or not at all, whichever part the behaviour is about.                   *)
(***************************************************************************)
EXTENDS MCPyComponent, SequenceTheorems, TLAPS

----------------------------------------------------------------------------
(* Logging.                                                                *)

Parts == {"comp_1", "system", "Resource", "comp"}

Own == {Logs!Root, Logs!Base, Logs!System, Logs!Child}

LoggingType ==
    /\ \E url \in Configs \union {None}, debug \in {None, 1, 4} : original = [url |-> url, debug |-> debug]
    /\ level = [l \in Logs!Loggers |-> level[l]]
    /\ asked = [l \in Logs!Loggers |-> asked[l]]

AskedTrue ==
    \A l \in Logs!Loggers : asked[l] # None => asked[l] \in DOMAIN Logs!Log4 /\ level[l] = Logs!Log4[asked[l]]

LoggingInv == LoggingType /\ AskedTrue /\ Logs!ResetRestores

\* Every CF level has a Python level of its own: reading back what was set gives the CF level
\* that was asked for (ConvertLog4ToCFLevel after ConvertToLog4Level).
LEMMA LevelOfLogger == ASSUME NEW cf \in DOMAIN Logs!Log4
    PROVE  Logs!Log4[cf] \in Nat \ {0} /\ Logs!ConvertLog4ToCFLevel(Logs!Log4[cf]) = cf
<1>1. DOMAIN Logs!Log4 = {"OFF", "FATAL", "ERROR", "WARN", "INFO", "DEBUG", "TRACE", "ALL"}
  BY DEF Logs!Log4
<1>2. \A x, y \in DOMAIN Logs!Log4 : Logs!Log4[x] = Logs!Log4[y] => x = y
  BY <1>1 DEF Logs!Log4
<1>3. Logs!Log4[cf] \in Nat \ {0}
  BY <1>1 DEF Logs!Log4
<1>4. {x \in DOMAIN Logs!Log4 : Logs!Log4[x] = Logs!Log4[cf]} = {cf}
  BY <1>2
<1>5. Logs!ConvertLog4ToCFLevel(Logs!Log4[cf]) = CHOOSE x \in {cf} : TRUE
  BY <1>4 DEF Logs!ConvertLog4ToCFLevel
<1> QED
  BY <1>3, <1>5

\* getEffectiveLevel of a logger that has a level is that level.
LEMMA EffectiveIsOwn == ASSUME NEW lv, NEW l \in Logs!Loggers, lv[l] # Logs!NOTSET
    PROVE  Logs!Effective(lv, l) = lv[l]
<1> DEFINE set == {k \in 0..Len(l) : lv[SubSeq(l, 1, k)] # Logs!NOTSET}
<1>1. Len(l) \in Nat /\ SubSeq(l, 1, Len(l)) = l
  <2>0. l \in Seq(Parts)
    <3>1. Logs!Root \in Seq(Parts) /\ Logs!Base \in Seq(Parts) /\ Logs!Log \in Seq(Parts)
      BY DEF Logs!Root, Logs!Base, Logs!Log, Parts
    <3>2. Logs!System \in Seq(Parts)
      BY DEF Logs!System, Parts
    <3>3. Logs!Child \in Seq(Parts)
      BY DEF Logs!Child, Parts
    <3> QED BY <3>1, <3>2, <3>3 DEF Logs!Loggers
  <2>1. Len(l) \in Nat
    BY <2>0
  <2>2. SubSeq(l, 1, Len(l)) \in Seq(Parts) /\ Len(SubSeq(l, 1, Len(l))) = Len(l)
    BY <2>0, <2>1
  <2>3. \A i \in 1..Len(l) : SubSeq(l, 1, Len(l))[i] = l[i]
    BY <2>0, <2>1
  <2> QED BY <2>0, <2>1, <2>2, <2>3
<1>2. Len(l) \in set /\ \A k \in set : k \in Int /\ k <= Len(l)
  <2>1. Len(l) \in 0..Len(l)
    BY <1>1
  <2>2. \A k \in 0..Len(l) : k \in Int /\ k <= Len(l)
    BY <1>1
  <2>3. lv[SubSeq(l, 1, Len(l))] # Logs!NOTSET
    BY <1>1
  <2>4. set \subseteq 0..Len(l)
    OBVIOUS
  <2>5. Len(l) \in set
    BY <2>1, <2>3
  <2> QED BY <2>2, <2>4, <2>5
<1> HIDE DEF set
<1>3. \A k \in set : (\A j \in set : j <= k) <=> k = Len(l)
  BY <1>1, <1>2
<1>4. (CHOOSE k \in set : \A j \in set : j <= k) = Len(l)
  BY <1>2, <1>3
<1>5. set # {}
  BY <1>2
<1> QED
  BY <1>1, <1>4, <1>5 DEF Logs!Effective, set

\* Loggers that hold the Python level asked for report it and use it.
LEMMA AskedKept == AskedTrue => Logs!LevelKept
<1> SUFFICES ASSUME AskedTrue, NEW l \in Logs!Loggers, asked[l] # None
             PROVE  /\ Logs!ConvertLog4ToCFLevel(Logs!Effective(level, l)) = asked[l]
                    /\ Logs!Effective(level, l) = Logs!Log4[asked[l]]
  BY DEF Logs!LevelKept
<1>1. asked[l] \in DOMAIN Logs!Log4 /\ level[l] = Logs!Log4[asked[l]]
  BY DEF AskedTrue
<1>2. level[l] # Logs!NOTSET
  BY <1>1, LevelOfLogger DEF Logs!NOTSET
<1> QED
  BY <1>1, <1>2, LevelOfLogger, EffectiveIsOwn

\* The component's loggers are different ones, and its _log is not among those it owns.
LEMMA LoggersDiffer ==
    /\ Logs!Root # Logs!Base /\ Logs!Root # Logs!System /\ Logs!Root # Logs!Child /\ Logs!Root # Logs!Log
    /\ Own \subseteq Logs!Loggers /\ Logs!Base # Logs!Log /\ Logs!Log \notin Own
<1>1. Logs!Root # Logs!Base /\ Logs!Root # Logs!System /\ Logs!Root # Logs!Child /\ Logs!Root # Logs!Log
  BY DEF Logs!Root, Logs!Base, Logs!System, Logs!Child, Logs!Log
<1>2. Logs!Base # Logs!Log /\ Logs!System # Logs!Log /\ Logs!Child # Logs!Log
  BY DEF Logs!Base, Logs!System, Logs!Child, Logs!Log
<1> QED
  BY <1>1, <1>2 DEF Own, Logs!Loggers

\* SetLogLevel gives the logger its level and leaves those of all others.
LEMMA GivenIsHeld ==
    ASSUME AskedTrue, LoggingType, NEW l \in Logs!Loggers, NEW cf \in DOMAIN Logs!Log4,
           level' = Logs!Set(level, l, cf), asked' = [asked EXCEPT ![l] = cf]
    PROVE  AskedTrue'
  BY DEF AskedTrue, LoggingType, Logs!Set, Logs!ConvertToLog4Level

\* A component that starts has been asked for nothing.
LEMMA LoggingInit == Logs!Init => LoggingInv
<1> SUFFICES ASSUME Logs!Init PROVE LoggingInv
  OBVIOUS
<1> USE DEF Logs!Init
<1>1. asked = [l \in Logs!Loggers |-> asked[l]]
  OBVIOUS
<1>2. \A lv : lv = [l \in Logs!Loggers |-> lv[l]] => Logs!ConfigureDefault(lv) = [l \in Logs!Loggers |-> Logs!ConfigureDefault(lv)[l]]
  BY DEF Logs!ConfigureDefault
<1>3. \A lv, cfg : Logs!strConfig(lv, cfg) = [l \in Logs!Loggers |-> Logs!strConfig(lv, cfg)[l]]
  BY DEF Logs!strConfig
<1>4. \A lv, url, debug : lv = [l \in Logs!Loggers |-> lv[l]] => Logs!Configure(lv, url, debug) = [l \in Logs!Loggers |-> Logs!Configure(lv, url, debug)[l]]
  BY <1>2, <1>3 DEF Logs!Configure
<1>5. level = [l \in Logs!Loggers |-> level[l]]
  BY <1>4 DEF Logs!Started
<1> QED
  BY <1>1, <1>5 DEF LoggingInv, LoggingType, AskedTrue, Logs!ResetRestores

\* A name whose parts begin another name is a prefix of it.
LEMMA PrefixByParts ==
    ASSUME NEW s \in Seq(Parts), NEW t \in Seq(Parts), Len(s) <= Len(t),
           \A i \in 1..Len(s) : s[i] = t[i]
    PROVE  Logs!IsPrefix(s, t)
<1> DEFINE u == SubSeq(s, 1, Len(s))
           v == SubSeq(t, 1, Len(s))
<1>1. Len(s) \in Nat /\ Len(t) \in Nat
  OBVIOUS
<1>2. u \in Seq(Parts) /\ v \in Seq(Parts) /\ Len(u) = Len(s) /\ Len(v) = Len(s)
  BY <1>1
<1>3. \A i \in 1..Len(s) : u[i] = s[i] /\ v[i] = t[i]
  BY <1>1
<1>4. u = v
  BY <1>2, <1>3
<1> QED
  BY <1>4 DEF Logs!IsPrefix

\* Cleared takes the levels of the component's own loggers away.
LEMMA OwnCleared == ASSUME NEW lv, NEW l \in {Logs!Base, Logs!System, Logs!Child} PROVE Logs!Cleared(lv)[l] = Logs!NOTSET
<1>1. Logs!Base \in Seq(Parts) /\ Logs!System \in Seq(Parts) /\ Logs!Child \in Seq(Parts)
  BY DEF Logs!Base, Logs!System, Logs!Child, Parts
<1>2. Len(Logs!Base) = 1 /\ Len(Logs!System) = 2 /\ Len(Logs!Child) = 3
  BY DEF Logs!Base, Logs!System, Logs!Child
<1>3. /\ Logs!IsStrictPrefix(Logs!Base, Logs!System) /\ Logs!IsStrictPrefix(Logs!Base, Logs!Child) /\ Logs!IsStrictPrefix(Logs!System, Logs!Child)
  <2>1. \A i \in 1..1 : Logs!Base[i] = Logs!System[i] /\ Logs!Base[i] = Logs!Child[i]
    BY DEF Logs!Base, Logs!System, Logs!Child
  <2>2. \A i \in 1..2 : Logs!System[i] = Logs!Child[i]
    BY DEF Logs!System, Logs!Child
  <2>3. Logs!IsPrefix(Logs!Base, Logs!System) /\ Logs!IsPrefix(Logs!Base, Logs!Child) /\ Logs!IsPrefix(Logs!System, Logs!Child)
    BY <1>1, <1>2, <2>1, <2>2, PrefixByParts
  <2> QED BY <1>2, <2>3 DEF Logs!IsStrictPrefix
<1>4. Logs!Starts(l, Logs!Child) /\ Logs!Starts(Logs!Base, l)
  BY <1>3 DEF Logs!Starts
<1>5. Logs!Child \in Logs!Current /\ l \in Logs!Loggers
  BY DEF Logs!Current, Logs!Loggers
<1> QED
  BY <1>4, <1>5 DEF Logs!Cleared

\* resetLog with a file that can be read rebuilds what Configure made at the start: after the
\* clearing the own loggers have no level, as new ones, and the same file and level are applied.
LEMMA ResetIsStart ==
    ASSUME LoggingInv, Logs!resetLog(TRUE), ~callback
    PROVE  \A l \in Own : level'[l] = Logs!Started(original.url, original.debug)[l]
<1> DEFINE new == [l \in Logs!Loggers |-> Logs!NOTSET]
           cleared == Logs!Cleared(level)
           url == original.url
<1> USE LoggersDiffer
<1>1. \A l \in {Logs!Base, Logs!System, Logs!Child} : cleared[l] = Logs!NOTSET /\ new[l] = Logs!NOTSET /\ l \in Logs!Loggers /\ l # Logs!Root
  BY OwnCleared DEF Logs!Loggers
<1>2. \A lv : DOMAIN Logs!Cleared(lv) = Logs!Loggers
  BY DEF Logs!Cleared
<1>3. Logs!Root \in Logs!Loggers /\ Own = {Logs!Root} \union {Logs!Base, Logs!System, Logs!Child}
  BY DEF Logs!Loggers, Own
<1> HIDE DEF new, cleared
<1>4. \A l \in Own : Logs!ConfigureDefault(cleared)[l] = Logs!ConfigureDefault(new)[l]
  BY <1>1, <1>2, <1>3 DEF Logs!ConfigureDefault, new, cleared
<1>5. \A l \in Own : Logs!strConfig(cleared, url)[l] = Logs!strConfig(new, url)[l]
  BY <1>1, <1>3 DEF Logs!strConfig
<1> DEFINE read == IF url = None THEN Logs!ConfigureDefault(cleared) ELSE Logs!strConfig(cleared, url)
           configured == IF url = None THEN Logs!ConfigureDefault(new) ELSE Logs!strConfig(new, url)
<1>6. \A l \in Own : read[l] = configured[l]
  BY <1>4, <1>5
<1>7. DOMAIN read = Logs!Loggers /\ DOMAIN configured = Logs!Loggers
  BY <1>2 DEF Logs!ConfigureDefault, Logs!strConfig, new, cleared
<1>8. level' = IF original.debug = None \/ callback THEN read
               ELSE Logs!Set(read, Logs!Root, Logs!ConvertLogLevel(original.debug))
  BY DEF Logs!resetLog, cleared
<1>9. Logs!Started(url, original.debug) =
        IF original.debug = None THEN configured
        ELSE [configured EXCEPT ![Logs!Root] = Logs!Log4[Logs!ConvertLogLevel(original.debug)]]
  BY DEF Logs!Started, Logs!Configure, new
<1>10. original.debug = None \/ Logs!ConvertLogLevel(original.debug) \in DOMAIN Logs!Log4
  <2>1. original.debug \in {None, 1, 4}
    BY DEF LoggingInv, LoggingType
  <2> QED BY <2>1 DEF Logs!ConvertLogLevel, Logs!Log4
<1> HIDE DEF read, configured
<1>11. CASE original.debug = None
  BY <1>6, <1>8, <1>9, <1>11
<1>12. CASE original.debug # None
  <2>1. level' = [read EXCEPT ![Logs!Root] = Logs!Log4[Logs!ConvertLogLevel(original.debug)]]
    BY <1>8, <1>10, <1>12 DEF Logs!Set, Logs!ConvertToLog4Level
  <2> QED BY <1>3, <1>6, <1>7, <1>9, <1>12, <2>1
<1> QED
  BY <1>11, <1>12

\* Every call of the log configuration keeps the invariant.
LEMMA LoggingStep == LoggingInv /\ [Logs!Next]_(Logs!vars) => LoggingInv'
<1> SUFFICES ASSUME LoggingInv, [Logs!Next]_(Logs!vars) PROVE LoggingInv'
  OBVIOUS
<1> USE LoggersDiffer DEF LoggingInv
<1>1. ASSUME NEW l \in Logs!Loggers, NEW cf \in Levels, Logs!setLogLevel(l, cf) PROVE LoggingInv'
  <2> USE <1>1 DEF Logs!setLogLevel, Logs!SupportedCFLevel
  <2>1. LoggingType'
    BY DEF LoggingType, Logs!Set
  <2>2. AskedTrue'
    BY GivenIsHeld DEF AskedTrue
  <2>3. Logs!ResetRestores'
    BY DEF Logs!ResetRestores
  <2> QED BY <2>1, <2>2, <2>3
<1>2. ASSUME NEW cf \in Levels, Logs!log_level(cf) PROVE LoggingInv'
  <2> USE <1>2 DEF Logs!log_level, Logs!SupportedCFLevel
  <2>1. LoggingType'
    BY DEF LoggingType, Logs!Set
  <2>2. AskedTrue'
    <3>1. CASE callback
      BY <3>1 DEF AskedTrue
    <3>2. CASE ~callback
      BY <3>2 DEF AskedTrue, LoggingType, Logs!Set, Logs!ConvertToLog4Level, Logs!Loggers
    <3> QED BY <3>1, <3>2
  <2>3. Logs!ResetRestores'
    BY DEF Logs!ResetRestores
  <2> QED BY <2>1, <2>2, <2>3
<1>3. ASSUME NEW cfg \in Configs, Logs!setLogConfig(cfg) PROVE LoggingInv'
  BY <1>3 DEF Logs!setLogConfig, LoggingType, AskedTrue, Logs!ResetRestores, Logs!strConfig,
     Logs!Forgotten
<1>4. ASSUME NEW flag \in BOOLEAN, Logs!setLogListenerCallback(flag) PROVE LoggingInv'
  BY <1>4 DEF Logs!setLogListenerCallback, LoggingType, AskedTrue, Logs!ResetRestores
<1>5. ASSUME NEW flag \in BOOLEAN, Logs!resetLog(flag) PROVE LoggingInv'
  <2>1. AskedTrue' /\ asked' = [l \in Logs!Loggers |-> asked'[l]] /\ UNCHANGED original /\ fresh' = (flag /\ ~callback)
    BY <1>5 DEF Logs!resetLog, AskedTrue, Logs!Forgotten
  <2>2. level' = [l \in Logs!Loggers |-> level'[l]]
    <3>1. DOMAIN Logs!Cleared(level) = Logs!Loggers /\ Logs!Cleared(level) = [l \in Logs!Loggers |-> Logs!Cleared(level)[l]]
      BY DEF Logs!Cleared
    <3> DEFINE cleared == Logs!Cleared(level)
    <3>2. \/ level' = Logs!ConfigureDefault(cleared) \/ level' = Logs!strConfig(cleared, original.url) \/ level' = cleared
          \/ \E r \in {Logs!ConfigureDefault(cleared), Logs!strConfig(cleared, original.url), cleared} : level' = Logs!Set(r, Logs!Root, Logs!ConvertLogLevel(original.debug))
      BY <1>5 DEF Logs!resetLog
    <3>3. \A r \in {Logs!ConfigureDefault(cleared), Logs!strConfig(cleared, original.url), cleared} : r = [l \in Logs!Loggers |-> r[l]]
      BY <3>1 DEF Logs!ConfigureDefault, Logs!strConfig
    <3> HIDE DEF cleared
    <3> QED BY <3>2, <3>3 DEF Logs!Set
  <2>3. Logs!ResetRestores'
    BY <1>5, <2>1, ResetIsStart DEF Logs!ResetRestores, Own
  <2> QED BY <2>1, <2>2, <2>3 DEF LoggingType
<1>6. CASE UNCHANGED Logs!vars
  BY <1>6 DEF Logs!vars, LoggingType, AskedTrue, Logs!ResetRestores
<1> QED
  BY <1>1, <1>2, <1>3, <1>4, <1>5, <1>6 DEF Logs!Next

\* The levels that were set hold and a reset restores those of the start, for all
\* configuration files.
THEOREM LoggingSafe == Logs!Init /\ [][Logs!Next]_(Logs!vars) => [](Logs!LevelKept /\ Logs!ResetRestores)
<1>1. LoggingInv => Logs!LevelKept /\ Logs!ResetRestores
  BY AskedKept DEF LoggingInv
<1> QED
  BY <1>1, LoggingInit, LoggingStep, PTL

----------------------------------------------------------------------------
(* Loaded files and processes.                                             *)

\* the books of the loaded files
FilesTrue ==
    /\ \A n \in Names : loads[n] = Exec!Count(n) /\ (loaded[n] # None => Tree[n] \subseteq Exec!FilesOf(n))
    /\ \A n \in Names : Exec!FilesOf(n) \ clobbered \subseteq disk
    /\ Exec!NothingLeft

\* a release knows of all the processes that it will not kill
KillTrue ==
    /\ \A c \in {c1, c2} : x_call[c] # None /\ x_call[c].at = "kill" =>
          \A p \in Pids : /\ process[p].is = "none" => p \in x_call[c].ghost
                          /\ process[p].is = "running" => p \in x_call[c].ghost \/ p \in x_call[c].todo
    /\ x_released => \A p \in Pids : process[p].is # "dead" => p \in unseen

\* the environment that a linked process gets, and the one put back
LinkTrue ==
    /\ \A c \in {c1, c2} : x_call[c] # None /\ x_call[c].at = "linked" =>
          x_lock = c /\ environ = Exec!Environment(x_call[c].todo) /\ x_call[c].env = packages
    /\ Exec!EnvironmentRight

ExecutableInv ==
    Exec!TypeOK /\ FilesTrue /\ Exec!ProcessesKnown /\ KillTrue /\ LinkTrue

\* A device that has loaded and started nothing satisfies the invariant.
LEMMA ExecutableInit == ASSUME Exec!ExecutableConstants PROVE Exec!Init => ExecutableInv
<1> SUFFICES ASSUME Exec!Init PROVE ExecutableInv
  OBVIOUS
<1> USE DEF Exec!Init
<1>1. Exec!TypeOK
  <2>1. [is |-> "none", file |-> None, env |-> {}, deps |-> {}] \in Exec!ProcessRecords
    BY DEF Exec!ProcessRecords
  <2> QED BY <2>1 DEF Exec!TypeOK
<1>2. FilesTrue
  BY DEF FilesTrue, Exec!NothingLeft, Exec!Count, Exec!FilesOf
<1>3. Exec!ProcessesKnown /\ KillTrue
  BY DEF Exec!ProcessesKnown, KillTrue
<1>4. LinkTrue
  BY DEF LinkTrue, Exec!EnvironmentRight
<1> QED
  BY <1>1, <1>2, <1>3, <1>4 DEF ExecutableInv

\* A step that leaves the cache alone leaves its books true.
LEMMA SameFiles ==
    ASSUME FilesTrue, UNCHANGED Exec!cache
    PROVE  FilesTrue'
  BY DEF FilesTrue, Exec!cache, Exec!NothingLeft, Exec!Count, Exec!FilesOf

\* _unload keeps the books, at the last unload of a name and before.
LEMMA UnloadKeeps ==
    ASSUME Exec!ExecutableConstants, Exec!TypeOK, FilesTrue, NEW n \in Names, loaded[n] # None, NEW k \in {0, Exec!Count(n) - 1},
           Exec!Unload(n, k), loads' = [loads EXCEPT ![n] = k]
    PROVE  /\ FilesTrue' /\ disk' \subseteq Exec!Files
           /\ loaded' \in [Names -> {None} \union Exec!LoadRecords] /\ loads' \in [Names -> Nat]
<1>0. /\ loaded \in [Names -> {None} \union Exec!LoadRecords] /\ loads \in [Names -> Nat]
      /\ disk \subseteq Exec!Files /\ loaded[n] \in Exec!LoadRecords
  BY DEF Exec!TypeOK
<1>1. CASE k = 0
  <2>1. /\ loaded' = [loaded EXCEPT ![n] = None] /\ disk' = disk \ Exec!FilesOf(n)
        /\ clobbered' = clobbered \union (Exec!FilesOf(n) \intersect UNION {Exec!FilesOf(m) : m \in Names \ {n}})
        /\ stray' = stray \ Exec!FilesOf(n)
    BY <1>1 DEF Exec!Unload, Exec!Deleted
  <2>2. Exec!FilesOf(n)' = {} /\ \A m \in Names \ {n} : Exec!FilesOf(m)' = Exec!FilesOf(m)
    BY <1>0, <2>1 DEF Exec!FilesOf
  <2>3. Exec!Count(n)' = 0 /\ \A m \in Names \ {n} : Exec!Count(m)' = Exec!Count(m)
    BY <1>0, <2>1 DEF Exec!Count
  <2>4. \A m \in Names : loads'[m] = Exec!Count(m)' /\ (loaded'[m] # None => Tree[m] \subseteq Exec!FilesOf(m)')
    BY <1>0, <1>1, <2>1, <2>2, <2>3 DEF FilesTrue
  <2>5. \A m \in Names : Exec!FilesOf(m)' \ clobbered' \subseteq disk'
    BY <2>1, <2>2 DEF FilesTrue
  <2>6. Exec!NothingLeft'
    BY <2>1, <2>2 DEF FilesTrue, Exec!NothingLeft
  <2> QED BY <1>0, <1>1, <2>1, <2>4, <2>5, <2>6 DEF FilesTrue
<1>2. CASE k # 0
  <2>1. loaded' = [loaded EXCEPT ![n].count = k] /\ UNCHANGED <<disk, stray, clobbered>>
    BY <1>2 DEF Exec!Unload
  <2>2. k \in Nat \ {0}
    BY <1>0, <1>2 DEF Exec!Count, Exec!LoadRecords
  <2>3. /\ loaded'[n] \in Exec!LoadRecords /\ loaded'[n].count = k /\ loaded'[n].files = loaded[n].files
        /\ \A m \in Names \ {n} : loaded'[m] = loaded[m]
    BY <1>0, <2>1, <2>2 DEF Exec!LoadRecords
  <2>4. \A m \in Names : Exec!FilesOf(m)' = Exec!FilesOf(m)
    BY <1>0, <2>3 DEF Exec!FilesOf, Exec!ExecutableConstants
  <2>5. Exec!Count(n)' = k /\ \A m \in Names \ {n} : Exec!Count(m)' = Exec!Count(m)
    BY <2>3 DEF Exec!Count, Exec!ExecutableConstants
  <2>6. \A m \in Names : loads'[m] = Exec!Count(m)' /\ (loaded'[m] # None => Tree[m] \subseteq Exec!FilesOf(m)')
    BY <1>0, <2>3, <2>4, <2>5 DEF FilesTrue
  <2>7. Exec!NothingLeft'
    BY <2>1, <2>4 DEF FilesTrue, Exec!NothingLeft
  <2> QED BY <1>0, <2>1, <2>2, <2>3, <2>4, <2>6, <2>7 DEF FilesTrue
<1> QED
  BY <1>1, <1>2

\* load keeps the books, whether the copy succeeds, is not needed or fails half-way.
LEMMA LoadFiles ==
    ASSUME Exec!ExecutableConstants, ExecutableInv, NEW c \in {c1, c2}, NEW n \in Names,
           NEW newer \in BOOLEAN, NEW copied \in SUBSET Tree[n], NEW package \in BOOLEAN,
           NEW setup \in BOOLEAN, Exec!load(c, n, newer, copied, package, setup)
    PROVE  /\ FilesTrue' /\ disk' \subseteq Exec!Files
           /\ loaded' \in [Names -> {None} \union Exec!LoadRecords] /\ loads' \in [Names -> Nat]
<1> DEFINE copies == Exec!Count(n) = 0 \/ ~Exec!Exists(n) \/ newer
           busy == copied \intersect Exec!Busy
           renamed == {Exec!Renamed(f) : f \in busy}
           files == IF copies THEN Exec!LoadTree(n, renamed) ELSE Exec!FilesOf(n)
           others == UNION {Exec!FilesOf(m) : m \in Names}
<1>0. /\ loaded \in [Names -> {None} \union Exec!LoadRecords] /\ loads \in [Names -> Nat]
      /\ disk \subseteq Exec!Files
  BY DEF ExecutableInv, Exec!TypeOK
<1>1. /\ copies \/ copied = {}
      /\ disk' = disk \union copied \union renamed
      /\ clobbered' = clobbered \ copied
      /\ IF ~copies \/ copied = Tree[n]
         THEN /\ loaded' = [loaded EXCEPT ![n] = [count |-> Exec!NewCount(n), files |-> files]]
              /\ loads' = [loads EXCEPT ![n] = @ + 1]
              /\ stray' = (stray \union Exec!FilesOf(n)) \ files
         ELSE /\ stray' = stray \union ((copied \union renamed) \ others)
              /\ UNCHANGED <<loaded, loads>>
  BY DEF Exec!load
<1>2. copied \union renamed \subseteq Exec!Files
  BY DEF Exec!Files
<1>3. \A m \in Names : Exec!FilesOf(m) \subseteq Exec!Files
  BY <1>0 DEF Exec!FilesOf, Exec!LoadRecords
<1>4. FilesTrue
  BY DEF ExecutableInv
<1> HIDE DEF copies, busy
<1>5. CASE ~copies \/ copied = Tree[n]
  <2>1. /\ loaded' = [loaded EXCEPT ![n] = [count |-> Exec!NewCount(n), files |-> files]]
        /\ loads' = [loads EXCEPT ![n] = @ + 1]
        /\ stray' = (stray \union Exec!FilesOf(n)) \ files
    BY <1>1, <1>5
  <2>2. Exec!NewCount(n) \in Nat \ {0}
    BY <1>0 DEF Exec!NewCount, Exec!Count, Exec!LoadRecords
  <2>3. files \subseteq Exec!Files
    BY <1>2, <1>3 DEF Exec!LoadTree, Exec!Files
  <2>4. [count |-> Exec!NewCount(n), files |-> files] \in Exec!LoadRecords
    BY <2>2, <2>3 DEF Exec!LoadRecords
  <2>5. Exec!FilesOf(n)' = files /\ Exec!Count(n)' = Exec!NewCount(n) /\ loaded'[n] # None
    BY <1>0, <2>1, <2>4 DEF Exec!FilesOf, Exec!Count, Exec!ExecutableConstants
  <2>6. \A m \in Names \ {n} : Exec!FilesOf(m)' = Exec!FilesOf(m) /\ Exec!Count(m)' = Exec!Count(m) /\ loaded'[m] = loaded[m]
    BY <1>0, <2>1 DEF Exec!FilesOf, Exec!Count
  <2>7. loads'[n] = loads[n] + 1 /\ \A m \in Names \ {n} : loads'[m] = loads[m]
    BY <1>0, <2>1
  <2>8. copied \union renamed \subseteq files
    <3>1. CASE copies
      BY <3>1 DEF Exec!LoadTree
    <3>2. CASE ~copies
      BY <3>2, <1>1 DEF busy
    <3> QED BY <3>1, <3>2
  <2>9. copies \/ loaded[n] # None
    BY DEF copies, Exec!Count
  <2>10. \A m \in Names : loads'[m] = Exec!Count(m)'
    BY <1>4, <2>5, <2>6, <2>7 DEF FilesTrue, Exec!NewCount
  <2>11. \A m \in Names : loaded'[m] # None => Tree[m] \subseteq Exec!FilesOf(m)'
    BY <1>4, <2>5, <2>6, <2>9 DEF FilesTrue, Exec!LoadTree
  <2>12. \A m \in Names : Exec!FilesOf(m)' \ clobbered' \subseteq disk'
    <3>1. \A m \in Names : Exec!FilesOf(m) \ clobbered' \subseteq disk'
      BY <1>1, <1>4 DEF FilesTrue
    <3>2. files \ clobbered' \subseteq disk'
      <4>1. CASE copies
        BY <1>1, <1>5, <4>1 DEF Exec!LoadTree
      <4>2. CASE ~copies
        BY <3>1, <4>2
      <4> QED BY <4>1, <4>2
    <3> QED BY <2>5, <2>6, <3>1, <3>2
  <2>13. Exec!NothingLeft'
    <3> SUFFICES ASSUME NEW f \in disk', f \notin stray' PROVE \E m \in Names : f \in Exec!FilesOf(m)'
      BY DEF Exec!NothingLeft
    <3>1. CASE f \in files
      BY <3>1, <2>5
    <3>2. CASE ~(f \in files)
      <4>1. f \in disk \ stray /\ f \notin Exec!FilesOf(n)
        BY <1>1, <2>1, <2>8, <3>2
      <4>2. PICK m \in Names : f \in Exec!FilesOf(m)
        BY <4>1, <1>4 DEF FilesTrue, Exec!NothingLeft
      <4> QED BY <4>1, <4>2, <2>6
    <3> QED BY <3>1, <3>2
  <2>14. loaded' \in [Names -> {None} \union Exec!LoadRecords] /\ loads' \in [Names -> Nat]
    BY <1>0, <2>1, <2>4
  <2> QED BY <1>0, <1>1, <1>2, <2>10, <2>11, <2>12, <2>13, <2>14 DEF FilesTrue
<1>6. CASE ~(~copies \/ copied = Tree[n])
  <2>1. stray' = stray \union ((copied \union renamed) \ others) /\ UNCHANGED <<loaded, loads>>
    BY <1>1, <1>6
  <2>2. \A m \in Names : Exec!FilesOf(m)' = Exec!FilesOf(m) /\ Exec!Count(m)' = Exec!Count(m)
    BY <2>1 DEF Exec!FilesOf, Exec!Count
  <2>3. Exec!NothingLeft'
    BY <1>1, <1>4, <2>1, <2>2 DEF FilesTrue, Exec!NothingLeft
  <2> QED BY <1>0, <1>1, <1>2, <1>4, <2>1, <2>2, <2>3 DEF FilesTrue
<1> QED
  BY <1>5, <1>6

\* load keeps the invariant: it renames files of processes and may extend the environment,
\* which no executeLinked is using as it has _cmdLock.
LEMMA LoadKeeps ==
    ASSUME Exec!ExecutableConstants, ExecutableInv, NEW c \in {c1, c2}, NEW n \in Names,
           NEW newer \in BOOLEAN, NEW copied \in SUBSET Tree[n], NEW package \in BOOLEAN,
           NEW setup \in BOOLEAN, Exec!load(c, n, newer, copied, package, setup)
    PROVE  ExecutableInv'
<1> DEFINE busy == copied \intersect Exec!Busy
<1>1. /\ FilesTrue' /\ disk' \subseteq Exec!Files
      /\ loaded' \in [Names -> {None} \union Exec!LoadRecords] /\ loads' \in [Names -> Nat]
  BY LoadFiles
<1>2. /\ process' = [p \in Pids |-> IF process[p].file \in busy
                                    THEN [process[p] EXCEPT !.file = Exec!Renamed(process[p].file)]
                                    ELSE process[p]]
      /\ UNCHANGED <<applications, unseen, x_call, x_lock, locked, x_released>>
      /\ Exec!Free
  BY DEF Exec!load
<1>3. (packages' = packages \union {n} /\ environ' = environ \union packages') \/ UNCHANGED <<packages, environ>>
  BY DEF Exec!load, Exec!setEnvVars
<1>4. busy \subseteq Tree[n]
  OBVIOUS
<1> HIDE DEF busy
<1>5. process \in [Pids -> Exec!ProcessRecords] /\ packages \subseteq Names /\ environ \subseteq Names
  BY DEF ExecutableInv, Exec!TypeOK
<1>6. \A p \in Pids : process[p] \in Exec!ProcessRecords /\ process'[p] \in Exec!ProcessRecords
                      /\ process'[p].is = process[p].is /\ process'[p].env = process[p].env
                      /\ process'[p].deps = process[p].deps
  <2> SUFFICES ASSUME NEW p \in Pids
               PROVE  process[p] \in Exec!ProcessRecords /\ process'[p] \in Exec!ProcessRecords
                      /\ process'[p].is = process[p].is /\ process'[p].env = process[p].env
                      /\ process'[p].deps = process[p].deps
    OBVIOUS
  <2>1. process[p] \in Exec!ProcessRecords
    BY <1>5
  <2>2. CASE process[p].file \in busy
    <3>1. Exec!Renamed(process[p].file) \in Exec!Files
      BY <2>2, <1>4 DEF Exec!Files
    <3>2. process'[p] = [process[p] EXCEPT !.file = Exec!Renamed(process[p].file)]
      BY <1>2, <2>2
    <3> QED BY <2>1, <3>1, <3>2 DEF Exec!ProcessRecords
  <2>3. CASE ~(process[p].file \in busy)
    BY <1>2, <2>1, <2>3
  <2> QED BY <2>2, <2>3
<1>7. process' \in [Pids -> Exec!ProcessRecords]
  BY <1>2, <1>6
<1>8. Exec!TypeOK'
  BY <1>1, <1>2, <1>3, <1>5, <1>7 DEF ExecutableInv, Exec!TypeOK
<1>9. Exec!ProcessesKnown' /\ KillTrue'
  BY <1>2, <1>6 DEF ExecutableInv, Exec!ProcessesKnown, KillTrue
<1>10. LinkTrue'
  <2>1. environ = packages /\ x_lock = None
    BY <1>2 DEF ExecutableInv, LinkTrue, Exec!EnvironmentRight, Exec!Free
  <2>2. \A d \in {c1, c2} : ~(x_call[d] # None /\ x_call[d].at = "linked")
    BY <2>1 DEF ExecutableInv, LinkTrue, Exec!ExecutableConstants
  <2>3. environ' = packages'
    BY <1>3, <2>1
  <2> QED BY <1>2, <1>6, <2>2, <2>3 DEF ExecutableInv, LinkTrue, Exec!EnvironmentRight
<1> QED
  BY <1>1, <1>8, <1>9, <1>10 DEF ExecutableInv

\* What a call holds follows from where it is.
LEMMA CallFacts ==
    ASSUME Exec!ExecutableConstants, Exec!TypeOK, NEW c \in {c1, c2}, x_call[c] # None
    PROVE  /\ x_call[c] \in Exec!Calls
           /\ x_call[c].at \in {"popen", "record"} => x_call[c] \in Exec!StartCalls
           /\ x_call[c].at = "linked" => x_call[c] \in Exec!LinkCalls
           /\ x_call[c].at = "kill" => x_call[c] \in Exec!KillCalls
  BY DEF Exec!TypeOK, Exec!Calls, Exec!StartCalls, Exec!LinkCalls, Exec!KillCalls

\* The release of a device that goes on to other names keeps what is known of the calls.
LEMMA LeftKeeps ==
    ASSUME Exec!ExecutableConstants, x_call \in [{c1, c2} -> {None} \union Exec!Calls],
           Exec!TypeOK, KillTrue, Exec!ProcessesKnown, LinkTrue, NEW c \in {c1, c2},
           x_call[c] # None, x_call[c].at = "kill", NEW L \in {None} \union SUBSET Names,
           x_call' = [x_call EXCEPT ![c].left = L],
           UNCHANGED <<packages, environ, x_lock, applications, process, unseen, x_released>>
    PROVE  /\ x_call' \in [{c1, c2} -> {None} \union Exec!Calls]
           /\ KillTrue' /\ Exec!ProcessesKnown' /\ LinkTrue'
<1>0. x_call[c] \in Exec!KillCalls
  BY CallFacts
<1>1. /\ x_call'[c] = [x_call[c] EXCEPT !.left = L]
      /\ \A d \in {c1, c2} \ {c} : x_call'[d] = x_call[d]
  OBVIOUS
<1>2. /\ x_call'[c] \in Exec!KillCalls /\ x_call'[c].todo = x_call[c].todo /\ x_call'[c].ghost = x_call[c].ghost
      /\ x_call'[c].at = "kill"
  BY <1>0, <1>1 DEF Exec!KillCalls
<1>3. x_call' \in [{c1, c2} -> {None} \union Exec!Calls]
  BY <1>2 DEF Exec!Calls
<1>4. x_call'[c] # None
  BY <1>2 DEF Exec!ExecutableConstants, Exec!Calls
<1>5. KillTrue'
  BY <1>1, <1>2 DEF KillTrue
<1>6. Exec!ProcessesKnown'
  BY <1>1, <1>2 DEF Exec!ProcessesKnown
<1>7. LinkTrue'
  BY <1>1, <1>2 DEF LinkTrue, Exec!EnvironmentRight, Exec!Free, Exec!Environment
<1> QED BY <1>3, <1>5, <1>6, <1>7

\* unload and _unloadAll keep the invariant.
LEMMA UnloadingKeeps ==
    ASSUME Exec!ExecutableConstants, ExecutableInv, NEW c \in {c1, c2},
           \/ Exec!_unloadAll(c)
           \/ \E n \in Names : Exec!unload(c, n) \/ Exec!releaseUnload(c, n)
    PROVE  ExecutableInv'
<1>1. UNCHANGED <<packages, environ, x_lock, applications, process, unseen, x_released>>
  BY DEF Exec!unload, Exec!releaseUnload, Exec!_unloadAll, Exec!cache, Exec!linking, Exec!processes
<1>2. \A n \in Names : loads[n] = Exec!Count(n)
  BY DEF ExecutableInv, FilesTrue
<1>3. loads \in [Names -> Nat] /\ Exec!TypeOK /\ FilesTrue
  BY DEF ExecutableInv, Exec!TypeOK
<1>4. \/ UNCHANGED <<disk, loaded, loads, stray, clobbered>>
      \/ \E n \in Names : /\ loaded[n] # None
                          /\ \E k \in {0, Exec!Count(n) - 1} : Exec!Unload(n, k) /\ loads' = [loads EXCEPT ![n] = k]
  <2>1. CASE Exec!_unloadAll(c)
    BY <2>1 DEF Exec!_unloadAll, Exec!cache
  <2>2. ASSUME NEW n \in Names, Exec!unload(c, n)
        PROVE  loaded[n] # None /\ Exec!Unload(n, Exec!Count(n) - 1) /\ loads' = [loads EXCEPT ![n] = Exec!Count(n) - 1]
    <3>1. loads' = [loads EXCEPT ![n] = @ - 1] /\ loaded[n] # None /\ Exec!Unload(n, Exec!Count(n) - 1)
      BY <2>2 DEF Exec!unload
    <3>2. [loads EXCEPT ![n] = @ - 1] = [loads EXCEPT ![n] = Exec!Count(n) - 1]
      BY <1>2, <1>3
    <3> QED BY <3>1, <3>2
  <2>3. ASSUME NEW n \in Names, Exec!releaseUnload(c, n), ~UNCHANGED <<disk, loaded, loads, stray, clobbered>>
        PROVE  loaded[n] # None /\ Exec!Unload(n, 0) /\ loads' = [loads EXCEPT ![n] = 0]
    BY <2>3 DEF Exec!releaseUnload, Exec!Forced
  <2> QED BY <2>1, <2>2, <2>3
<1>5. /\ FilesTrue' /\ disk' \subseteq Exec!Files
      /\ loaded' \in [Names -> {None} \union Exec!LoadRecords] /\ loads' \in [Names -> Nat]
  <2>1. CASE UNCHANGED <<disk, loaded, loads, stray, clobbered>>
    <3>1. FilesTrue'
      BY <1>1, <1>3, <2>1, SameFiles DEF Exec!cache
    <3> QED BY <1>3, <2>1, <3>1 DEF Exec!TypeOK
  <2>2. ASSUME NEW n \in Names, loaded[n] # None, NEW k \in {0, Exec!Count(n) - 1},
               Exec!Unload(n, k), loads' = [loads EXCEPT ![n] = k]
        PROVE  /\ FilesTrue' /\ disk' \subseteq Exec!Files
               /\ loaded' \in [Names -> {None} \union Exec!LoadRecords] /\ loads' \in [Names -> Nat]
    BY <1>3, <2>2, UnloadKeeps
  <2> QED BY <1>4, <2>1, <2>2
<1>6. /\ x_call' \in [{c1, c2} -> {None} \union Exec!Calls]
      /\ KillTrue' /\ Exec!ProcessesKnown' /\ LinkTrue'
  <2>1. CASE \E n \in Names : Exec!unload(c, n)
    <3>1. UNCHANGED x_call
      BY <2>1 DEF Exec!unload
    <3> QED BY <1>1, <3>1 DEF ExecutableInv, Exec!TypeOK, Exec!ProcessesKnown, KillTrue, LinkTrue,
               Exec!EnvironmentRight, Exec!Free, Exec!Environment
  <2>2. CASE \/ Exec!_unloadAll(c) \/ \E n \in Names : Exec!releaseUnload(c, n)
    <3>0. x_call \in [{c1, c2} -> {None} \union Exec!Calls] /\ Exec!TypeOK /\ x_call[c] # None /\ x_call[c].at = "kill"
      BY <2>2 DEF Exec!_unloadAll, Exec!releaseUnload, Exec!Unloading, ExecutableInv, Exec!TypeOK
    <3>1. x_call[c] \in Exec!KillCalls
      BY <3>0, CallFacts
    <3>2. PICK L \in {None} \union SUBSET Names : x_call' = [x_call EXCEPT ![c].left = L]
      <4>1. CASE Exec!_unloadAll(c)
        BY <4>1 DEF Exec!_unloadAll, Exec!Forced
      <4>2. ASSUME NEW n \in Names, Exec!releaseUnload(c, n)
            PROVE  \E L \in {None} \union SUBSET Names : x_call' = [x_call EXCEPT ![c].left = L]
        <5>1. x_call' = [x_call EXCEPT ![c].left = @ \ {n}] /\ x_call[c].left # None
          BY <4>2 DEF Exec!releaseUnload
        <5>2. x_call[c].left \ {n} \in SUBSET Names
          BY <3>1, <5>1 DEF Exec!KillCalls
        <5>3. [x_call EXCEPT ![c].left = @ \ {n}] = [x_call EXCEPT ![c].left = x_call[c].left \ {n}]
          OBVIOUS
        <5> QED BY <5>1, <5>2, <5>3
      <4> QED BY <2>2, <4>1, <4>2
    <3>3. KillTrue /\ Exec!ProcessesKnown /\ LinkTrue
      BY DEF ExecutableInv
    <3> QED BY <1>1, <3>0, <3>2, <3>3, LeftKeeps
  <2> QED BY <2>1, <2>2
<1>7. Exec!TypeOK'
  BY <1>1, <1>3, <1>5, <1>6 DEF Exec!TypeOK
<1> QED
  BY <1>5, <1>6, <1>7 DEF ExecutableInv

\* A new process takes an unused number, and its dependencies are in its environment.
LEMMA SpawnKeeps ==
    ASSUME Exec!ExecutableConstants, ExecutableInv, NEW n \in Names, NEW deps \in SUBSET packages,
           deps \subseteq environ, Exec!Unused # {}, Main[n] \in disk, Exec!Spawned(n, deps)
    PROVE  /\ Exec!NextPid \in Pids /\ process[Exec!NextPid].is = "none"
           /\ process'[Exec!NextPid].is = "running"
           /\ process'[Exec!NextPid].deps \subseteq process'[Exec!NextPid].env
           /\ process' \in [Pids -> Exec!ProcessRecords]
           /\ \A p \in Pids \ {Exec!NextPid} : process'[p] = process[p]
<1>1. Exec!NextPid \in Exec!Unused
  BY DEF Exec!NextPid
<1>2. Exec!NextPid \in Pids /\ process[Exec!NextPid].is = "none"
  BY <1>1 DEF Exec!Unused
<1>3. process \in [Pids -> Exec!ProcessRecords] /\ environ \subseteq Names /\ packages \subseteq Names /\ disk \subseteq Exec!Files
  BY DEF ExecutableInv, Exec!TypeOK
<1>4. [is |-> "running", file |-> Main[n], env |-> environ, deps |-> deps] \in Exec!ProcessRecords
  BY <1>3 DEF Exec!ProcessRecords
<1> HIDE DEF Exec!NextPid
<1> QED
  BY <1>2, <1>3, <1>4 DEF Exec!Spawned

\* The calls of execute and executeLinked keep the invariant.
LEMMA CallKeeps ==
    ASSUME Exec!ExecutableConstants, ExecutableInv, NEW c \in {c1, c2}, NEW n \in Names,
           Exec!execute(c, n) \/ \E deps \in SUBSET Names : Exec!executeLinked(c, n, deps)
    PROVE  ExecutableInv'
<1> USE DEF ExecutableInv
<1>0. x_call[c] = None /\ Exec!Free /\ UNCHANGED <<disk, loaded, packages, loads, stray, clobbered, applications, process, unseen, x_released>>
  BY DEF Exec!execute, Exec!executeLinked, Exec!Called, Exec!cache, Exec!linking, Exec!processes
<1>1. FilesTrue'
  BY <1>0, SameFiles DEF Exec!cache
<1>2. environ = packages /\ x_lock = None
  BY <1>0 DEF LinkTrue, Exec!EnvironmentRight, Exec!Free
<1>3. \A d \in {c1, c2} : ~(x_call[d] # None /\ x_call[d].at = "linked")
  BY <1>2 DEF LinkTrue, Exec!ExecutableConstants
<1>4. \/ /\ x_call' = [x_call EXCEPT ![c] = [at |-> "popen", name |-> n, todo |-> {}]]
         /\ UNCHANGED <<environ, x_lock>>
      \/ \E deps \in SUBSET Names :
            /\ x_call' = [x_call EXCEPT ![c] = [at |-> "linked", name |-> n, todo |-> deps, env |-> environ]]
            /\ x_lock' = c /\ environ' = Exec!Environment(deps)
  BY DEF Exec!execute, Exec!executeLinked, Exec!linking
<1>5. x_call \in [{c1, c2} -> {None} \union Exec!Calls] /\ packages \subseteq Names /\ environ \subseteq Names
  BY DEF Exec!TypeOK
<1>6. x_call' \in [{c1, c2} -> {None} \union Exec!Calls] /\ environ' \subseteq Names /\ x_lock' \in {None} \union {c1, c2}
  <2>1. [at |-> "popen", name |-> n, todo |-> {}] \in Exec!Calls
    BY DEF Exec!Calls, Exec!StartCalls
  <2>2. \A deps \in SUBSET Names : [at |-> "linked", name |-> n, todo |-> deps, env |-> environ] \in Exec!Calls
    BY <1>5 DEF Exec!Calls, Exec!LinkCalls
  <2> QED BY <1>2, <1>4, <1>5, <2>1, <2>2 DEF Exec!Environment
<1>7. Exec!TypeOK'
  BY <1>0, <1>6 DEF Exec!TypeOK
<1>8. /\ \A d \in {c1, c2} \ {c} : x_call'[d] = x_call[d]
      /\ x_call'[c].at \in {"popen", "linked"}
  BY <1>4, <1>5
<1>9. Exec!ProcessesKnown' /\ KillTrue'
  BY <1>0, <1>8 DEF Exec!ProcessesKnown, KillTrue
<1>10. LinkTrue'
  <2>1. \A d \in {c1, c2} : x_call'[d] # None /\ x_call'[d].at = "linked" =>
          x_lock' = d /\ environ' = Exec!Environment(x_call'[d].todo) /\ x_call'[d].env = packages
    BY <1>2, <1>3, <1>4, <1>5
  <2>2. x_lock' # None \/ environ' = packages'
    BY <1>0, <1>2, <1>4 DEF Exec!ExecutableConstants
  <2> QED BY <1>0, <2>1, <2>2 DEF LinkTrue, Exec!EnvironmentRight, Exec!Free, Exec!Environment
<1> QED
  BY <1>1, <1>7, <1>9, <1>10

\* _execute and the recording of its process keep the invariant.
LEMMA StartKeeps ==
    ASSUME Exec!ExecutableConstants, ExecutableInv, NEW c \in {c1, c2}, Exec!_execute(c) \/ Exec!record(c)
    PROVE  ExecutableInv'
<1> USE DEF ExecutableInv
<1>0. /\ x_call[c] # None /\ x_call[c].at \in {"popen", "record"} /\ x_call[c] \in Exec!StartCalls
      /\ UNCHANGED <<disk, loaded, packages, loads, stray, clobbered, environ, x_lock, unseen, x_released>>
  BY CallFacts DEF Exec!_execute, Exec!record, Exec!cache, Exec!linking
<1>1. FilesTrue'
  BY <1>0, SameFiles DEF Exec!cache
<1>2. x_call \in [{c1, c2} -> {None} \union Exec!Calls] /\ applications \subseteq Pids
      /\ process \in [Pids -> Exec!ProcessRecords]
  BY DEF Exec!TypeOK
<1>3. CASE Exec!record(c)
  <2>1. /\ applications' = applications \union x_call[c].todo
        /\ x_call' = [x_call EXCEPT ![c] = None] /\ process' = process
    BY <1>3 DEF Exec!record
  <2>2. Exec!TypeOK'
    BY <1>0, <1>2, <2>1 DEF Exec!TypeOK, Exec!StartCalls
  <2>3. \A d \in {c1, c2} : x_call'[d] = IF d = c THEN None ELSE x_call[d]
    BY <1>2, <2>1
  <2>4. Exec!ProcessesKnown'
    BY <2>1, <2>3 DEF Exec!ProcessesKnown
  <2>5. KillTrue' /\ LinkTrue'
    BY <1>0, <2>1, <2>3 DEF KillTrue, LinkTrue, Exec!EnvironmentRight, Exec!Free, Exec!Environment
  <2> QED BY <1>1, <2>2, <2>4, <2>5
<1>4. CASE Exec!_execute(c) /\ Main[x_call[c].name] \in disk
  <2>1. /\ Exec!Unused # {} /\ Exec!Spawned(x_call[c].name, {}) /\ applications' = applications
        /\ x_call' = [x_call EXCEPT ![c] = [at |-> "record", name |-> x_call[c].name, todo |-> {Exec!NextPid}]]
    BY <1>4 DEF Exec!_execute
  <2>2. x_call[c].name \in Names
    BY <1>0 DEF Exec!StartCalls
  <2>3. /\ Exec!NextPid \in Pids /\ process[Exec!NextPid].is = "none"
        /\ process'[Exec!NextPid].is = "running"
        /\ process'[Exec!NextPid].deps \subseteq process'[Exec!NextPid].env
        /\ process' \in [Pids -> Exec!ProcessRecords]
        /\ \A p \in Pids \ {Exec!NextPid} : process'[p] = process[p]
    BY <1>4, <2>1, <2>2, SpawnKeeps
  <2> HIDE DEF Exec!NextPid
  <2>4. [at |-> "record", name |-> x_call[c].name, todo |-> {Exec!NextPid}] \in Exec!Calls
    BY <2>2, <2>3 DEF Exec!Calls, Exec!StartCalls
  <2>5. Exec!TypeOK'
    BY <1>0, <1>2, <2>1, <2>3, <2>4 DEF Exec!TypeOK
  <2>6. /\ \A d \in {c1, c2} \ {c} : x_call'[d] = x_call[d]
        /\ x_call'[c] # None /\ x_call'[c].at = "record" /\ x_call'[c].todo = {Exec!NextPid}
    BY <1>2, <2>1, <2>4 DEF Exec!ExecutableConstants
  <2>7. Exec!ProcessesKnown'
    <3> SUFFICES ASSUME NEW p \in Pids, process'[p].is = "running", p \notin applications
                 PROVE  \E d \in {c1, c2} : x_call'[d] # None /\ x_call'[d].at = "record" /\ p \in x_call'[d].todo
      BY <2>1 DEF Exec!ProcessesKnown
    <3>1. CASE p = Exec!NextPid
      BY <3>1, <2>6
    <3>2. CASE p # Exec!NextPid
      <4>1. PICK d \in {c1, c2} : x_call[d] # None /\ x_call[d].at = "record" /\ p \in x_call[d].todo
        BY <3>2, <2>3 DEF Exec!ProcessesKnown
      <4>2. d # c
        BY <1>4, <4>1 DEF Exec!_execute
      <4> QED BY <4>1, <4>2, <2>6
    <3> QED BY <3>1, <3>2
  <2>8. KillTrue'
    BY <1>0, <2>3, <2>6 DEF KillTrue
  <2>9. LinkTrue'
    BY <1>0, <2>3, <2>6 DEF LinkTrue, Exec!EnvironmentRight, Exec!Free, Exec!Environment
  <2> QED BY <1>1, <2>5, <2>7, <2>8, <2>9
<1>5. CASE Exec!_execute(c) /\ ~(Main[x_call[c].name] \in disk)
  <2>1. x_call' = [x_call EXCEPT ![c] = None] /\ UNCHANGED <<process, applications>> /\ x_call[c].at = "popen"
    BY <1>5 DEF Exec!_execute
  <2>2. \A d \in {c1, c2} : x_call'[d] = IF d = c THEN None ELSE x_call[d]
    BY <1>2, <2>1
  <2>3. Exec!TypeOK'
    BY <1>0, <1>2, <2>1 DEF Exec!TypeOK
  <2>4. Exec!ProcessesKnown' /\ KillTrue'
    BY <1>0, <2>1, <2>2 DEF Exec!ProcessesKnown, KillTrue
  <2>5. LinkTrue'
    BY <1>0, <2>1, <2>2 DEF LinkTrue, Exec!EnvironmentRight, Exec!Free, Exec!Environment
  <2> QED BY <1>1, <2>3, <2>4, <2>5
<1> QED
  BY <1>3, <1>4, <1>5

\* The execution of a linked process puts the device's own environment back.
LEMMA LinkedKeeps ==
    ASSUME Exec!ExecutableConstants, ExecutableInv, NEW c \in {c1, c2}, Exec!linked(c)
    PROVE  ExecutableInv'
<1> USE DEF ExecutableInv
<1>0. /\ x_call[c] # None /\ x_call[c].at = "linked" /\ x_call[c] \in Exec!LinkCalls
      /\ UNCHANGED <<disk, loaded, packages, loads, stray, clobbered, unseen, x_released>>
      /\ environ' = x_call[c].env /\ x_lock' = None /\ x_call' = [x_call EXCEPT ![c] = None]
  BY CallFacts DEF Exec!linked, Exec!cache
<1>1. FilesTrue'
  BY <1>0, SameFiles DEF Exec!cache
<1>2. x_call \in [{c1, c2} -> {None} \union Exec!Calls] /\ applications \subseteq Pids
      /\ process \in [Pids -> Exec!ProcessRecords]
  BY DEF Exec!TypeOK
<1>3. x_lock = c /\ environ = Exec!Environment(x_call[c].todo) /\ x_call[c].env = packages
  BY <1>0 DEF LinkTrue
<1>4. \A d \in {c1, c2} : x_call'[d] = IF d = c THEN None ELSE x_call[d]
  BY <1>0, <1>2
<1>5. \A d \in {c1, c2} : ~(x_call'[d] # None /\ x_call'[d].at = "linked")
  BY <1>3, <1>4 DEF LinkTrue
<1>6. environ' = packages'
  BY <1>0, <1>3
<1>7. CASE UNCHANGED <<process, applications>>
  <2>1. Exec!TypeOK'
    BY <1>0, <1>2, <1>7 DEF Exec!TypeOK, Exec!LinkCalls
  <2>2. Exec!ProcessesKnown' /\ KillTrue'
    BY <1>0, <1>4, <1>7 DEF Exec!ProcessesKnown, KillTrue
  <2>3. LinkTrue'
    BY <1>5, <1>6, <1>7 DEF LinkTrue, Exec!EnvironmentRight
  <2> QED BY <1>1, <2>1, <2>2, <2>3
<1>8. CASE ~UNCHANGED <<process, applications>>
  <2>1. /\ Main[x_call[c].name] \in disk /\ Exec!Unused # {}
        /\ Exec!Spawned(x_call[c].name, x_call[c].todo \intersect packages)
        /\ applications' = applications \union {Exec!NextPid}
    BY <1>8 DEF Exec!linked
  <2>2. x_call[c].name \in Names
    BY <1>0 DEF Exec!LinkCalls
  <2>3. x_call[c].todo \intersect packages \subseteq environ
    BY <1>3 DEF Exec!Environment
  <2>4. /\ Exec!NextPid \in Pids /\ process[Exec!NextPid].is = "none"
        /\ process'[Exec!NextPid].is = "running"
        /\ process'[Exec!NextPid].deps \subseteq process'[Exec!NextPid].env
        /\ process' \in [Pids -> Exec!ProcessRecords]
        /\ \A p \in Pids \ {Exec!NextPid} : process'[p] = process[p]
    BY <2>1, <2>2, <2>3, SpawnKeeps
  <2> HIDE DEF Exec!NextPid
  <2>5. Exec!TypeOK'
    BY <1>0, <1>2, <2>1, <2>4 DEF Exec!TypeOK, Exec!LinkCalls
  <2>6. Exec!ProcessesKnown' /\ KillTrue'
    BY <1>0, <1>4, <2>1, <2>4 DEF Exec!ProcessesKnown, KillTrue
  <2>7. LinkTrue'
    BY <1>5, <1>6, <2>4 DEF LinkTrue, Exec!EnvironmentRight
  <2> QED BY <1>1, <2>5, <2>6, <2>7
<1> QED
  BY <1>7, <1>8

\* The end of a process, by terminate, a release or a signal, keeps the invariant.
LEMMA KillKeeps ==
    ASSUME Exec!ExecutableConstants, ExecutableInv, NEW p \in Pids,
           \/ \E c \in {c1, c2} : Exec!terminate(c, p) \/ Exec!releaseKill(c, p)
           \/ \E signalled \in BOOLEAN : Exec!_child_handler(p, signalled)
    PROVE  ExecutableInv'
<1> USE DEF ExecutableInv
<1>0. UNCHANGED <<disk, loaded, packages, loads, stray, clobbered, environ, x_lock, unseen, x_released>>
  BY DEF Exec!terminate, Exec!releaseKill, Exec!_child_handler, Exec!cache, Exec!linking
<1>1. FilesTrue'
  BY <1>0, SameFiles DEF Exec!cache
<1>2. x_call \in [{c1, c2} -> {None} \union Exec!Calls] /\ applications \subseteq Pids
      /\ process \in [Pids -> Exec!ProcessRecords]
  BY DEF Exec!TypeOK
<1>3. process' = process \/ process' = Exec!Killed(p)
  BY DEF Exec!terminate, Exec!releaseKill, Exec!_child_handler
<1>4. /\ process' \in [Pids -> Exec!ProcessRecords]
      /\ \A q \in Pids : /\ process'[q].is = process[q].is \/ (q = p /\ process'[q].is = "dead")
                         /\ process'[q].env = process[q].env /\ process'[q].deps = process[q].deps
  BY <1>2, <1>3 DEF Exec!Killed, Exec!ProcessRecords
<1>5. /\ applications' = applications \/ applications' = applications \ {p}
      /\ applications' = applications \/ process' = Exec!Killed(p)
  BY DEF Exec!terminate, Exec!releaseKill, Exec!_child_handler, Exec!Forget
<1>6. \A q \in Pids : process'[q].is = "running" /\ q \in applications => q \in applications'
  BY <1>2, <1>5 DEF Exec!Killed, Exec!ProcessRecords
<1>7. \/ UNCHANGED x_call
      \/ \E c \in {c1, c2} : /\ x_call[c] # None /\ x_call[c].at = "kill"
                            /\ \/ x_call' = [x_call EXCEPT ![c] = None]
                               \/ x_call' = [x_call EXCEPT ![c].todo = @ \ {p}] /\ process' = Exec!Killed(p)
  BY DEF Exec!terminate, Exec!releaseKill, Exec!_child_handler
<1>8. CASE UNCHANGED x_call
  <2>1. Exec!TypeOK'
    BY <1>0, <1>2, <1>4, <1>5, <1>8 DEF Exec!TypeOK
  <2>2. Exec!ProcessesKnown' /\ KillTrue'
    BY <1>0, <1>4, <1>6, <1>8 DEF Exec!ProcessesKnown, KillTrue
  <2>3. LinkTrue'
    BY <1>0, <1>4, <1>8 DEF LinkTrue, Exec!EnvironmentRight, Exec!Free, Exec!Environment
  <2> QED BY <1>1, <2>1, <2>2, <2>3
<1>9. ASSUME NEW c \in {c1, c2}, x_call[c] # None, x_call[c].at = "kill", x_call' = [x_call EXCEPT ![c] = None]
      PROVE  ExecutableInv'
  <2>0. \A d \in {c1, c2} : x_call'[d] = IF d = c THEN None ELSE x_call[d]
    BY <1>2, <1>9
  <2>1. Exec!TypeOK'
    BY <1>0, <1>2, <1>4, <1>5, <1>9 DEF Exec!TypeOK
  <2>2. Exec!ProcessesKnown' /\ KillTrue'
    BY <1>0, <1>4, <1>6, <1>9, <2>0 DEF Exec!ProcessesKnown, KillTrue
  <2>3. LinkTrue'
    BY <1>0, <1>4, <2>0 DEF LinkTrue, Exec!EnvironmentRight, Exec!Free, Exec!Environment
  <2> QED BY <1>1, <2>1, <2>2, <2>3
<1>10. ASSUME NEW c \in {c1, c2}, x_call[c] # None, x_call[c].at = "kill",
              x_call' = [x_call EXCEPT ![c].todo = @ \ {p}], process' = Exec!Killed(p)
       PROVE  ExecutableInv'
  <2>0. x_call[c] \in Exec!KillCalls
    BY <1>10, CallFacts
  <2>1. /\ x_call'[c] \in Exec!KillCalls /\ x_call'[c].todo = x_call[c].todo \ {p} /\ x_call'[c].ghost = x_call[c].ghost
        /\ x_call'[c].at = "kill"
        /\ \A d \in {c1, c2} \ {c} : x_call'[d] = x_call[d]
    BY <1>2, <1>10, <2>0 DEF Exec!KillCalls
  <2>2. x_call' \in [{c1, c2} -> {None} \union Exec!Calls]
    BY <1>2, <1>10, <2>1 DEF Exec!Calls
  <2>3. Exec!TypeOK'
    BY <1>0, <1>2, <1>4, <1>5, <2>2 DEF Exec!TypeOK
  <2>4. process'[p].is = "dead"
    BY <1>2, <1>10 DEF Exec!Killed, Exec!ProcessRecords
  <2>5. Exec!ProcessesKnown'
    BY <1>0, <1>4, <1>6, <1>10, <2>1 DEF Exec!ProcessesKnown
  <2>6. KillTrue'
    BY <1>0, <1>4, <1>10, <2>1, <2>4 DEF KillTrue
  <2>7. LinkTrue'
    BY <1>0, <1>4, <1>10, <2>1 DEF LinkTrue, Exec!EnvironmentRight, Exec!Free, Exec!Environment
  <2> QED BY <1>1, <2>3, <2>5, <2>6, <2>7
<1> QED
  BY <1>7, <1>8, <1>9, <1>10

\* The beginning and the end of a release keep the invariant: who is not on record then is
\* not started yet or about to be recorded.
LEMMA ReleaseKeeps ==
    ASSUME Exec!ExecutableConstants, ExecutableInv, NEW c \in {c1, c2},
           \/ Exec!releaseObject(c) \/ Exec!releaseEnd(c)
           \/ \E l \in BOOLEAN : Exec!_set_adminState(c, l)
    PROVE  ExecutableInv'
<1> USE DEF ExecutableInv
<1>0. UNCHANGED <<disk, loaded, packages, loads, stray, clobbered, environ, x_lock, applications, process>>
  BY DEF Exec!releaseObject, Exec!releaseEnd, Exec!_set_adminState, Exec!cache, Exec!linking,
     Exec!processes
<1>1. FilesTrue'
  BY <1>0, SameFiles DEF Exec!cache
<1>2. x_call \in [{c1, c2} -> {None} \union Exec!Calls] /\ applications \subseteq Pids
  BY DEF Exec!TypeOK
<1>3. CASE Exec!releaseObject(c)
  <2>1. /\ x_call[c] = None /\ UNCHANGED <<unseen, x_released>>
        /\ x_call' = [x_call EXCEPT ![c] = [at |-> "kill", name |-> None, todo |-> applications, left |-> None, ghost |-> Exec!Unseen]]
    BY <1>3 DEF Exec!releaseObject, Exec!Called, Exec!processes, Exec!ToKill
  <2>2. [at |-> "kill", name |-> None, todo |-> applications, left |-> None, ghost |-> Exec!Unseen] \in Exec!Calls
    BY <1>2 DEF Exec!Calls, Exec!KillCalls, Exec!Unseen
  <2>3. Exec!TypeOK'
    BY <1>0, <1>2, <2>1, <2>2 DEF Exec!TypeOK
  <2>4. /\ \A d \in {c1, c2} \ {c} : x_call'[d] = x_call[d]
        /\ x_call'[c].at = "kill" /\ x_call'[c].todo = applications /\ x_call'[c].ghost = Exec!Unseen
    BY <1>2, <2>1
  <2>5. Exec!ProcessesKnown'
    BY <1>0, <2>1, <2>4 DEF Exec!ProcessesKnown
  <2>6. \A p \in Pids : /\ process[p].is = "none" => p \in Exec!Unseen
                        /\ process[p].is = "running" => p \in Exec!Unseen \/ p \in applications
    BY DEF Exec!ProcessesKnown, Exec!Unseen
  <2>7. KillTrue'
    BY <1>0, <2>1, <2>4, <2>6 DEF KillTrue
  <2>8. LinkTrue'
    BY <1>0, <2>1, <2>4 DEF LinkTrue, Exec!EnvironmentRight, Exec!Free, Exec!Environment
  <2> QED BY <1>1, <2>3, <2>5, <2>7, <2>8
<1>4. CASE Exec!releaseEnd(c)
  <2>1. /\ x_call[c] # None /\ x_call[c].at = "kill" /\ x_call[c].todo = {}
        /\ x_released' = TRUE /\ unseen' = x_call[c].ghost /\ x_call' = [x_call EXCEPT ![c] = None]
    BY <1>4 DEF Exec!releaseEnd, Exec!Unloading
  <2>2. Exec!TypeOK'
    BY <1>0, <1>2, <2>1 DEF Exec!TypeOK
  <2>3. \A d \in {c1, c2} : x_call'[d] = IF d = c THEN None ELSE x_call[d]
    BY <1>2, <2>1
  <2>4. Exec!ProcessesKnown'
    BY <1>0, <2>1, <2>3 DEF Exec!ProcessesKnown
  <2>5. \A p \in Pids : process[p].is \in {"none", "running", "dead"}
    BY DEF Exec!TypeOK, Exec!ProcessRecords
  <2>6. KillTrue'
    BY <1>0, <2>1, <2>3, <2>5 DEF KillTrue
  <2>7. LinkTrue'
    BY <1>0, <2>1, <2>3 DEF LinkTrue, Exec!EnvironmentRight, Exec!Free, Exec!Environment
  <2> QED BY <1>1, <2>2, <2>4, <2>6, <2>7
<1>5. CASE \E l \in BOOLEAN : Exec!_set_adminState(c, l)
  <2>1. UNCHANGED <<x_call, x_released, unseen>>
    BY <1>5 DEF Exec!_set_adminState, Exec!processes
  <2> QED BY <1>0, <1>1, <2>1 DEF Exec!TypeOK, Exec!ProcessesKnown, KillTrue, LinkTrue,
             Exec!EnvironmentRight, Exec!Free, Exec!Environment
<1> QED
  BY <1>3, <1>4, <1>5

\* Every step of an executable device keeps the invariant.
LEMMA ExecutableStep ==
    ASSUME Exec!ExecutableConstants PROVE ExecutableInv /\ [Exec!Next]_(Exec!vars) => ExecutableInv'
<1> SUFFICES ASSUME ExecutableInv, [Exec!Next]_(Exec!vars) PROVE ExecutableInv'
  OBVIOUS
<1>1. ASSUME NEW c \in {c1, c2}, NEW n \in Names,
             \/ \E newer, package, setup \in BOOLEAN, copied \in SUBSET Tree[n] :
                   Exec!load(c, n, newer, copied, package, setup)
             \/ Exec!unload(c, n) \/ Exec!releaseUnload(c, n)
             \/ Exec!execute(c, n) \/ \E deps \in SUBSET Names : Exec!executeLinked(c, n, deps)
      PROVE  ExecutableInv'
  BY <1>1, LoadKeeps, UnloadingKeeps, CallKeeps
<1>2. ASSUME NEW c \in {c1, c2},
             \/ Exec!_execute(c) \/ Exec!record(c) \/ Exec!linked(c) \/ Exec!releaseObject(c) \/ Exec!releaseEnd(c)
             \/ Exec!_unloadAll(c) \/ \E l \in BOOLEAN : Exec!_set_adminState(c, l)
      PROVE  ExecutableInv'
  BY <1>2, StartKeeps, LinkedKeeps, ReleaseKeeps, UnloadingKeeps
<1>3. ASSUME NEW p \in Pids,
             \/ \E c \in {c1, c2} : Exec!terminate(c, p) \/ Exec!releaseKill(c, p)
             \/ \E signalled \in BOOLEAN : Exec!_child_handler(p, signalled)
      PROVE  ExecutableInv'
  BY <1>3, KillKeeps
<1>4. CASE UNCHANGED Exec!vars
  BY <1>4 DEF Exec!vars, ExecutableInv, Exec!TypeOK, FilesTrue, Exec!NothingLeft, Exec!Count,
     Exec!FilesOf,
     Exec!ProcessesKnown, KillTrue, LinkTrue, Exec!EnvironmentRight, Exec!Free, Exec!Environment
<1> QED
  BY <1>1, <1>2, <1>3, <1>4 DEF Exec!Next

\* The disk holds what is loaded, every process is on record, none survives the release
\* unseen, and each linked one has its packages.
THEOREM ExecutableSafe ==
    ASSUME Exec!ExecutableConstants
    PROVE  Exec!Init /\ [][Exec!Next]_(Exec!vars) =>
               [](/\ Exec!LoadedOnDisk /\ Exec!NothingLeft
                  /\ Exec!ProcessesKnown /\ Exec!ReleaseKillsAll /\ Exec!EnvironmentRight)
<1>1. ExecutableInv => /\ Exec!LoadedOnDisk /\ Exec!NothingLeft
                       /\ Exec!ProcessesKnown /\ Exec!ReleaseKillsAll /\ Exec!EnvironmentRight
  <2> SUFFICES ASSUME ExecutableInv PROVE Exec!LoadedOnDisk /\ Exec!ReleaseKillsAll
    BY DEF ExecutableInv, FilesTrue, LinkTrue
  <2>1. Exec!LoadedOnDisk
    BY DEF ExecutableInv, FilesTrue, Exec!LoadedOnDisk, Exec!Count
  <2>2. Exec!ReleaseKillsAll
    BY DEF ExecutableInv, KillTrue, Exec!ReleaseKillsAll
  <2> QED BY <2>1, <2>2
<1> QED
  BY <1>1, ExecutableInit, ExecutableStep, PTL

----------------------------------------------------------------------------
(* The properties and their monitor.                                       *)

\* A pass is active
Watching(t) == thread[t].pc \in {"compare", "report"}

\* The lock tells whose pass it is
LockTrue ==
    /\ \A t \in Threads : Watching(t) <=> lock = t
    /\ \A t \in Threads : ~Watching(t) => thread[t].todo = {}
    /\ \A t \in Threads : thread[t].todo \subseteq registry
    /\ \A t \in Threads :
          thread[t].pc = "report" => thread[t].rec \in Listeners /\ thread[t].rec \notin thread[t].todo
    /\ \A c \in Clients : call[c] # None /\ call[c].locked => lock = c

RunTrue ==
    /\ current # None => thread[current].pc # "off" /\ ~thread[current].stop
    /\ ~released /\ registry # {} => current # None

\* l's record has been compared in the pass that is under way
Past(l) == \E t \in Threads : lock = t /\ l \notin thread[t].todo

Excuse(l, p) == p \in changed[l] \/ p \in missed[l]

TestedTrue ==
    monitors # None => \A p \in Props : monitors[p].tested => registry # {} /\ \E t \in Threads : lock = t

PastTrue ==
    \A l \in registry, p \in Props : Past(l) /\ known[l][p] # value[p] => Excuse(l, p)

OldTrue ==
    monitors # None =>
        \A l \in registry, p \in Props :
            ~monitors[p].tested /\ ~Past(l) /\ known[l][p] # monitors[p].old => Excuse(l, p)

ResourceInv ==
    /\ TypeOK /\ LockTrue /\ RunTrue
    /\ TestedTrue /\ PastTrue /\ OldTrue /\ ChangesWillBeReported

USE NoneAssumption DEF Watching

\* A component that was just made satisfies the invariant.
LEMMA ResourceInit == Init => ResourceInv
<1> SUFFICES ASSUME Init PROVE ResourceInv
  OBVIOUS
<1> USE DEF Init, Off
<1>1. TypeOK
  BY DEF TypeOK, ThreadRecords, CallRecords
<1>2. LockTrue /\ RunTrue
  BY DEF LockTrue, RunTrue
<1>3. TestedTrue /\ PastTrue /\ OldTrue /\ ChangesWillBeReported
  BY DEF TestedTrue, PastTrue, OldTrue, ChangesWillBeReported
<1> QED
  BY <1>1, <1>2, <1>3 DEF ResourceInv

\* A property that changes keeps the invariant, if every listener that the comparisons will
\* not show the change to is excused or has it recorded.
LEMMA ChangeKeeps ==
    ASSUME ResourceInv, NEW q \in Props, NEW v \in Values,
           value' = [value EXCEPT ![q] = v],
           \/ missed' = Excused(q) /\ changed' = changed
           \/ v = value[q] /\ missed' = missed /\ changed' = changed
           \/ missed' = missed /\ changed' = [l \in Listeners |-> IF l \in registry THEN changed[l] \union {q} ELSE changed[l]],
           UNCHANGED <<monitors, registry, known, lock, current, thread, call, released>>
    PROVE  ResourceInv'
<1> USE DEF ResourceInv
<1> DEFINE Told == \A l \in registry, p \in Props : Excuse(l, p) => Excuse(l, p)'
<1>1. TypeOK'
  BY DEF TypeOK, Excused
<1>2. LockTrue' /\ RunTrue'
  BY DEF LockTrue, RunTrue
<1>3. TestedTrue'
  BY DEF TestedTrue
<1>4. Told
  BY DEF Excuse, Excused, TypeOK
<1>5. \A l \in registry, p \in Props : value'[p] # value[p] => p = q /\ (Excuse(l, p)' \/ (missed' = Excused(q) /\ ~Blind(l, q)))
  BY DEF TypeOK, Excuse, Excused
<1>6. \A l : ~Blind(l, q) => ~Past(l) /\ monitors # None /\ (~monitors[q].tested \/ monitors[q].diff)
  BY DEF Blind, Past, LockTrue, TypeOK
<1>7. PastTrue'
  BY <1>4, <1>5, <1>6 DEF PastTrue, Past
<1>8. OldTrue'
  BY <1>4 DEF OldTrue, Past
<1>9. ChangesWillBeReported'
  <2> SUFFICES ASSUME NEW l \in registry, NEW p \in Props, known[l][p] # value'[p], ~Excuse(l, p)'
               PROVE /\ monitors # None /\ isChanged(p)'
                     /\ monitors[p].tested => \E t \in Threads : l \in thread[t].todo
    BY DEF ChangesWillBeReported, Excuse
  <2>0. ~Excuse(l, p)
    BY <1>4
  <2>1. CASE value'[p] = value[p]
    BY <2>0, <2>1 DEF ChangesWillBeReported, Excuse, isChanged
  <2>2. CASE value'[p] # value[p]
    <3>1. p = q /\ ~Past(l) /\ monitors # None /\ (~monitors[q].tested \/ monitors[q].diff)
      BY <2>2, <1>5, <1>6
    <3>2. CASE monitors[p].tested
      BY <3>1, <3>2 DEF isChanged, TestedTrue, Past
    <3>3. CASE ~monitors[p].tested
      BY <3>1, <3>3, <2>0 DEF isChanged, OldTrue
    <3> QED BY <3>2, <3>3
  <2> QED BY <2>1, <2>2
<1> QED
  BY <1>1, <1>2, <1>3, <1>7, <1>8, <1>9

\* Assignments, configure and initializeProperties keep the invariant.
LEMMA AssignKeeps ==
    ASSUME ResourceInv, NEW p \in Props, NEW v \in Values,
           Assign(p, v) \/ initializeProperties(p, v) \/ \E r \in BOOLEAN : configure(p, v, r)
    PROVE  ResourceInv'
<1>1. CASE Assign(p, v)
  BY <1>1, ChangeKeeps DEF Assign
<1>2. CASE initializeProperties(p, v)
  <2>1. CASE v = value[p]
    BY <1>2, <2>1, ChangeKeeps DEF initializeProperties, records
  <2>2. CASE v # value[p]
    BY <1>2, <2>2, ChangeKeeps DEF initializeProperties, records
  <2> QED BY <2>1, <2>2
<1>3. ASSUME NEW r \in BOOLEAN, configure(p, v, r) PROVE ResourceInv'
  <2>0. changed \in [Listeners -> SUBSET Props]
    BY DEF ResourceInv, TypeOK
  <2>1. CASE r
    <3>1. changed' = changed
      BY <1>3, <2>0, <2>1 DEF configure
    <3>2. (missed' = Excused(p)) \/ (v = value[p] /\ missed' = missed)
      BY <1>3, <2>1 DEF configure
    <3> QED BY <1>3, <3>1, <3>2, ChangeKeeps DEF configure
  <2>2. CASE ~r
    <3>1. changed' = [l \in Listeners |-> IF l \in registry THEN changed[l] \union {p} ELSE changed[l]]
      BY <1>3, <2>2 DEF configure
    <3> QED BY <1>3, <2>2, <3>1, ChangeKeeps DEF configure
  <2> QED BY <2>1, <2>2
<1> QED
  BY <1>1, <1>2, <1>3

\* initialize keeps the invariant, also in the middle of a pass, as it takes no lock.
LEMMA InitializeKeeps ==
    ASSUME ResourceInv, NEW ok \in BOOLEAN, initialize(ok)
    PROVE  ResourceInv'
<1> USE DEF ResourceInv
<1> USE DEF initialize
<1>1. TypeOK'
  <2>1. monitors' = None \/ monitors' \in [Props -> MonitorRecords]
    BY DEF TypeOK, Monitor, MonitorRecords
  <2>2. missed' \in [Listeners -> SUBSET Props]
    BY DEF TypeOK
  <2> QED BY <2>1, <2>2 DEF TypeOK
<1>2. LockTrue' /\ RunTrue'
  BY DEF LockTrue, RunTrue
<1>3. TestedTrue'
  BY DEF TestedTrue, Monitor
<1>4. \A l \in registry, p \in Props : Excuse(l, p) => Excuse(l, p)'
  BY DEF Excuse, TypeOK
<1>5. PastTrue'
  BY <1>4 DEF PastTrue, Past
<1>6. \A l \in registry, p \in Props : known[l][p] # value[p] => Excuse(l, p)'
  BY DEF Excuse, TypeOK
<1>7. OldTrue'
  BY <1>6 DEF OldTrue, Monitor
<1>8. ChangesWillBeReported'
  BY <1>6 DEF ChangesWillBeReported, Excuse
<1> QED
  BY <1>1, <1>2, <1>3, <1>5, <1>7, <1>8

\* Between two passes nothing is compared and no monitor is tested.
LEMMA Untested ==
    ASSUME ResourceInv, lock \notin Threads
    PROVE  /\ \A t \in Threads : ~Watching(t) /\ thread[t].todo = {}
           /\ monitors # None => \A p \in Props : ~monitors[p].tested
           /\ \A l \in Listeners : ~Past(l)
  BY DEF ResourceInv, LockTrue, TestedTrue, Past

\* startThread leaves a thread in charge that has not been told to stop.
LEMMA StartThread ==
    ASSUME ResourceInv, startThread
    PROVE  /\ current' \in Threads /\ thread' \in [Threads -> ThreadRecords]
           /\ \A t \in Threads : thread'[t] = thread[t] \/ (~Watching(t) /\ thread'[t] = [Off EXCEPT !.pc = "check"])
           /\ thread'[current'].pc # "off" /\ ~thread'[current'].stop
<1> USE DEF ResourceInv, startThread
<1>1. CASE current # None
  BY <1>1 DEF TypeOK, RunTrue
<1>2. CASE current = None
  <2>1. current' \in Unused
    BY <1>2
  <2>2. current' \in Threads /\ thread[current'].pc = "off"
    BY <2>1 DEF Unused
  <2>3. thread' = [thread EXCEPT ![current'] = [Off EXCEPT !.pc = "check"]] /\ thread \in [Threads -> ThreadRecords]
    BY <1>2 DEF TypeOK
  <2>4. [Off EXCEPT !.pc = "check"] \in ThreadRecords
    BY DEF Off, ThreadRecords
  <2>5. thread'[current'] = [Off EXCEPT !.pc = "check"]
    BY <2>2, <2>3
  <2>6. thread'[current'].pc = "check" /\ thread'[current'].stop = FALSE
    BY <2>5 DEF Off
  <2> QED BY <2>2, <2>3, <2>4, <2>5, <2>6
<1> QED
  BY <1>1, <1>2

\* registerPropertyListener keeps the invariant.
LEMMA RegisterKeeps ==
    ASSUME ResourceInv, NEW l \in Listeners, registerPropertyListener(l)
    PROVE  ResourceInv'
<1> USE DEF registerPropertyListener, component
<1>0. /\ current' \in Threads /\ thread' \in [Threads -> ThreadRecords]
      /\ \A t \in Threads : thread'[t] = thread[t] \/ (~Watching(t) /\ thread'[t] = [Off EXCEPT !.pc = "check"])
      /\ thread'[current'].pc # "off" /\ ~thread'[current'].stop
  BY StartThread
<1>1. lock = None /\ lock' = None
  OBVIOUS
<1>2. /\ \A t \in Threads : ~Watching(t) /\ thread[t].todo = {}
      /\ monitors # None => \A p \in Props : ~monitors[p].tested
      /\ \A m \in Listeners : ~Past(m)
  BY <1>1, Untested
<1>3. \A t \in Threads : ~Watching(t)' /\ thread'[t].todo = {}
  BY <1>0, <1>2 DEF Off
<1> USE DEF ResourceInv
<1>4. TypeOK'
  BY <1>0 DEF TypeOK
<1>5. LockTrue'
  BY <1>1, <1>3 DEF LockTrue
<1>6. RunTrue'
  BY <1>0 DEF RunTrue
<1>7. TestedTrue' /\ PastTrue'
  BY <1>1, <1>2 DEF TestedTrue, PastTrue, Past
<1>8. \A m \in registry' : m # l => m \in registry /\ known'[m] = known[m] /\ changed'[m] = changed[m]
                                    /\ missed'[m] = missed[m]
  BY DEF TypeOK
<1>9. /\ known'[l] = value
      /\ missed'[l] = {p \in Props : monitors # None /\ monitors[p].old # value[p]}
  BY DEF TypeOK
<1>10. OldTrue'
  <2> SUFFICES ASSUME monitors # None, NEW m \in registry', NEW p \in Props,
                      known'[m][p] # monitors[p].old
               PROVE  Excuse(m, p)'
    BY DEF OldTrue
  <2>1. CASE m = l
    BY <2>1, <1>9 DEF Excuse
  <2>2. CASE m # l
    BY <2>2, <1>8, <1>2 DEF OldTrue, Excuse, TypeOK
  <2> QED BY <2>1, <2>2
<1>11. ChangesWillBeReported'
  <2> SUFFICES ASSUME NEW m \in registry', NEW p \in Props, known'[m][p] # value[p]
               PROVE  \/ p \in changed'[m] \/ p \in missed'[m]
                      \/ (monitors # None /\ isChanged(p) /\ ~monitors[p].tested)
    BY DEF ChangesWillBeReported, isChanged
  <2>2. m # l
    BY <1>9
  <2> QED BY <2>2, <1>8, <1>2 DEF ChangesWillBeReported
<1> QED
  BY <1>4, <1>5, <1>6, <1>7, <1>10, <1>11

\* releaseObject, unregisterPropertyListener and the end of their joins keep the invariant.
LEMMA StopKeeps ==
    ASSUME ResourceInv, NEW c \in Clients,
           \/ releaseObject(c)
           \/ stopThread(c)
           \/ \E l \in Listeners : unregisterPropertyListener(c, l)
    PROVE  ResourceInv'
<1> USE DEF ResourceInv
<1> DEFINE Same == \A t \in Threads : thread'[t].pc = thread[t].pc /\ thread'[t].todo = thread[t].todo
                                      /\ thread'[t].rec = thread[t].rec
<1>0. Signalled \in [Threads -> ThreadRecords] /\ \A t \in Threads :
          /\ Signalled[t].pc = thread[t].pc /\ Signalled[t].todo = thread[t].todo
          /\ Signalled[t].rec = thread[t].rec
  <2>1. CASE current = None
    BY <2>1 DEF Signalled, TypeOK
  <2>2. CASE current # None
    <3>1. current \in Threads /\ thread \in [Threads -> ThreadRecords]
      BY <2>2 DEF TypeOK
    <3>2. Signalled = [thread EXCEPT ![current].stop = TRUE]
      BY <2>2 DEF Signalled
    <3>3. \A t \in Threads : thread[t] \in ThreadRecords
      BY <3>1
    <3>4. [thread[current] EXCEPT !.stop = TRUE] \in ThreadRecords
      BY <3>1, <3>3 DEF ThreadRecords
    <3>5. Signalled \in [Threads -> ThreadRecords]
      BY <3>1, <3>2, <3>4
    <3>6. \A t \in Threads : Signalled[t] = IF t = current THEN [thread[current] EXCEPT !.stop = TRUE] ELSE thread[t]
      BY <3>1, <3>2
    <3> QED BY <3>1, <3>3, <3>5, <3>6 DEF ThreadRecords
  <2> QED BY <2>1, <2>2
<1>1. CASE releaseObject(c)
  <2> USE <1>1 DEF releaseObject, component, records
  <2>1. Same /\ thread' \in [Threads -> ThreadRecords]
    BY <1>0
  <2>2. TypeOK'
    BY <2>1 DEF TypeOK, CallRecords
  <2>3. LockTrue'
    BY <2>1 DEF LockTrue, TypeOK
  <2>4. RunTrue'
    BY DEF RunTrue
  <2>5. TestedTrue' /\ PastTrue' /\ OldTrue' /\ ChangesWillBeReported'
    BY <2>1 DEF TestedTrue, PastTrue, OldTrue, ChangesWillBeReported, Past, Excuse, isChanged
  <2> QED BY <2>2, <2>3, <2>4, <2>5
<1>2. CASE stopThread(c)
  <2> USE <1>2 DEF stopThread, component, records, bounds
  <2>1. TypeOK'
    BY DEF TypeOK
  <2>2. \A t \in Threads : lock' = t <=> lock = t
    BY DEF LockTrue
  <2>3. LockTrue'
    BY <2>2 DEF LockTrue, TypeOK
  <2>4. RunTrue'
    BY DEF RunTrue
  <2>5. TestedTrue' /\ PastTrue' /\ OldTrue' /\ ChangesWillBeReported'
    BY <2>2 DEF TestedTrue, PastTrue, OldTrue, ChangesWillBeReported, Past, Excuse, isChanged
  <2> QED BY <2>1, <2>3, <2>4, <2>5
<1>3. ASSUME NEW l \in Listeners, unregisterPropertyListener(c, l) PROVE ResourceInv'
  <2> USE <1>3 DEF unregisterPropertyListener, component
  <2>0. thread' = thread \/ thread' = Signalled
    OBVIOUS
  <2>1. Same /\ thread' \in [Threads -> ThreadRecords]
    BY <1>0, <2>0 DEF TypeOK
  <2>a. \/ /\ current' = None /\ lock' = c
           /\ call' = [call EXCEPT ![c] = [join |-> current, locked |-> TRUE]]
        \/ UNCHANGED <<current, lock, call>>
    OBVIOUS
  <2>b. /\ current' \in {None} \union Threads /\ lock' \in {None} \union Clients \union Threads
        /\ call' \in [Clients -> {None} \union CallRecords]
    <3>1. current \in {None} \union Threads /\ lock \in {None} \union Clients \union Threads
          /\ call \in [Clients -> {None} \union CallRecords]
      BY DEF TypeOK
    <3>2. [join |-> current, locked |-> TRUE] \in CallRecords
      BY <3>1 DEF CallRecords
    <3>3. CASE UNCHANGED <<current, lock, call>>
      BY <3>1, <3>3
    <3>4. CASE current' = None /\ lock' = c /\ call' = [call EXCEPT ![c] = [join |-> current, locked |-> TRUE]]
      BY <3>1, <3>2, <3>4
    <3> QED BY <2>a, <3>3, <3>4
  <2>c. registry' \subseteq Listeners
    BY DEF TypeOK
  <2>2. TypeOK'
    BY <2>1, <2>b, <2>c DEF TypeOK
  <2>3. lock = None /\ lock' \notin Threads
    <3>1. lock = None /\ (lock' = None \/ lock' = c)
      OBVIOUS
    <3> QED BY <3>1
  <2>d. \A d \in Clients : call'[d] # None /\ call'[d].locked => lock' = d
    BY <2>a, <2>3 DEF LockTrue, TypeOK
  <2>4. LockTrue'
    BY <2>1, <2>3, <2>d DEF LockTrue
  <2>5. RunTrue'
    BY DEF RunTrue, StopsLast
  <2>6. /\ monitors # None => \A p \in Props : ~monitors[p].tested
        /\ \A m \in Listeners : ~Past(m)
    BY <2>3, Untested
  <2>7. TestedTrue' /\ PastTrue'
    BY <2>3, <2>6 DEF TestedTrue, PastTrue, Past
  <2>8. OldTrue' /\ ChangesWillBeReported'
    BY <2>6 DEF OldTrue, ChangesWillBeReported, Past, Excuse, isChanged, TypeOK
  <2> QED BY <2>2, <2>4, <2>5, <2>7, <2>8
<1> QED
  BY <1>1, <1>2, <1>3

\* A thread that begins a pass or ends keeps the invariant.
LEMMA LoopKeeps ==
    ASSUME ResourceInv, NEW t \in Threads, run(t) \/ acquire(t)
    PROVE  ResourceInv'
<1> USE DEF ResourceInv
<1>0. thread \in [Threads -> ThreadRecords]
  BY DEF TypeOK
<1>1. CASE run(t)
  <2> USE <1>1 DEF run, component, records, bounds
  <2>1. \A u \in Threads : (Watching(u)' <=> Watching(u)) /\ thread'[u].todo = thread[u].todo
                           /\ (thread'[u].pc = "report" => thread'[u].rec = thread[u].rec)
    <3>1. CASE thread[t].stop
      <4>1. \A u \in Threads \ {t} : thread'[u] = thread[u]
        BY <1>0
      <4>2. thread'[t].pc = "off" /\ thread'[t].todo = {} /\ thread[t].todo = {}
        BY <1>0, <3>1 DEF Off, LockTrue
      <4> QED BY <4>1, <4>2
    <3>2. CASE ~thread[t].stop
      <4>1. \A u \in Threads \ {t} : thread'[u] = thread[u]
        BY <1>0
      <4>2. thread'[t].pc = "wait" /\ thread'[t].todo = thread[t].todo
        BY <1>0, <3>2 DEF ThreadRecords
      <4> QED BY <4>1, <4>2
    <3> QED BY <3>1, <3>2
  <2>2. thread' \in [Threads -> ThreadRecords]
    BY <1>0 DEF Off, ThreadRecords
  <2>3. TypeOK'
    BY <2>2 DEF TypeOK
  <2>4. LockTrue'
    BY <1>0, <2>1 DEF LockTrue, ThreadRecords
  <2>5. RunTrue'
    BY <1>0 DEF RunTrue, Off, ThreadRecords
  <2>6. TestedTrue' /\ PastTrue' /\ OldTrue' /\ ChangesWillBeReported'
    BY <2>1 DEF TestedTrue, PastTrue, OldTrue, ChangesWillBeReported, Past, Excuse, isChanged
  <2> QED BY <2>3, <2>4, <2>5, <2>6
<1>2. CASE acquire(t)
  <2> USE <1>2 DEF acquire, component, records, bounds
  <2>0. /\ \A u \in Threads : ~Watching(u) /\ thread[u].todo = {}
        /\ monitors # None => \A p \in Props : ~monitors[p].tested
        /\ \A l \in Listeners : ~Past(l)
    BY Untested
  <2>1. /\ thread'[t].pc = "compare" /\ thread'[t].todo = registry
        /\ thread'[t].stop = thread[t].stop
        /\ \A u \in Threads \ {t} : thread'[u] = thread[u]
    BY <1>0 DEF ThreadRecords
  <2>2. thread' \in [Threads -> ThreadRecords]
    <3>1. registry \subseteq Listeners /\ thread[t] \in ThreadRecords
      BY <1>0 DEF TypeOK
    <3>2. [thread[t] EXCEPT !.pc = "compare", !.todo = registry] \in ThreadRecords
      BY <3>1 DEF ThreadRecords
    <3>3. thread' = [thread EXCEPT ![t] = [thread[t] EXCEPT !.pc = "compare", !.todo = registry]]
      BY <1>0
    <3> QED BY <1>0, <3>2, <3>3
  <2>3. TypeOK'
    BY <2>2 DEF TypeOK
  <2>4. LockTrue'
    BY <2>0, <2>1 DEF LockTrue
  <2>5. RunTrue'
    BY <2>1 DEF RunTrue, TypeOK
  <2>6. \A l \in registry : ~Past(l)'
    BY <2>1 DEF Past
  <2>7. TestedTrue' /\ PastTrue'
    BY <2>6, <2>0 DEF TestedTrue, PastTrue
  <2>8. OldTrue' /\ ChangesWillBeReported'
    BY <2>0, <2>6 DEF OldTrue, ChangesWillBeReported, Past, Excuse, isChanged, TypeOK
  <2> QED BY <2>3, <2>4, <2>5, <2>7, <2>8
<1> QED
  BY <1>1, <1>2

\* The comparison of a record keeps the invariant: what it finds is recorded for that
\* record, and the tested monitors still show it to the records to come.
LEMMA CompareKeeps ==
    ASSUME ResourceInv, NEW t \in Threads, NEW l \in Listeners, compare(t, l)
    PROVE  ResourceInv'
<1> USE DEF ResourceInv, compare
<1>0. thread \in [Threads -> ThreadRecords] /\ changed \in [Listeners -> SUBSET Props] /\ lock = t
      /\ registry # {}
  BY DEF TypeOK, LockTrue
<1>1. /\ thread'[t].pc = "report" /\ thread'[t].todo = thread[t].todo \ {l} /\ thread'[t].rec = l
      /\ thread'[t].stop = thread[t].stop /\ \A u \in Threads \ {t} : thread'[u] = thread[u]
  BY <1>0 DEF ThreadRecords
<1>2. thread' \in [Threads -> ThreadRecords]
  BY <1>0 DEF ThreadRecords
<1>3. Recorded(l) \in SUBSET Props
  BY <1>0 DEF Recorded
<1>4. changed'[l] = Recorded(l) /\ \A m \in Listeners \ {l} : changed'[m] = changed[m]
  BY <1>0
<1>5. monitors = None \/ \A p \in Props : Tested(p) \in MonitorRecords /\ Tested(p).tested
                                          /\ Tested(p).diff = isChanged(p)
  <2> SUFFICES ASSUME monitors # None, NEW p \in Props
               PROVE  Tested(p) \in MonitorRecords /\ Tested(p).tested /\ Tested(p).diff = isChanged(p)
    OBVIOUS
  <2>1. monitors[p] \in MonitorRecords
    BY DEF TypeOK
  <2>2. isChanged(p) \in BOOLEAN
    BY <2>1 DEF isChanged, MonitorRecords
  <2> QED BY <2>1, <2>2 DEF Tested, MonitorRecords
<1>6. (monitors = None /\ monitors' = None) \/ (monitors # None /\ monitors' \in [Props -> MonitorRecords]
                           /\ \A p \in Props : monitors'[p].tested /\ monitors'[p].diff = isChanged(p))
  BY <1>5
<1>7. TypeOK'
  BY <1>0, <1>2, <1>3, <1>6 DEF TypeOK
<1>8. LockTrue'
  BY <1>0, <1>1 DEF LockTrue
<1>9. RunTrue'
  BY <1>1 DEF RunTrue, TypeOK
<1>10. TestedTrue' /\ OldTrue'
  BY <1>0, <1>6 DEF TestedTrue, OldTrue
<1>11. \A m \in registry, p \in Props : Excuse(m, p) => Excuse(m, p)'
  BY <1>4 DEF Excuse, Recorded, TypeOK
<1>12. \A p \in Props : l \in registry /\ known[l][p] # value[p] => Excuse(l, p)'
  <2> SUFFICES ASSUME NEW p \in Props, l \in registry, known[l][p] # value[p]
               PROVE  Excuse(l, p)'
    OBVIOUS
  <2>1. \/ Excuse(l, p)
        \/ monitors # None /\ isChanged(p)
    BY DEF ChangesWillBeReported, Excuse
  <2> QED BY <2>1, <1>4, <1>11 DEF Recorded, Excuse
<1>13. \A m \in Listeners : m # l => (Past(m)' <=> Past(m))
  BY <1>0, <1>1 DEF Past
<1>14. PastTrue'
  BY <1>11, <1>12, <1>13 DEF PastTrue, TypeOK
<1>15. ChangesWillBeReported'
  <2> SUFFICES ASSUME NEW m \in registry, NEW p \in Props, known[m][p] # value[p], ~Excuse(m, p)'
               PROVE  monitors' # None /\ isChanged(p)' /\ \E u \in Threads : m \in thread'[u].todo
    BY DEF ChangesWillBeReported, Excuse
  <2>1. m # l /\ m \in Listeners /\ ~Excuse(m, p)
    BY <1>11, <1>12 DEF TypeOK
  <2>2. monitors # None /\ isChanged(p)
    BY <2>1 DEF ChangesWillBeReported, Excuse
  <2>3. ~Past(m)
    BY <2>1 DEF PastTrue
  <2>4. m \in thread'[t].todo
    BY <2>1, <2>3, <1>0, <1>1 DEF Past
  <2>5. monitors' # None
    BY <2>2, <1>6 DEF MonitorRecords
  <2>6. isChanged(p)'
    BY <2>2, <2>5, <1>6 DEF isChanged
  <2> QED BY <2>4, <2>5, <2>6
<1> QED
  BY <1>7, <1>8, <1>9, <1>10, <1>14, <1>15

\* The report of a record keeps the invariant.
LEMMA ReportKeeps ==
    ASSUME ResourceInv, NEW t \in Threads, NEW l \in Listeners, NEW sent \in BOOLEAN,
           report(t, l, sent)
    PROVE  ResourceInv'
<1> USE DEF ResourceInv, report, component, bounds
<1>0. /\ thread \in [Threads -> ThreadRecords] /\ changed \in [Listeners -> SUBSET Props]
      /\ known \in [Listeners -> [Props -> Values]] /\ missed \in [Listeners -> SUBSET Props]
      /\ value \in [Props -> Values] /\ lock = t
  BY DEF TypeOK, LockTrue
<1>1. /\ thread'[t].pc = "compare" /\ thread'[t].todo = thread[t].todo /\ thread'[t].rec = None
      /\ thread'[t].stop = thread[t].stop /\ \A u \in Threads \ {t} : thread'[u] = thread[u]
      /\ l \notin thread[t].todo
  BY <1>0 DEF ThreadRecords, LockTrue
<1>2. thread' \in [Threads -> ThreadRecords]
  <2>0. thread[t] \in ThreadRecords
    BY <1>0
  <2>1. [thread[t] EXCEPT !.pc = "compare", !.rec = None] \in ThreadRecords
    BY <2>0 DEF ThreadRecords
  <2>2. thread' = [thread EXCEPT ![t] = [thread[t] EXCEPT !.pc = "compare", !.rec = None]]
    BY <1>0
  <2> QED BY <1>0, <2>1, <2>2
<1>3. /\ changed' \in [Listeners -> SUBSET Props] /\ missed' \in [Listeners -> SUBSET Props]
      /\ known' \in [Listeners -> [Props -> Values]]
  <2>1. [p \in Props |-> IF p \in changed[l] THEN value[p] ELSE known[l][p]] \in [Props -> Values]
    BY <1>0
  <2>2. CASE Due(l)
    <3>1. changed' = [changed EXCEPT ![l] = {}]
      BY <2>2
    <3>2. missed' = [missed EXCEPT ![l] = IF sent THEN @ \ changed[l] ELSE @ \union changed[l]]
      BY <2>2
    <3>3. known' = known \/ known' = [known EXCEPT ![l] = [p \in Props |-> IF p \in changed[l] THEN value[p] ELSE known[l][p]]]
      BY <1>0, <2>2
    <3>4. changed' \in [Listeners -> SUBSET Props]
      BY <1>0, <3>1
    <3>5. missed' \in [Listeners -> SUBSET Props]
      BY <1>0, <3>2
    <3>6. known' \in [Listeners -> [Props -> Values]]
      BY <1>0, <2>1, <3>3
    <3> QED BY <3>4, <3>5, <3>6
  <2>3. CASE ~Due(l)
    <3>1. UNCHANGED <<changed, known, missed>>
      BY <2>3
    <3> QED BY <1>0, <3>1
  <2> QED BY <2>2, <2>3
<1>4. TypeOK'
  BY <1>2, <1>3 DEF TypeOK
<1>5. LockTrue'
  BY <1>0, <1>1 DEF LockTrue
<1>6. RunTrue'
  BY <1>1 DEF RunTrue, TypeOK
<1>7. TestedTrue'
  BY DEF TestedTrue
<1>8. \A m \in Listeners : Past(m)' <=> Past(m)
  BY <1>1 DEF Past
<1>9. Past(l)
  BY <1>0, <1>1 DEF Past
<1>10. \A m \in Listeners \ {l} : changed'[m] = changed[m] /\ missed'[m] = missed[m] /\ known'[m] = known[m]
  BY <1>0
<1>12. \A p \in Props : l \in registry /\ known'[l][p] # value[p] => Excuse(l, p)'
  <2> SUFFICES ASSUME NEW p \in Props, l \in registry, known'[l][p] # value[p] PROVE Excuse(l, p)'
    OBVIOUS
  <2>1. known'[l][p] = known[l][p]
    BY <1>0
  <2>2. Excuse(l, p)
    BY <2>1, <1>9 DEF PastTrue
  <2> QED BY <1>0, <2>1, <2>2 DEF Excuse
<1>13. PastTrue'
  BY <1>8, <1>10, <1>12 DEF PastTrue, Excuse, TypeOK
<1>14. OldTrue'
  BY <1>8, <1>9, <1>10 DEF OldTrue, Excuse, TypeOK
<1>15. ChangesWillBeReported'
  <2> SUFFICES ASSUME NEW m \in registry, NEW p \in Props, known'[m][p] # value[p], ~Excuse(m, p)'
               PROVE  monitors # None /\ isChanged(p) /\ (monitors[p].tested => \E u \in Threads : m \in thread'[u].todo)
    BY DEF ChangesWillBeReported, Excuse, isChanged
  <2>1. m \in Listeners \ {l}
    BY <1>12 DEF TypeOK
  <2>2. \A u \in Threads : thread'[u].todo = thread[u].todo
    BY <1>1
  <2> QED BY <2>1, <2>2, <1>10 DEF ChangesWillBeReported, Excuse
<1> QED
  BY <1>4, <1>5, <1>6, <1>7, <1>13, <1>14, <1>15

\* The reset of the monitors keeps the invariant: all records have been compared, so that
\* nothing is lost with the old values.
LEMMA ResetKeeps ==
    ASSUME ResourceInv, NEW t \in Threads, reset(t)
    PROVE  ResourceInv'
<1> USE DEF ResourceInv, reset, records, bounds
<1>0. thread \in [Threads -> ThreadRecords] /\ lock = t /\ t # None
  BY DEF TypeOK, LockTrue
<1>1. /\ thread'[t].pc = "check" /\ thread'[t].todo = {} /\ thread'[t].stop = thread[t].stop
      /\ \A u \in Threads \ {t} : thread'[u] = thread[u]
  BY <1>0 DEF ThreadRecords
<1>2. thread' \in [Threads -> ThreadRecords]
  BY <1>0 DEF ThreadRecords
<1>3. \A u \in Threads : thread[u].todo = {} /\ thread'[u].todo = {}
  BY <1>0, <1>1 DEF LockTrue
<1>4. \A l \in registry : Past(l)
  BY <1>0, <1>3 DEF Past
<1>5. \A l \in registry, p \in Props : known[l][p] # value[p] => Excuse(l, p)
  BY <1>4 DEF PastTrue
<1>6. \/ registry = {} /\ monitors' = monitors
      \/ monitors' = None
      \/ monitors' = [p \in Props |-> Monitor(value[p])]
  BY DEF ResetMonitors
<1>7. TypeOK'
  <2>1. [p \in Props |-> Monitor(value[p])] \in [Props -> MonitorRecords]
    BY DEF TypeOK, Monitor, MonitorRecords
  <2>2. monitors' = None \/ monitors' \in [Props -> MonitorRecords]
    BY <1>6, <2>1 DEF TypeOK
  <2> QED BY <1>2, <2>2 DEF TypeOK
<1>8. LockTrue'
  BY <1>0, <1>1, <1>3 DEF LockTrue, TypeOK
<1>9. RunTrue'
  BY <1>1 DEF RunTrue, TypeOK
<1>10. PastTrue' /\ ChangesWillBeReported'
  BY <1>5 DEF PastTrue, ChangesWillBeReported, Excuse
<1>11. OldTrue'
  BY <1>5, <1>6 DEF OldTrue, Excuse, Monitor
<1>12. TestedTrue'
  <2>1. CASE registry = {} /\ monitors' = monitors
    BY <2>1 DEF TestedTrue
  <2>2. CASE monitors' = None
    BY <2>2 DEF TestedTrue
  <2>3. CASE monitors' = [p \in Props |-> Monitor(value[p])]
    BY <2>3 DEF TestedTrue, Monitor
  <2> QED BY <1>6, <2>1, <2>2, <2>3
<1> QED
  BY <1>7, <1>8, <1>9, <1>10, <1>11, <1>12

\* Every step of a component keeps the invariant.
LEMMA ResourceStep == ResourceInv /\ [Next]_vars => ResourceInv'
<1> SUFFICES ASSUME ResourceInv, [Next]_vars PROVE ResourceInv'
  OBVIOUS
<1>1. ASSUME NEW p \in Props, NEW v \in Values, Assign(p, v) \/ initializeProperties(p, v) \/ \E r \in BOOLEAN : configure(p, v, r) PROVE ResourceInv'
  BY <1>1, AssignKeeps
<1>2. ASSUME NEW ok \in BOOLEAN, initialize(ok) PROVE ResourceInv'
  BY <1>2, InitializeKeeps
<1>3. ASSUME NEW l \in Listeners, registerPropertyListener(l) PROVE ResourceInv'
  BY <1>3, RegisterKeeps
<1>4. ASSUME NEW c \in Clients, releaseObject(c) \/ stopThread(c) \/ \E l \in Listeners : unregisterPropertyListener(c, l) PROVE ResourceInv'
  BY <1>4, StopKeeps
<1>5. ASSUME NEW t \in Threads, Step(t) PROVE ResourceInv'
  BY <1>5, LoopKeeps, CompareKeeps, ReportKeeps, ResetKeeps DEF Step
<1>6. CASE UNCHANGED vars
  BY <1>6 DEF vars, ResourceInv, TypeOK, LockTrue, RunTrue, TestedTrue, PastTrue, OldTrue,
     ChangesWillBeReported, Past, Excuse, isChanged
<1> QED
  BY <1>1, <1>2, <1>3, <1>4, <1>5, <1>6 DEF Next

\* No change of a monitored property is lost and the monitor runs while somebody listens.
THEOREM ResourceSafe == Init /\ [][Next]_vars => [](ChangesWillBeReported /\ MonitorRuns)
<1>1. ResourceInv => ChangesWillBeReported /\ MonitorRuns
  BY DEF ResourceInv, RunTrue, MonitorRuns
<1> QED
  BY <1>1, ResourceInit, ResourceStep, PTL

----------------------------------------------------------------------------
(* The event manager (PyEvents).                                           *)

Registered == {"admin", "obtain", "connect", "reset", "made"}
Creating == {"register"} \cup Registered
Ending == {"unregister", "disconnect", "wait", "finish"}

EventsType ==
    /\ doing \in [EventThreads -> [pc : {"idle"} \cup Creating \cup Ending, of : EventObjects \cup {None}, tries : Nat]]
    /\ object \in [EventObjects -> {"none", "live", "gone"}]
    /\ disconnected \in [EventObjects -> BOOLEAN]
    /\ channel \in [EventObjects -> {"none", "obtained", "connected", "gone"}]
    /\ registrations \subseteq EventObjects /\ telling \subseteq EventObjects

\* who holds the lock is making its object, and a call has its object for itself
CallsTrue ==
    /\ \A t \in EventThreads :
         /\ doing[t].pc = "idle" => doing[t].of = None
         /\ doing[t].pc \in Creating => e_lock = t /\ doing[t].of \in EventObjects /\ object[doing[t].of] = "none"
         /\ doing[t].pc \in Ending => doing[t].of \in EventObjects /\ object[doing[t].of] = "live"
         /\ doing[t].pc \in {"admin", "obtain", "connect", "disconnect"} => doing[t].tries < Retries
         /\ e_lock = t => doing[t].pc \in Creating
    /\ e_lock \in EventThreads \cup {None}
    /\ \A t, u \in EventThreads : doing[t].of = doing[u].of /\ doing[t].of # None => t = u

\* only what a call under way has registered is in the domain and unknown
ListTrue ==
    /\ registrations \subseteq domain
    /\ \A o \in registrations : object[o] # "none"
    /\ \A o \in domain : \/ o \in registrations \cup e_leaked
                         \/ \E t \in EventThreads : doing[t].pc \in Registered /\ doing[t].of = o
    /\ \A t \in EventThreads : doing[t].pc \in Registered => doing[t].of \in domain

\* the object knows whether it is connected
Agrees(o) == (~disconnected[o] <=> channel[o] = "connected") \/ o \in telling \cup unsure \cup e_crossed \cup refused

Untouched(o) == channel[o] = "none" /\ disconnected[o] /\ o \notin proxy /\ o \notin telling

ChannelOf(o) ==
    /\ o \in telling => channel[o] = "gone"
    /\ object[o] # "gone" /\ o \notin proxy => channel[o] = "none"
    /\ object[o] = "none" /\ o \notin domain => Untouched(o)
    /\ object[o] = "live" /\ (\A t \in EventThreads : doing[t].of # o) => Agrees(o)
    /\ object[o] = "gone" => channel[o] # "connected" \/ o \in refused

ReceiversTrue == \A o \in EventObjects : ChannelOf(o)

\* where a call is, its object has come as far
PlaceTrue(pc, o) ==
    /\ pc \in {"register", "admin", "obtain"} => Untouched(o)
    /\ pc = "connect" => disconnected[o] /\ channel[o] # "none"
    /\ pc = "reset" => channel[o] \in {"connected", "gone"}
    /\ pc \in {"made", "unregister", "disconnect"} => Agrees(o)
    /\ pc \in {"wait", "finish"} => channel[o] # "connected" \/ o \in refused

PlacesTrue == \A t \in EventThreads : PlaceTrue(doing[t].pc, doing[t].of)

EventsInv == EventsType /\ CallsTrue /\ ListTrue /\ ReceiversTrue /\ PlacesTrue

\* A manager that knows nothing and objects that were not made satisfy the invariant.
LEMMA EventsStart == ASSUME Events!EventsConstants, Events!Init PROVE EventsInv
<1>1. \A t \in EventThreads : doing[t] = Events!Free /\ doing[t].pc = "idle" /\ doing[t].of = None /\ doing[t].tries = 0
  BY DEF Events!Init, Events!Free
<1>2. EventsType
  BY <1>1 DEF Events!Init, EventsType, Events!Free
<1>3. CallsTrue
  BY <1>1 DEF Events!Init, CallsTrue, Events!EventsConstants, Creating, Ending, Registered
<1>4. ListTrue /\ ReceiversTrue /\ PlacesTrue
  BY <1>1 DEF Events!Init, ListTrue, ReceiversTrue, ChannelOf, PlacesTrue, PlaceTrue, Untouched,
     Registered
<1> QED BY <1>2, <1>3, <1>4 DEF EventsInv

\* what a step of the call of t does to the places of the calls
Moves(t, pc, tries) ==
    doing' = [doing EXCEPT ![t] = [pc |-> pc, of |-> doing[t].of, tries |-> tries]]

\* Go, Again and the wait change a call's place and count of tries, and nothing else of it.
LEMMA MovesTo ==
    ASSUME EventsType, NEW t \in EventThreads, NEW pc
    PROVE  /\ Events!Go(t, pc) => Moves(t, pc, 0)
           /\ Events!Again(t, pc) => \/ doing[t].tries + 1 < Retries /\ Moves(t, doing[t].pc, doing[t].tries + 1)
                                     \/ ~(doing[t].tries + 1 < Retries) /\ Moves(t, pc, 0)
           /\ doing' = [doing EXCEPT ![t].tries = @ + 1] => Moves(t, doing[t].pc, doing[t].tries + 1)
<1>1. doing[t] = [pc |-> doing[t].pc, of |-> doing[t].of, tries |-> doing[t].tries]
  BY DEF EventsType
<1> QED BY <1>1 DEF Events!Go, Events!Again, Moves, EventsType

\* A call that goes on keeps its object and, if it has it, the manager's lock.
LEMMA CallMoves ==
    ASSUME Events!EventsConstants, EventsInv, NEW t \in EventThreads, NEW pc, NEW tries \in Nat, Moves(t, pc, tries),
           UNCHANGED <<e_lock, object>>,
           \/ doing[t].pc \in Creating /\ pc \in Creating
           \/ doing[t].pc \in Ending /\ pc \in Ending,
           pc \in {"admin", "obtain", "connect", "disconnect"} => tries < Retries
    PROVE  /\ CallsTrue'
           /\ doing' \in [EventThreads -> [pc : {"idle"} \cup Creating \cup Ending, of : EventObjects \cup {None}, tries : Nat]]
           /\ \A u \in EventThreads : doing'[u].of = doing[u].of /\ (u # t => doing'[u] = doing[u])
           /\ doing'[t].pc = pc
<1>1. \A u \in EventThreads : doing'[u].of = doing[u].of /\ (u # t => doing'[u] = doing[u])
  BY DEF Moves, EventsInv, EventsType
<1>2. doing'[t] = [pc |-> pc, of |-> doing[t].of, tries |-> tries]
  BY DEF Moves, EventsInv, EventsType
<1>3. doing' \in [EventThreads -> [pc : {"idle"} \cup Creating \cup Ending, of : EventObjects \cup {None}, tries : Nat]]
  BY DEF Moves, EventsInv, EventsType
<1>4. CallsTrue'
  BY <1>1, <1>2 DEF EventsInv, EventsType, CallsTrue, Creating, Ending, Registered
<1> QED BY <1>1, <1>2, <1>3, <1>4

\* what a step leaves as it was of an object
Same(p) ==
    /\ object'[p] = object[p] /\ disconnected'[p] = disconnected[p] /\ channel'[p] = channel[p]
    /\ p \in proxy' <=> p \in proxy
    /\ p \in telling' <=> p \in telling
    /\ p \in domain' <=> p \in domain
    /\ p \in unsure' \cup e_crossed' \cup refused' <=> p \in unsure \cup e_crossed \cup refused
    /\ p \in refused' <=> p \in refused

\* A step of the call of one object leaves what is known of the others and of their calls.
LEMMA Elsewhere ==
    ASSUME Events!EventsConstants, EventsInv, NEW t \in EventThreads, NEW o \in EventObjects, doing[t].of = o,
           \A u \in EventThreads : u # t => doing'[u] = doing[u], doing'[t].of \in {o, None},
           \A p \in EventObjects : p # o => Same(p), ChannelOf(o)', PlaceTrue(doing[t].pc, doing[t].of)'
    PROVE  ReceiversTrue' /\ PlacesTrue'
<1>1. ASSUME NEW p \in EventObjects, p # o PROVE ChannelOf(p)'
  <2>1. Same(p) /\ ChannelOf(p)
    BY <1>1 DEF EventsInv, ReceiversTrue
  <2>2. (\A u \in EventThreads : doing'[u].of # p) => \A u \in EventThreads : doing[u].of # p
    BY <1>1
  <2> QED BY <2>1, <2>2 DEF Same, ChannelOf, Untouched, Agrees
<1>2. ASSUME NEW u \in EventThreads, u # t PROVE PlaceTrue(doing[u].pc, doing[u].of)'
  <2>1. doing'[u] = doing[u] /\ PlaceTrue(doing[u].pc, doing[u].of)
    BY <1>2 DEF EventsInv, PlacesTrue
  <2>2. CASE doing[u].of = None
    <3>1. doing[u].pc = "idle"
      BY <2>2 DEF EventsInv, EventsType, CallsTrue, Events!EventsConstants
    <3> QED BY <2>1, <3>1 DEF PlaceTrue
  <2>3. CASE doing[u].of # None
    <3>1. doing[u].of \in EventObjects /\ doing[u].of # o
      BY <1>2, <2>3 DEF EventsInv, EventsType, CallsTrue
    <3>2. Same(doing[u].of)
      BY <3>1
    <3> QED BY <2>1, <3>1, <3>2 DEF Same, PlaceTrue, Untouched, Agrees
  <2> QED BY <2>2, <2>3
<1> QED BY <1>1, <1>2 DEF ReceiversTrue, PlacesTrue

\* A call that ends gives up its object and the lock.
LEMMA CallLeaves ==
    ASSUME Events!EventsConstants, EventsInv, NEW t \in EventThreads, doing' = [doing EXCEPT ![t] = Events!Free],
           e_lock' \in {e_lock, None}, doing[t].pc \in Creating <=> e_lock' # e_lock,
           \A p \in EventObjects : p # doing[t].of => object'[p] = object[p]
    PROVE  /\ CallsTrue'
           /\ doing' \in [EventThreads -> [pc : {"idle"} \cup Creating \cup Ending, of : EventObjects \cup {None}, tries : Nat]]
           /\ \A u \in EventThreads : u # t => doing'[u] = doing[u]
           /\ doing'[t].pc = "idle" /\ doing'[t].of = None
<1>1. /\ \A u \in EventThreads : u # t => doing'[u] = doing[u]
      /\ doing'[t].pc = "idle" /\ doing'[t].of = None /\ doing'[t].tries = 0
  BY DEF EventsInv, EventsType, Events!Free
<1>2. doing' \in [EventThreads -> [pc : {"idle"} \cup Creating \cup Ending, of : EventObjects \cup {None}, tries : Nat]]
  BY DEF EventsInv, EventsType, Events!Free
<1>3. \A u \in EventThreads : u # t /\ doing[u].of # None => doing[u].of # doing[t].of
  BY DEF EventsInv, CallsTrue
<1>4. CallsTrue'
  BY <1>1, <1>3 DEF EventsInv, EventsType, CallsTrue, Events!EventsConstants, Creating, Ending,
     Registered
<1> QED BY <1>1, <1>2, <1>4

\* Manager.Publisher and Subscriber keep the invariant when they take the lock.
LEMMA EventCreateKeeps ==
    ASSUME Events!EventsConstants, EventsInv, NEW t \in EventThreads, NEW o \in EventObjects, Events!Create(t, o)
    PROVE  EventsInv'
<1> DEFINE new == [Events!Free EXCEPT !.pc = "register", !.of = o]
<1>0. /\ new \in [pc : {"register"}, of : {o}, tries : {0}]
      /\ new.pc = "register" /\ new.of = o /\ new.tries = 0
  BY DEF Events!Free
<1>1. /\ doing' = [doing EXCEPT ![t] = new]
      /\ doing[t].pc = "idle" /\ object[o] = "none" /\ o \notin domain /\ e_lock = None /\ e_lock' = t
      /\ UNCHANGED <<registrations, domain, object, disconnected, proxy, channel, telling,
                     e_leaked, unsure, e_crossed, refused>>
  BY DEF Events!Create
<1> HIDE DEF new
<1>2. /\ doing'[t] = new /\ doing'[t].pc = "register" /\ doing'[t].of = o /\ doing'[t].tries = 0
      /\ \A u \in EventThreads : u # t => doing'[u] = doing[u]
  BY <1>0, <1>1 DEF EventsInv, EventsType
<1>3. \A u \in EventThreads : doing[u].pc \notin Creating /\ doing[u].of # o /\ doing[t].of = None
  BY <1>1 DEF EventsInv, EventsType, CallsTrue, Events!EventsConstants
<1>4. EventsType'
  BY <1>0, <1>1 DEF EventsInv, EventsType, Creating
<1>5. CallsTrue'
  BY <1>1, <1>2, <1>3 DEF EventsInv, EventsType, CallsTrue, Events!EventsConstants, Creating,
     Ending, Registered
<1>6. ListTrue'
  BY <1>1, <1>2, <1>3 DEF EventsInv, ListTrue, Registered, Creating
<1>7. Untouched(o)
  BY <1>1 DEF EventsInv, ReceiversTrue, ChannelOf
<1>8. ReceiversTrue'
  <2> SUFFICES ASSUME NEW p \in EventObjects PROVE ChannelOf(p)'
    BY DEF ReceiversTrue
  <2>1. ChannelOf(p)
    BY DEF EventsInv, ReceiversTrue
  <2>2. p # o => ((\A u \in EventThreads : doing'[u].of # p) => \A u \in EventThreads : doing[u].of # p)
    BY <1>2, <1>3, p # None DEF Events!EventsConstants
  <2> QED BY <1>1, <2>1, <2>2 DEF ChannelOf, Untouched, Agrees
<1>9. PlacesTrue'
  BY <1>1, <1>2, <1>7 DEF EventsInv, PlacesTrue, PlaceTrue, Untouched, Agrees
<1> QED BY <1>4, <1>5, <1>6, <1>8, <1>9 DEF EventsInv

\* registerResource keeps the invariant: what the domain knows has a call or is on record as leaked.
LEMMA EventRegisterKeeps ==
    ASSUME Events!EventsConstants, EventsInv, NEW t \in EventThreads, Events!registerResource(t) \/ Events!registerFails(t)
    PROVE  EventsInv'
<1>1. PICK o \in EventObjects :
      /\ doing[t].pc = "register" /\ o = doing[t].of /\ object[o] = "none" /\ e_lock = t
      /\ UNCHANGED <<registrations, object, disconnected, proxy, channel, telling, unsure, e_crossed, refused>>
      /\ Untouched(o)
  BY DEF Events!registerResource, Events!registerFails, EventsInv, CallsTrue, Creating,
     PlacesTrue, PlaceTrue
<1>2. CASE domain' = domain \cup {doing[t].of} /\ Events!Go(t, "admin") /\ UNCHANGED <<e_lock, e_leaked>>
  <2>1. Moves(t, "admin", 0)
    BY <1>2, MovesTo DEF EventsInv
  <2>2. /\ CallsTrue'
        /\ doing' \in [EventThreads -> [pc : {"idle"} \cup Creating \cup Ending, of : EventObjects \cup {None}, tries : Nat]]
        /\ \A u \in EventThreads : doing'[u].of = doing[u].of /\ (u # t => doing'[u] = doing[u])
        /\ doing'[t].pc = "admin"
    BY <1>1, <1>2, <2>1, CallMoves DEF Events!EventsConstants, Creating, Registered
  <2>3. EventsType'
    BY <1>1, <2>2 DEF EventsInv, EventsType
  <2>4. ListTrue'
    BY <1>1, <1>2, <2>2 DEF EventsInv, ListTrue, Registered
  <2>5. ChannelOf(o)'
    BY <1>1, <1>2 DEF EventsInv, ReceiversTrue, ChannelOf, Untouched
  <2>6. PlaceTrue(doing[t].pc, doing[t].of)'
    BY <1>1, <2>2 DEF PlaceTrue, Untouched
  <2>7. \A p \in EventObjects : p # o => Same(p)
    BY <1>1, <1>2 DEF Same
  <2> QED BY <1>1, <2>2, <2>3, <2>4, <2>5, <2>6, <2>7, Elsewhere DEF EventsInv
<1>3. CASE /\ domain' \in {domain, domain \cup {o}} /\ Events!Leave(t) 
            /\ e_leaked \subseteq e_leaked' /\ (domain' # domain => o \in e_leaked')
  <2>2. /\ CallsTrue'
        /\ doing' \in [EventThreads -> [pc : {"idle"} \cup Creating \cup Ending, of : EventObjects \cup {None}, tries : Nat]]
        /\ \A u \in EventThreads : u # t => doing'[u] = doing[u]
        /\ doing'[t].pc = "idle" /\ doing'[t].of = None
    <3>1. doing' = [doing EXCEPT ![t] = Events!Free] /\ e_lock' = None /\ e_lock' # e_lock
      BY <1>1, <1>3 DEF Events!Leave, Events!EventsConstants
    <3> QED BY <1>1, <3>1, CallLeaves DEF Creating
  <2>3. EventsType'
    BY <1>1, <2>2 DEF EventsInv, EventsType
  <2>4. ListTrue'
    BY <1>1, <1>3, <2>2 DEF EventsInv, ListTrue, Registered
  <2>5. ChannelOf(o)'
    BY <1>1, <1>3 DEF EventsInv, ReceiversTrue, ChannelOf, Untouched
  <2>6. PlaceTrue(doing[t].pc, doing[t].of)'
    BY <1>1, <2>2 DEF PlaceTrue, Untouched
  <2>7. \A p \in EventObjects : p # o => Same(p)
    BY <1>1, <1>3 DEF Same
  <2> QED BY <1>1, <2>2, <2>3, <2>4, <2>5, <2>6, <2>7, Elsewhere DEF EventsInv
<1> QED BY <1>1, <1>2, <1>3 DEF Events!registerResource, Events!registerFails

\* A constructor that raises keeps the invariant: its registration is leaked.
LEMMA RaisedKeeps ==
    ASSUME Events!EventsConstants, EventsInv, NEW t \in EventThreads, doing[t].pc \in Registered, Events!Raised(t),
           UNCHANGED <<registrations, domain, object, disconnected, proxy, channel, telling, unsure, e_crossed, refused>>
    PROVE  EventsInv'
<1>1. PICK o \in EventObjects : o = doing[t].of /\ object[o] = "none" /\ e_lock = t /\ o \in domain
  BY DEF EventsInv, CallsTrue, Creating, ListTrue
<1>2. /\ CallsTrue'
      /\ doing' \in [EventThreads -> [pc : {"idle"} \cup Creating \cup Ending, of : EventObjects \cup {None}, tries : Nat]]
      /\ \A u \in EventThreads : u # t => doing'[u] = doing[u]
      /\ doing'[t].pc = "idle" /\ doing'[t].of = None
  <2>1. doing' = [doing EXCEPT ![t] = Events!Free] /\ e_lock' = None /\ e_lock' # e_lock
    BY <1>1 DEF Events!Raised, Events!Leave, Events!EventsConstants
  <2> QED BY <1>1, <2>1, CallLeaves DEF Creating
<1>3. EventsType'
  BY <1>2 DEF EventsInv, EventsType
<1>4. ListTrue'
  BY <1>1, <1>2 DEF EventsInv, ListTrue, Events!Raised, Registered
<1>5. ChannelOf(o)'
  BY <1>1 DEF EventsInv, ReceiversTrue, ChannelOf, Untouched
<1>6. PlaceTrue(doing[t].pc, doing[t].of)'
  BY <1>2 DEF PlaceTrue
<1>7. \A p \in EventObjects : p # o => Same(p)
  BY DEF Same
<1> QED BY <1>1, <1>2, <1>3, <1>4, <1>5, <1>6, <1>7, Elsewhere DEF EventsInv

\* A step of a call under the lock, or of terminate, keeps the invariant if it leaves the object
\* and the channel as the call's next place requires.
LEMMA MoveKeeps ==
    ASSUME Events!EventsConstants, EventsInv, NEW t \in EventThreads, NEW pc, NEW tries \in Nat, Moves(t, pc, tries),
           \/ doing[t].pc \in Registered /\ pc \in Registered
           \/ doing[t].pc \in Ending /\ pc \in Ending,
           pc \in {"admin", "obtain", "connect", "disconnect"} => tries < Retries,
           UNCHANGED <<e_lock, object, registrations, domain, e_leaked>>,
           disconnected' \in [EventObjects -> BOOLEAN],
           channel' \in [EventObjects -> {"none", "obtained", "connected", "gone"}], telling' \subseteq EventObjects,
           NEW o \in EventObjects, o = doing[t].of, \A p \in EventObjects : p # o => Same(p),
           o \in telling' => channel'[o] = "gone", o \notin proxy' => channel'[o] = "none", PlaceTrue(pc, o)'
    PROVE  EventsInv'
<1>1. /\ CallsTrue'
      /\ doing' \in [EventThreads -> [pc : {"idle"} \cup Creating \cup Ending, of : EventObjects \cup {None}, tries : Nat]]
      /\ \A u \in EventThreads : doing'[u].of = doing[u].of /\ (u # t => doing'[u] = doing[u])
      /\ doing'[t].pc = pc
  BY CallMoves DEF Creating
<1>2. EventsType'
  BY <1>1 DEF EventsInv, EventsType
<1>3. ListTrue'
  <2>1. \A u \in EventThreads : doing'[u].pc \in Registered <=> doing[u].pc \in Registered
    BY <1>1 DEF Registered, Ending
  <2> QED BY <1>1, <2>1 DEF EventsInv, ListTrue
<1>4. ChannelOf(o)'
  <2>1. object[o] = "none" => o \in domain
    BY DEF EventsInv, CallsTrue, ListTrue, Ending
  <2>2. object[o] # "gone"
    BY DEF EventsInv, CallsTrue, Creating
  <2> QED BY <1>1, <2>1, <2>2 DEF ChannelOf
<1>5. PlaceTrue(doing[t].pc, doing[t].of)'
  BY <1>1
<1> QED BY <1>1, <1>2, <1>3, <1>4, <1>5, Elsewhere DEF EventsInv

\* for_suppliers keeps the invariant, also when its last try fails.
LEMMA SuppliersKeep ==
    ASSUME Events!EventsConstants, EventsInv, NEW t \in EventThreads, Events!for_suppliers(t)
    PROVE  EventsInv'
<1>1. PICK o \in EventObjects : /\ doing[t].pc = "admin" /\ o = doing[t].of /\ Untouched(o) /\ doing[t].tries \in Nat
                                /\ UNCHANGED <<registrations, domain, object, disconnected, proxy, channel, telling,
                                               unsure, e_crossed, refused>>
  BY DEF Events!for_suppliers, EventsInv, EventsType, CallsTrue, Creating, Registered,
     PlacesTrue, PlaceTrue
<1>2. PlaceTrue("admin", o)' /\ PlaceTrue("obtain", o)'
  BY <1>1 DEF PlaceTrue, Untouched
<1>3. \A p \in EventObjects : Same(p)
  BY <1>1 DEF Same
<1>4. CASE Events!Go(t, "obtain") /\ UNCHANGED <<e_lock, e_leaked>>
  <2>1. Moves(t, "obtain", 0)
    BY <1>4, MovesTo DEF EventsInv
  <2> QED BY <1>1, <1>2, <1>3, <1>4, <2>1, MoveKeeps DEF Registered, Events!EventsConstants,
             EventsInv, EventsType, Untouched
<1>5. CASE doing[t].tries + 1 < Retries /\ Events!Again(t, "none") /\ UNCHANGED <<e_lock, e_leaked>>
  <2>1. Moves(t, "admin", doing[t].tries + 1)
    BY <1>1, <1>5, MovesTo DEF EventsInv
  <2> QED BY <1>1, <1>2, <1>3, <1>5, <2>1, MoveKeeps DEF Registered, Events!EventsConstants,
             EventsInv, EventsType, Untouched
<1>6. CASE Events!Raised(t)
  BY <1>1, <1>6, RaisedKeeps DEF Registered
<1> QED BY <1>4, <1>5, <1>6 DEF Events!for_suppliers

\* obtain_push_consumer keeps the invariant: with the proxy comes what the channel knows of it.
LEMMA ObtainKeeps ==
    ASSUME Events!EventsConstants, EventsInv, NEW t \in EventThreads, Events!obtain_push_consumer(t)
    PROVE  EventsInv'
<1>1. PICK o \in EventObjects : /\ doing[t].pc = "obtain" /\ o = doing[t].of /\ Untouched(o) /\ doing[t].tries \in Nat
                                /\ UNCHANGED <<e_lock, registrations, domain, object, disconnected, telling,
                                               e_leaked, unsure, e_crossed, refused>>
  BY DEF Events!obtain_push_consumer, EventsInv, EventsType, CallsTrue, Creating, Registered,
     PlacesTrue, PlaceTrue
<1>2. CASE Events!Go(t, "connect") /\ proxy' = proxy \cup {o} /\ channel' = [channel EXCEPT ![o] = "obtained"]
  <2>1. Moves(t, "connect", 0)
    BY <1>2, MovesTo DEF EventsInv
  <2>2. \A p \in EventObjects : p # o => Same(p)
    BY <1>1, <1>2 DEF Same, EventsInv, EventsType
  <2>3. channel'[o] = "obtained" /\ channel' \in [EventObjects -> {"none", "obtained", "connected", "gone"}]
    BY <1>2 DEF EventsInv, EventsType
  <2>4. PlaceTrue("connect", o)'
    BY <1>1, <2>3 DEF PlaceTrue, Untouched
  <2> QED BY <1>1, <1>2, <2>1, <2>2, <2>3, <2>4, MoveKeeps DEF Registered,
             Events!EventsConstants, EventsInv, EventsType, Untouched
<1>3. CASE Events!Again(t, "made") /\ UNCHANGED <<proxy, channel>>
  <2>1. \A p \in EventObjects : Same(p)
    BY <1>1, <1>3 DEF Same
  <2>2. PlaceTrue("made", o)' /\ PlaceTrue("obtain", o)'
    BY <1>1, <1>3 DEF PlaceTrue, Untouched, Agrees
  <2>3. \/ doing[t].tries + 1 < Retries /\ Moves(t, "obtain", doing[t].tries + 1)
        \/ Moves(t, "made", 0)
    BY <1>1, <1>3, MovesTo DEF EventsInv
  <2> QED BY <1>1, <1>3, <2>1, <2>2, <2>3, MoveKeeps DEF Registered, Events!EventsConstants,
             EventsInv, EventsType, Untouched
<1> QED BY <1>1, <1>2, <1>3 DEF Events!obtain_push_consumer

\* connect_push_supplier keeps the invariant: a reply lost by the last try leaves the object unsure.
LEMMA ConnectKeeps ==
    ASSUME Events!EventsConstants, EventsInv, NEW t \in EventThreads, Events!connect_push_supplier(t)
    PROVE  EventsInv'
<1>1. PICK o \in EventObjects : /\ doing[t].pc = "connect" /\ o = doing[t].of /\ doing[t].tries \in Nat
                                /\ disconnected[o] /\ channel[o] # "none" /\ doing[t].tries < Retries
                                /\ object[o] = "none"
                                /\ UNCHANGED <<registrations, domain, object, disconnected, proxy, telling, e_crossed, refused>>
  BY DEF Events!connect_push_supplier, EventsInv, EventsType, CallsTrue, Creating, Registered,
     PlacesTrue, PlaceTrue
<1>2. o \in proxy /\ (o \in telling => channel[o] = "gone")
  BY <1>1 DEF EventsInv, ReceiversTrue, ChannelOf
<1>3. ASSUME Events!Go(t, "reset"), channel[o] \in {"obtained", "connected"}, UNCHANGED <<e_lock, e_leaked, unsure>>,
             channel' = [channel EXCEPT ![o] = "connected"]
      PROVE  EventsInv'
  <2>1. Moves(t, "reset", 0)
    BY <1>3, MovesTo DEF EventsInv
  <2>2. channel'[o] = "connected" /\ channel' \in [EventObjects -> {"none", "obtained", "connected", "gone"}]
    BY <1>3 DEF EventsInv, EventsType
  <2>3. \A p \in EventObjects : p # o => Same(p)
    BY <1>1, <1>3 DEF Same, EventsInv, EventsType
  <2>4. PlaceTrue("reset", o)'
    BY <2>2 DEF PlaceTrue
  <2> QED BY <1>1, <1>2, <1>3, <2>1, <2>2, <2>3, <2>4, MoveKeeps DEF Registered, EventsInv,
             EventsType
<1>4. channel[o] = "connected" => channel = [channel EXCEPT ![o] = "connected"]
  BY DEF EventsInv, EventsType
<1>5. CASE Events!Raised(t) /\ UNCHANGED <<channel, unsure>>
  BY <1>1, <1>5, RaisedKeeps DEF Registered
<1>6. ASSUME channel[o] # "gone", channel' \in {channel, [channel EXCEPT ![o] = "connected"]}, Events!Again(t, "made"),
             unsure' = (IF doing[t].tries + 1 = Retries THEN unsure \cup {o} ELSE unsure), UNCHANGED <<e_lock, e_leaked>>
      PROVE  EventsInv'
  <2>1. channel'[o] # "none" /\ channel' \in [EventObjects -> {"none", "obtained", "connected", "gone"}]
    BY <1>1, <1>6 DEF EventsInv, EventsType
  <2>2. \A p \in EventObjects : p # o => Same(p)
    BY <1>1, <1>6 DEF Same, EventsInv, EventsType
  <2>3. PlaceTrue("connect", o)'
    BY <1>1, <2>1 DEF PlaceTrue
  <2>4. CASE doing[t].tries + 1 < Retries /\ Moves(t, "connect", doing[t].tries + 1)
    BY <1>1, <1>2, <1>6, <2>1, <2>2, <2>3, <2>4, MoveKeeps DEF Registered, EventsInv, EventsType
  <2>5. CASE ~(doing[t].tries + 1 < Retries) /\ Moves(t, "made", 0)
    <3>1. o \in unsure'
      BY <1>1, <1>6, <2>5 DEF Events!EventsConstants
    <3>2. PlaceTrue("made", o)'
      BY <3>1 DEF PlaceTrue, Agrees
    <3> QED BY <1>1, <1>2, <1>6, <2>1, <2>2, <2>5, <3>2, MoveKeeps DEF Registered, EventsInv,
               EventsType
  <2> QED BY <1>1, <1>6, <2>4, <2>5, MovesTo DEF EventsInv
<1> QED BY <1>1, <1>3, <1>4, <1>5, <1>6 DEF Events!connect_push_supplier, Events!AlreadyConnected

\* The receiver that counts itself as connected keeps the invariant, though the channel may have
\* gone away and said so before.
LEMMA EventResetKeeps ==
    ASSUME Events!EventsConstants, EventsInv, NEW t \in EventThreads, Events!reset(t)
    PROVE  EventsInv'
<1>1. PICK o \in EventObjects : /\ doing[t].pc = "reset" /\ o = doing[t].of /\ channel[o] \in {"connected", "gone"}
                                /\ object[o] = "none"
                                /\ UNCHANGED <<e_lock, registrations, domain, object, proxy, channel, telling, e_leaked, unsure, refused>>
                                /\ disconnected' = [disconnected EXCEPT ![o] = FALSE] /\ Events!Go(t, "made")
                                /\ e_crossed' = IF channel[o] = "gone" /\ o \notin telling THEN e_crossed \cup {o} ELSE e_crossed
  BY DEF Events!reset, EventsInv, EventsType, CallsTrue, Creating, Registered, PlacesTrue,
     PlaceTrue
<1>2. Moves(t, "made", 0)
  BY <1>1, MovesTo DEF EventsInv
<1>3. ~disconnected'[o] /\ disconnected' \in [EventObjects -> BOOLEAN]
  BY <1>1 DEF EventsInv, EventsType
<1>4. \A p \in EventObjects : p # o => Same(p)
  BY <1>1 DEF Same, EventsInv, EventsType
<1>5. PlaceTrue("made", o)'
  BY <1>1, <1>3 DEF PlaceTrue, Agrees
<1>6. (o \in telling => channel[o] = "gone") /\ (o \notin proxy => channel[o] = "none")
  BY <1>1 DEF EventsInv, ReceiversTrue, ChannelOf
<1> QED BY <1>1, <1>2, <1>3, <1>4, <1>5, <1>6, MoveKeeps DEF Registered, EventsInv, EventsType

\* An object that is made is on the manager's list, and knows whether it is connected.
LEMMA MadeKeeps ==
    ASSUME Events!EventsConstants, EventsInv, NEW t \in EventThreads, Events!Made(t)
    PROVE  EventsInv'
<1>1. PICK o \in EventObjects : /\ doing[t].pc = "made" /\ o = doing[t].of /\ object[o] = "none" /\ e_lock = t /\ o \in domain
                                /\ registrations' = registrations \cup {o} /\ object' = [object EXCEPT ![o] = "live"]
                                /\ Events!Leave(t) /\ Agrees(o)
                                /\ UNCHANGED <<domain, disconnected, proxy, channel, telling, e_leaked, unsure, e_crossed, refused>>
  BY DEF Events!Made, EventsInv, EventsType, CallsTrue, Creating, Registered, PlacesTrue,
     PlaceTrue, ListTrue
<1>2. /\ CallsTrue'
      /\ doing' \in [EventThreads -> [pc : {"idle"} \cup Creating \cup Ending, of : EventObjects \cup {None}, tries : Nat]]
      /\ \A u \in EventThreads : u # t => doing'[u] = doing[u]
      /\ doing'[t].pc = "idle" /\ doing'[t].of = None
  <2>1. doing' = [doing EXCEPT ![t] = Events!Free] /\ e_lock' = None /\ e_lock' # e_lock
    BY <1>1 DEF Events!Leave, Events!EventsConstants
  <2>2. \A p \in EventObjects : p # doing[t].of => object'[p] = object[p]
    BY <1>1 DEF EventsInv, EventsType
  <2> QED BY <1>1, <2>1, <2>2, CallLeaves DEF Creating, Registered
<1>3. EventsType'
  BY <1>1, <1>2 DEF EventsInv, EventsType
<1>4. ListTrue'
  <2>1. object'[o] = "live" /\ \A p \in registrations : object'[p] # "none"
    BY <1>1 DEF EventsInv, EventsType, ListTrue
  <2> QED BY <1>1, <1>2, <2>1 DEF EventsInv, ListTrue, Registered
<1>5. ChannelOf(o)'
  <2>1. object'[o] = "live"
    BY <1>1 DEF EventsInv, EventsType
  <2> QED BY <1>1, <2>1 DEF EventsInv, ReceiversTrue, ChannelOf, Agrees
<1>6. PlaceTrue(doing[t].pc, doing[t].of)'
  BY <1>2 DEF PlaceTrue
<1>7. \A p \in EventObjects : p # o => Same(p)
  BY <1>1 DEF Same, EventsInv, EventsType
<1> QED BY <1>1, <1>2, <1>3, <1>4, <1>5, <1>6, <1>7, Elsewhere DEF EventsInv

\* terminate keeps the invariant when it begins, with or without a manager to tell.
LEMMA TerminateKeeps ==
    ASSUME Events!EventsConstants, EventsInv, NEW t \in EventThreads, NEW o \in EventObjects, Events!terminate(t, o)
    PROVE  EventsInv'
<1> DEFINE new == [Events!Free EXCEPT !.of = o, !.pc = IF allow THEN "unregister" ELSE "disconnect"]
<1>0. new \in [pc : {"unregister", "disconnect"}, of : {o}, tries : {0}]
  BY DEF Events!Free
<1>1. /\ doing' = [doing EXCEPT ![t] = new]
      /\ doing[t].pc = "idle" /\ object[o] = "live" /\ \A u \in EventThreads : doing[u].of # o
      /\ UNCHANGED <<e_lock, registrations, domain, object, disconnected, proxy, channel, telling,
                     e_leaked, unsure, e_crossed, refused>>
  BY DEF Events!terminate
<1> HIDE DEF new
<1>2. /\ doing'[t] = new /\ doing'[t].pc \in {"unregister", "disconnect"} /\ doing'[t].of = o /\ doing'[t].tries = 0
      /\ \A u \in EventThreads : u # t => doing'[u] = doing[u]
  BY <1>0, <1>1 DEF EventsInv, EventsType
<1>3. doing[t].of = None /\ e_lock # t
  BY <1>1 DEF EventsInv, CallsTrue, Creating, Registered
<1>4. EventsType'
  BY <1>0, <1>1 DEF EventsInv, EventsType, Ending
<1>5. CallsTrue'
  BY <1>1, <1>2, <1>3 DEF EventsInv, EventsType, CallsTrue, Events!EventsConstants, Creating,
     Ending, Registered
<1>6. ListTrue'
  BY <1>1, <1>2 DEF EventsInv, ListTrue, Registered
<1>7. Agrees(o)
  BY <1>1 DEF EventsInv, ReceiversTrue, ChannelOf
<1>8. ReceiversTrue'
  <2> SUFFICES ASSUME NEW p \in EventObjects PROVE ChannelOf(p)'
    BY DEF ReceiversTrue
  <2>1. ChannelOf(p)
    BY DEF EventsInv, ReceiversTrue
  <2>2. (\A u \in EventThreads : doing'[u].of # p) => \A u \in EventThreads : doing[u].of # p
    BY <1>2, <1>3, p # None DEF Events!EventsConstants
  <2> QED BY <1>1, <2>1, <2>2 DEF ChannelOf, Untouched, Agrees
<1>9. PlacesTrue'
  BY <1>1, <1>2, <1>7 DEF EventsInv, PlacesTrue, PlaceTrue, Untouched, Agrees
<1> QED BY <1>4, <1>5, <1>6, <1>8, <1>9 DEF EventsInv

\* _unregister keeps the invariant: what the domain was not told is leaked.
LEMMA UnregisterKeeps ==
    ASSUME Events!EventsConstants, EventsInv, NEW t \in EventThreads, Events!_unregister(t)
    PROVE  EventsInv'
<1>1. PICK o \in EventObjects : /\ doing[t].pc = "unregister" /\ o = doing[t].of /\ e_lock = None /\ object[o] = "live"
                                /\ registrations' = registrations \ {o} /\ Events!Go(t, "disconnect") /\ Agrees(o)
                                /\ UNCHANGED <<e_lock, object, disconnected, proxy, channel, telling, unsure, e_crossed, refused>>
                                /\ \/ domain' = (IF o \in registrations THEN domain \ {o} ELSE domain) /\ UNCHANGED e_leaked
                                   \/ o \in registrations /\ e_leaked' = e_leaked \cup {o} /\ UNCHANGED domain
  BY DEF Events!_unregister, Events!Removed, EventsInv, EventsType, CallsTrue, Ending,
     PlacesTrue, PlaceTrue
<1>2. Moves(t, "disconnect", 0)
  BY <1>1, MovesTo DEF EventsInv
<1>3. /\ CallsTrue'
      /\ doing' \in [EventThreads -> [pc : {"idle"} \cup Creating \cup Ending, of : EventObjects \cup {None}, tries : Nat]]
      /\ \A u \in EventThreads : doing'[u].of = doing[u].of /\ (u # t => doing'[u] = doing[u])
      /\ doing'[t].pc = "disconnect"
  BY <1>1, <1>2, CallMoves DEF Ending, Events!EventsConstants
<1>4. EventsType'
  BY <1>1, <1>3 DEF EventsInv, EventsType
<1>5. ListTrue'
  <2>1. \A u \in EventThreads : doing[u].pc \notin Registered /\ doing'[u].pc \notin Registered
    BY <1>1, <1>3 DEF EventsInv, CallsTrue, Creating, Registered, Events!EventsConstants
  <2> QED BY <1>1, <2>1 DEF EventsInv, ListTrue
<1>6. ChannelOf(o)'
  BY <1>1, <1>3 DEF EventsInv, ReceiversTrue, ChannelOf
<1>7. PlaceTrue(doing[t].pc, doing[t].of)'
  BY <1>1, <1>3 DEF PlaceTrue, Agrees
<1>8. \A p \in EventObjects : p # o => Same(p)
  BY <1>1 DEF Same
<1> QED BY <1>1, <1>3, <1>4, <1>5, <1>6, <1>7, <1>8, Elsewhere DEF EventsInv

\* disconnect_push_consumer keeps the invariant, whatever its tries and their replies come to.
LEMMA DisconnectKeeps ==
    ASSUME Events!EventsConstants, EventsInv, NEW t \in EventThreads, Events!disconnect_push_consumer(t)
    PROVE  EventsInv'
<1>1. PICK o \in EventObjects : /\ doing[t].pc = "disconnect" /\ o = doing[t].of /\ object[o] = "live" /\ Agrees(o)
                                /\ doing[t].tries \in Nat /\ doing[t].tries < Retries
                                /\ UNCHANGED <<e_lock, registrations, domain, object, disconnected, proxy, e_leaked, e_crossed>>
  BY DEF Events!disconnect_push_consumer, EventsInv, EventsType, CallsTrue, Ending, PlacesTrue,
     PlaceTrue
<1>2. (o \in telling => channel[o] = "gone") /\ (o \notin proxy => channel[o] = "none")
  BY <1>1 DEF EventsInv, ReceiversTrue, ChannelOf
<1>3. CASE ~Events!Leaves(o) /\ Events!Go(t, "finish") /\ UNCHANGED <<channel, telling, unsure, refused>>
  <2>1. Moves(t, "finish", 0)
    BY <1>3, MovesTo DEF EventsInv
  <2>2. \A p \in EventObjects : Same(p)
    BY <1>1, <1>3 DEF Same
  <2>3. PlaceTrue("finish", o)'
    BY <1>2, <1>3 DEF PlaceTrue, Events!Leaves
  <2> QED BY <1>1, <1>2, <1>3, <2>1, <2>2, <2>3, MoveKeeps DEF Ending, EventsInv, EventsType
<1>4. CASE /\ Events!Leaves(o) /\ channel' = [channel EXCEPT ![o] = "gone"] /\ telling' \in {telling, telling \cup {o}}
           /\ Events!Go(t, "wait") /\ UNCHANGED <<unsure, refused>>
  <2>1. Moves(t, "wait", 0)
    BY <1>4, MovesTo DEF EventsInv
  <2>2. channel'[o] = "gone" /\ channel' \in [EventObjects -> {"none", "obtained", "connected", "gone"}]
    BY <1>4 DEF EventsInv, EventsType
  <2>3. \A p \in EventObjects : p # o => Same(p)
    BY <1>1, <1>4 DEF Same, EventsInv, EventsType
  <2>4. PlaceTrue("wait", o)'
    BY <2>2 DEF PlaceTrue
  <2>5. telling' \subseteq EventObjects
    BY <1>4 DEF EventsInv, EventsType
  <2> QED BY <1>1, <1>4, <2>1, <2>2, <2>3, <2>4, <2>5, MoveKeeps DEF Ending, Events!Leaves,
             EventsInv, EventsType
<1>5. CASE doing' = [doing EXCEPT ![t] = Events!Free] /\ UNCHANGED <<channel, telling, unsure, refused>>
  <2>1. /\ CallsTrue'
        /\ doing' \in [EventThreads -> [pc : {"idle"} \cup Creating \cup Ending, of : EventObjects \cup {None}, tries : Nat]]
        /\ \A u \in EventThreads : u # t => doing'[u] = doing[u]
        /\ doing'[t].pc = "idle" /\ doing'[t].of = None
    BY <1>1, <1>5, CallLeaves DEF Creating, Registered
  <2>2. EventsType'
    BY <1>1, <1>5, <2>1 DEF EventsInv, EventsType
  <2>3. ListTrue'
    BY <1>1, <1>5, <2>1 DEF EventsInv, ListTrue, Registered
  <2>4. ChannelOf(o)'
    BY <1>1, <1>5 DEF EventsInv, ReceiversTrue, ChannelOf, Agrees
  <2>5. PlaceTrue(doing[t].pc, doing[t].of)'
    BY <2>1 DEF PlaceTrue
  <2>6. \A p \in EventObjects : Same(p)
    BY <1>1, <1>5 DEF Same
  <2> QED BY <1>1, <2>1, <2>2, <2>3, <2>4, <2>5, <2>6, Elsewhere DEF EventsInv
<1>6. ASSUME Events!Leaves(o), channel[o] # "gone", UNCHANGED telling, Events!Again(t, "wait"),
             \/ UNCHANGED <<channel, unsure>>
             \/ channel' = [channel EXCEPT ![o] = "gone"] /\ unsure' = unsure \cup {o},
             refused' = (IF doing[t].tries + 1 = Retries THEN refused \cup {o} ELSE refused)
      PROVE  EventsInv'
  <2>1. channel' \in [EventObjects -> {"none", "obtained", "connected", "gone"}]
    BY <1>6 DEF EventsInv, EventsType
  <2>2. \A p \in EventObjects : p # o => Same(p)
    BY <1>1, <1>6 DEF Same, EventsInv, EventsType
  <2>3. o \notin telling' /\ o \in proxy'
    BY <1>1, <1>2, <1>6 DEF Events!Leaves
  <2>4. PlaceTrue("disconnect", o)'
    BY <1>1, <1>6 DEF PlaceTrue, Agrees
  <2>5. CASE doing[t].tries + 1 < Retries /\ Moves(t, "disconnect", doing[t].tries + 1)
    BY <1>1, <1>6, <2>1, <2>2, <2>3, <2>4, <2>5, MoveKeeps DEF Ending, EventsInv, EventsType
  <2>6. CASE ~(doing[t].tries + 1 < Retries) /\ Moves(t, "wait", 0)
    <3>1. o \in refused'
      BY <1>1, <1>6, <2>6 DEF Events!EventsConstants
    <3>2. PlaceTrue("wait", o)'
      BY <3>1 DEF PlaceTrue
    <3> QED BY <1>1, <1>6, <2>1, <2>2, <2>3, <2>6, <3>2, MoveKeeps DEF Ending, EventsInv,
               EventsType
  <2> QED BY <1>1, <1>6, <2>5, <2>6, MovesTo DEF EventsInv
<1> QED BY <1>1, <1>3, <1>4, <1>5, <1>6 DEF Events!disconnect_push_consumer

\* The wait for the channel's answer keeps the invariant.
LEMMA WaitKeeps ==
    ASSUME Events!EventsConstants, EventsInv, NEW t \in EventThreads, Events!wait_for_disconnect(t)
    PROVE  EventsInv'
<1>1. PICK o \in EventObjects : /\ doing[t].pc = "wait" /\ o = doing[t].of /\ object[o] = "live"
                                /\ doing[t].tries \in Nat /\ PlaceTrue("wait", o)
                                /\ UNCHANGED <<e_lock, registrations, domain, object, disconnected, proxy, channel, telling,
                                               e_leaked, unsure, e_crossed, refused>>
  BY DEF Events!wait_for_disconnect, EventsInv, EventsType, CallsTrue, Ending, PlacesTrue
<1>2. (o \in telling => channel[o] = "gone") /\ (o \notin proxy => channel[o] = "none")
  BY <1>1 DEF EventsInv, ReceiversTrue, ChannelOf
<1>3. PlaceTrue("wait", o)' /\ PlaceTrue("finish", o)'
  BY <1>1 DEF PlaceTrue
<1>4. \A p \in EventObjects : Same(p)
  BY <1>1 DEF Same
<1>5. CASE Events!Go(t, "finish")
  <2>1. Moves(t, "finish", 0)
    BY <1>5, MovesTo DEF EventsInv
  <2> QED BY <1>1, <1>2, <1>3, <1>4, <2>1, MoveKeeps DEF Ending, EventsInv, EventsType
<1>6. CASE doing' = [doing EXCEPT ![t].tries = @ + 1]
  <2>1. Moves(t, "wait", doing[t].tries + 1)
    BY <1>1, <1>6, MovesTo DEF EventsInv
  <2> QED BY <1>1, <1>2, <1>3, <1>4, <2>1, MoveKeeps DEF Ending, EventsInv, EventsType
<1> QED BY <1>5, <1>6 DEF Events!wait_for_disconnect

\* The end of terminate keeps the invariant: the object is gone and so is its connection.
LEMMA FinishKeeps ==
    ASSUME Events!EventsConstants, EventsInv, NEW t \in EventThreads, Events!Finish(t)
    PROVE  EventsInv'
<1>1. PICK o \in EventObjects : /\ doing[t].pc = "finish" /\ o = doing[t].of /\ object[o] = "live"
                                /\ channel[o] # "connected" \/ o \in refused
                                /\ object' = [object EXCEPT ![o] = "gone"] /\ proxy' = proxy \ {o}
                                /\ doing' = [doing EXCEPT ![t] = Events!Free]
                                /\ UNCHANGED <<e_lock, registrations, domain, disconnected, channel, telling, e_leaked,
                                               unsure, e_crossed, refused>>
  BY DEF Events!Finish, EventsInv, EventsType, CallsTrue, Ending, PlacesTrue, PlaceTrue
<1>2. object'[o] = "gone" /\ \A p \in EventObjects : p # o => object'[p] = object[p]
  BY <1>1 DEF EventsInv, EventsType
<1>3. /\ CallsTrue'
      /\ doing' \in [EventThreads -> [pc : {"idle"} \cup Creating \cup Ending, of : EventObjects \cup {None}, tries : Nat]]
      /\ \A u \in EventThreads : u # t => doing'[u] = doing[u]
      /\ doing'[t].pc = "idle" /\ doing'[t].of = None
  BY <1>1, <1>2, CallLeaves DEF Creating, Registered
<1>4. EventsType'
  BY <1>1, <1>3 DEF EventsInv, EventsType
<1>5. ListTrue'
  BY <1>1, <1>2, <1>3 DEF EventsInv, EventsType, ListTrue, Registered
<1>6. ChannelOf(o)'
  BY <1>1, <1>2 DEF EventsInv, ReceiversTrue, ChannelOf
<1>7. PlaceTrue(doing[t].pc, doing[t].of)'
  BY <1>3 DEF PlaceTrue
<1>8. \A p \in EventObjects : p # o => Same(p)
  BY <1>1, <1>2 DEF Same
<1> QED BY <1>1, <1>3, <1>4, <1>5, <1>6, <1>7, <1>8, Elsewhere DEF EventsInv

\* Manager.Terminate keeps the invariant: the list is empty, what failed is leaked.
LEMMA ManagerTerminateKeeps ==
    ASSUME Events!EventsConstants, EventsInv, NEW t \in EventThreads, Events!_terminate(t)
    PROVE  EventsInv'
<1>1. PICK failed \in SUBSET registrations : e_leaked' = e_leaked \cup failed /\ domain' = domain \ (registrations \ failed)
  BY DEF Events!_terminate
<1>2. /\ e_lock = None /\ registrations' = {}
      /\ UNCHANGED <<e_lock, object, disconnected, proxy, channel, telling, doing, unsure, e_crossed, refused>>
  BY DEF Events!_terminate
<1>3. \A u \in EventThreads : doing[u].pc \notin Creating
  BY <1>2 DEF EventsInv, CallsTrue, Events!EventsConstants
<1>4. EventsType' /\ CallsTrue'
  BY <1>2 DEF EventsInv, EventsType, CallsTrue
<1>5. ListTrue'
  BY <1>1, <1>2, <1>3 DEF EventsInv, ListTrue, Creating
<1>6. ReceiversTrue'
  <2> SUFFICES ASSUME NEW o \in EventObjects PROVE ChannelOf(o)'
    BY DEF ReceiversTrue
  <2>1. ChannelOf(o)
    BY DEF EventsInv, ReceiversTrue
  <2>2. o \in registrations => object[o] # "none"
    BY DEF EventsInv, ListTrue
  <2> QED BY <1>1, <1>2, <2>1, <2>2 DEF ChannelOf, Untouched, Agrees
<1>7. PlacesTrue'
  BY <1>2 DEF EventsInv, PlacesTrue, PlaceTrue, Untouched, Agrees
<1> QED BY <1>4, <1>5, <1>6, <1>7 DEF EventsInv

\* What the channel does to one object keeps the invariant if the object knows no less than before.
LEMMA ChannelMoves ==
    ASSUME Events!EventsConstants, EventsInv, NEW o \in EventObjects,
           UNCHANGED <<e_lock, registrations, domain, object, proxy, doing, e_leaked, unsure, e_crossed, refused>>,
           EventsType', \A p \in EventObjects : p # o => Same(p),
           o \in telling' => channel'[o] = "gone", channel[o] = "none" => Same(o),
           channel[o] # "none" => channel'[o] # "none",
           channel'[o] = "connected" => channel[o] = "connected",
           channel[o] \in {"connected", "gone"} => channel'[o] \in {"connected", "gone"},
           disconnected[o] => disconnected'[o],
           Agrees(o) => Agrees(o)'
    PROVE  EventsInv'
<1>1. CallsTrue' /\ ListTrue'
  BY DEF EventsInv, CallsTrue, ListTrue
<1>2. \A p \in EventObjects : (Untouched(p) => Untouched(p)') /\ (Agrees(p) => Agrees(p)')
  BY DEF Same, Untouched, Agrees
<1>3. ReceiversTrue'
  <2> SUFFICES ASSUME NEW p \in EventObjects PROVE ChannelOf(p)'
    BY DEF ReceiversTrue
  <2>1. ChannelOf(p)
    BY DEF EventsInv, ReceiversTrue
  <2>2. (p \in telling' => channel'[p] = "gone") /\ (channel[p] = "none" => channel'[p] = "none")
    BY <2>1 DEF ChannelOf, Same
  <2>3. channel'[p] = "connected" => channel[p] = "connected"
    BY DEF Same
  <2> QED BY <1>2, <2>1, <2>2, <2>3 DEF ChannelOf
<1>4. PlacesTrue'
  <2> SUFFICES ASSUME NEW u \in EventThreads PROVE PlaceTrue(doing[u].pc, doing[u].of)'
    BY DEF PlacesTrue
  <2>1. CASE doing[u].of = None
    <3>1. doing[u].pc = "idle"
      BY <2>1 DEF EventsInv, EventsType, CallsTrue, Events!EventsConstants
    <3> QED BY <3>1 DEF PlaceTrue
  <2>2. CASE doing[u].of # None
    <3>1. PICK p \in EventObjects : p = doing[u].of
      BY <2>2 DEF EventsInv, EventsType
    <3>2. PlaceTrue(doing[u].pc, p)
      BY <3>1 DEF EventsInv, PlacesTrue
    <3>3. /\ channel[p] # "none" => channel'[p] # "none"
          /\ channel'[p] = "connected" => channel[p] = "connected"
          /\ channel[p] \in {"connected", "gone"} => channel'[p] \in {"connected", "gone"}
          /\ disconnected[p] => disconnected'[p]
      BY DEF Same
    <3>4. PlaceTrue(doing[u].pc, p)'
      BY <1>2, <3>2, <3>3 DEF PlaceTrue
    <3> QED BY <3>1, <3>4
  <2> QED BY <2>1, <2>2
<1> QED BY <1>1, <1>3, <1>4 DEF EventsInv

\* A channel that goes away keeps the invariant: it is about to tell those connected.
LEMMA DestroyedKeeps ==
    ASSUME Events!EventsConstants, EventsInv, NEW o \in EventObjects, Events!Destroyed(o)
    PROVE  EventsInv'
<1>1. /\ channel[o] \in {"obtained", "connected"} /\ channel' = [channel EXCEPT ![o] = "gone"]
      /\ telling' = IF channel[o] = "connected" THEN telling \cup {o} ELSE telling
      /\ UNCHANGED <<e_lock, registrations, domain, object, disconnected, proxy, doing, e_leaked, unsure, e_crossed, refused>>
  BY DEF Events!Destroyed
<1>2. channel'[o] = "gone" /\ \A p \in EventObjects : p # o => channel'[p] = channel[p]
  BY <1>1 DEF EventsInv, EventsType
<1>3. EventsType'
  BY <1>1 DEF EventsInv, EventsType
<1>4. \A p \in EventObjects : p # o => Same(p)
  BY <1>1, <1>2 DEF Same
<1>5. Agrees(o) => Agrees(o)'
  BY <1>1, <1>2 DEF Agrees
<1> QED BY <1>1, <1>2, <1>3, <1>4, <1>5, ChannelMoves

\* A receiver that is told keeps the invariant.
LEMMA ToldKeeps ==
    ASSUME Events!EventsConstants, EventsInv, NEW o \in EventObjects, Events!disconnect_push_supplier(o)
    PROVE  EventsInv'
<1>1. /\ channel[o] = "gone" /\ telling' = telling \ {o} /\ disconnected' = [disconnected EXCEPT ![o] = TRUE]
      /\ UNCHANGED <<e_lock, registrations, domain, object, proxy, channel, doing, e_leaked, unsure, e_crossed, refused>>
  BY DEF Events!disconnect_push_supplier, EventsInv, ReceiversTrue, ChannelOf
<1>2. disconnected'[o] /\ \A p \in EventObjects : p # o => disconnected'[p] = disconnected[p]
  BY <1>1 DEF EventsInv, EventsType
<1>3. EventsType'
  BY <1>1 DEF EventsInv, EventsType
<1>4. \A p \in EventObjects : p # o => Same(p)
  BY <1>1, <1>2 DEF Same
<1>5. Agrees(o)'
  BY <1>1, <1>2 DEF Agrees
<1> QED BY <1>1, <1>2, <1>3, <1>4, <1>5, ChannelMoves

\* Steps of other parts keep the invariant of the event manager.
LEMMA EventsIdle ==
    ASSUME EventsInv, UNCHANGED Events!evars
    PROVE  EventsInv'
<1>1. EventsType' /\ CallsTrue' /\ ListTrue'
  BY DEF EventsInv, Events!evars, EventsType, CallsTrue, ListTrue
<1>2. ReceiversTrue' /\ PlacesTrue'
  BY DEF EventsInv, Events!evars, ReceiversTrue, ChannelOf, PlacesTrue, PlaceTrue, Untouched,
     Agrees
<1> QED BY <1>1, <1>2 DEF EventsInv

\* Every step of the event manager, its objects and the channel keeps the invariant.
LEMMA EventsStep ==
    ASSUME Events!EventsConstants, EventsInv, Events!Next
    PROVE  EventsInv'
<1>1. ASSUME NEW t \in EventThreads, Events!Step(t) PROVE EventsInv'
  BY <1>1, EventRegisterKeeps, SuppliersKeep, ObtainKeeps, ConnectKeeps, EventResetKeeps,
     MadeKeeps, UnregisterKeeps,
     DisconnectKeeps, WaitKeeps, FinishKeeps DEF Events!Step
<1>2. ASSUME NEW t \in EventThreads, Events!_terminate(t) PROVE EventsInv'
  BY <1>2, ManagerTerminateKeeps
<1>3. ASSUME NEW t \in EventThreads, NEW o \in EventObjects, Events!Create(t, o) \/ Events!terminate(t, o) PROVE EventsInv'
  BY <1>3, EventCreateKeeps, TerminateKeeps
<1>4. ASSUME NEW o \in EventObjects, Events!Destroyed(o) \/ Events!disconnect_push_supplier(o) PROVE EventsInv'
  BY <1>4, DestroyedKeeps, ToldKeeps
<1> QED BY <1>1, <1>2, <1>3, <1>4 DEF Events!Next

\* The invariant is enough for what the manager and its objects know.
LEMMA EventsKnown ==
    ASSUME Events!EventsConstants, EventsInv
    PROVE  Events!RegistrationsKnown /\ Events!ConnectedTrue /\ Events!ChannelLeft
<1>1. Events!RegistrationsKnown
  BY DEF EventsInv, ListTrue, CallsTrue, Events!RegistrationsKnown, Events!EventsConstants,
     Creating
<1>2. Events!ConnectedTrue /\ Events!ChannelLeft
  BY DEF EventsInv, ReceiversTrue, ChannelOf, Agrees, Events!ConnectedTrue, Events!ChannelLeft
<1> QED BY <1>1, <1>2

----------------------------------------------------------------------------
(* Messages (PyMessages).                                                  *)

Large(m) == Size[m] > Limit

Sendings == [pc : {"whole", "each", "return"}, batch : Batches, next : Nat, steady : SUBSET Connections,
             got : [Connections -> Seq(DOMAIN Size)], again : BOOLEAN]

\* the first n messages of b, none of them large
Begun(list, n, g) == g = SubSeq(list, 1, n) /\ \A i \in 1..n : ~Large(list[i])

\* the first n messages, after what came of the first attempt
Twice(list, n, g) == \E first \in 0..Len(list) : g = SubSeq(list, 1, first) \o SubSeq(list, 1, n)

\* what a consumer may have got when the call returns
Whole(k, c) ==
    IF c \notin Local THEN k.got[c] = Msgs!Carried(k.batch)
    ELSE \/ k.got[c] = k.batch
         \/ k.again /\ \E first, rest \in 0..Len(k.batch) :
               k.got[c] = SubSeq(k.batch, 1, first) \o SubSeq(k.batch, 1, rest)

\* what a consumer has got
Has(k, c) ==
    /\ k.pc = "whole" => k.got[c] = <<>>
    /\ k.pc = "each" => IF c \notin Local THEN Begun(k.batch, k.next - 1, k.got[c])
                        ELSE Twice(k.batch, k.next - 1, k.got[c])
    /\ k.pc = "return" => Whole(k, c)

Way(k) == /\ k \in Sendings /\ (k.pc = "each" => k.next \in 1..Len(k.batch) /\ k.again)
          /\ \A c \in k.steady : Has(k, c)

MessagesInv ==
    /\ connected \subseteq Connections
    /\ DOMAIN m_call = Senders /\ \A s \in Senders : m_call[s] # None => Way(m_call[s]) /\ m_call[s].steady \subseteq connected

\* A list without large messages is carried whole.
LEMMA CarriedAll ==
    ASSUME NEW list, \A i \in DOMAIN list : ~Large(list[i])
    PROVE  Msgs!Carried(list) = list
BY DEF Msgs!Carried, Large

\* Of a list with a large message what comes before the first is carried.
LEMMA CarriedUpTo ==
    ASSUME NEW M, NEW list \in Seq(M), NEW i \in 1..Len(list), Large(list[i]), \A j \in 1..i - 1 : ~Large(list[j])
    PROVE  Msgs!Carried(list) = SubSeq(list, 1, i - 1)
<1> DEFINE large == {j \in DOMAIN list : Size[list[j]] > Limit}
           first == CHOOSE j \in large : \A l \in large : j <= l
<1>1. i \in large /\ large \subseteq 1..Len(list) /\ \A l \in large : i <= l
  BY DEF Large
<1>2. first = i
  BY <1>1
<1> QED BY <1>1, <1>2 DEF Msgs!Carried

\* One more message sent continues what was sent so far.
LEMMA OneMore ==
    ASSUME NEW M, NEW list \in Seq(M), NEW i \in 1..Len(list), NEW g
    PROVE  /\ Begun(list, i - 1, g) /\ ~Large(list[i]) => Begun(list, i, g \o <<list[i]>>)
           /\ Twice(list, i - 1, g) => Twice(list, i, g \o <<list[i]>>)
<1>1. SubSeq(list, 1, i) = SubSeq(list, 1, i - 1) \o <<list[i]>>
  BY SubSeqRecursiveSecond
<1>2. \A j \in 1..i : j \in 1..i - 1 \/ j = i
  OBVIOUS
<1>3. ASSUME NEW first \in 0..Len(list)
      PROVE  (SubSeq(list, 1, first) \o SubSeq(list, 1, i - 1)) \o <<list[i]>> = SubSeq(list, 1, first) \o SubSeq(list, 1, i)
  <2>1. \A n \in 0..Len(list) : SubSeq(list, 1, n) \in Seq(M)
    OBVIOUS
  <2>2. SubSeq(list, 1, first) \in Seq(M) /\ SubSeq(list, 1, i - 1) \in Seq(M) /\ <<list[i]>> \in Seq(M)
    BY <2>1
  <2> QED BY <1>1, <2>2, ConcatAssociative
<1>4. Begun(list, i - 1, g) /\ ~Large(list[i]) => Begun(list, i, g \o <<list[i]>>)
  BY <1>1, <1>2 DEF Begun
<1>5. ASSUME Twice(list, i - 1, g)
      PROVE  Twice(list, i, g \o <<list[i]>>)
  <2>1. PICK first \in 0..Len(list) : g = SubSeq(list, 1, first) \o SubSeq(list, 1, i - 1)
    BY <1>5 DEF Twice
  <2>2. g \o <<list[i]>> = SubSeq(list, 1, first) \o SubSeq(list, 1, i)
    BY <1>3, <2>1
  <2> QED BY <2>1, <2>2, Zenon DEF Twice
<1> QED BY <1>4, <1>5

\* What a local consumer has is two beginnings of the list.
LEMMA TwiceIs ==
    ASSUME NEW list, NEW n \in 0..Len(list), NEW g, Twice(list, n, g)
    PROVE  \E first, rest \in 0..Len(list) : g = SubSeq(list, 1, first) \o SubSeq(list, 1, rest)
BY Zenon DEF Twice

\* When all messages were sent one by one the list was carried.
LEMMA AllSent ==
    ASSUME NEW M, NEW list \in Seq(M), NEW g, Begun(list, Len(list), g)
    PROVE  g = Msgs!Carried(list)
<1>1. g = list /\ \A i \in DOMAIN list : ~Large(list[i])
  BY DEF Begun
<1> QED BY <1>1, CarriedAll

\* connectPort keeps the invariant: a call does not count a connection made after it began.
LEMMA ConnectPortKeeps ==
    ASSUME MessagesInv, NEW c \in Connections, NEW answer, Msgs!connectPort(c, answer)
    PROVE  MessagesInv'
<1>1. m_call' = m_call /\ connected \subseteq connected' /\ connected' \subseteq Connections
  BY DEF MessagesInv, Msgs!connectPort
<1> QED BY <1>1 DEF MessagesInv

\* What a consumer has depends on the call's place and what it sent, not on who is still connected.
LEMMA HasIsOf ==
    ASSUME NEW k, NEW m, NEW c, m.pc = k.pc, m.batch = k.batch, m.next = k.next, m.got = k.got, m.again = k.again,
           Has(k, c)
    PROVE  Has(m, c)
BY Zenon DEF Has, Whole

\* disconnectPort keeps the invariant: calls under way stop counting the connection.
LEMMA DisconnectPortKeeps ==
    ASSUME MessagesInv, NEW c \in Connections, NEW answer, Msgs!disconnectPort(c, answer)
    PROVE  MessagesInv'
<1>1. CASE UNCHANGED <<connected, m_call>>
  BY <1>1 DEF MessagesInv
<1>2. CASE connected' = connected \ {c} /\ m_call' = Msgs!Unsteady(c)
  <2>1. connected' \subseteq Connections /\ DOMAIN m_call' = Senders
    BY <1>2 DEF MessagesInv, Msgs!Unsteady
  <2>2. ASSUME NEW s \in Senders, m_call'[s] # None
        PROVE  Way(m_call'[s]) /\ m_call'[s].steady \subseteq connected'
    <3>1. m_call[s] # None /\ m_call'[s] = [m_call[s] EXCEPT !.steady = @ \ {c}]
      BY <1>2, <2>2 DEF Msgs!Unsteady
    <3>2. m_call[s] \in Sendings /\ m_call[s].steady \subseteq connected /\ \A d \in m_call[s].steady : Has(m_call[s], d)
      BY <3>1 DEF MessagesInv, Way
    <3>3. /\ m_call'[s] \in Sendings /\ m_call'[s].steady = m_call[s].steady \ {c}
          /\ m_call'[s].pc = m_call[s].pc /\ m_call'[s].batch = m_call[s].batch /\ m_call'[s].next = m_call[s].next
          /\ m_call'[s].got = m_call[s].got /\ m_call'[s].again = m_call[s].again
      BY <3>1, <3>2 DEF Sendings
    <3>4. \A d \in m_call'[s].steady : Has(m_call'[s], d)
      BY <3>2, <3>3, HasIsOf
    <3>5. m_call[s].pc = "each" => m_call[s].next \in 1..Len(m_call[s].batch) /\ m_call[s].again
      BY <3>1 DEF MessagesInv, Way
    <3> QED BY <1>2, <3>2, <3>3, <3>4, <3>5 DEF Way
  <2> QED BY <2>1, <2>2 DEF MessagesInv
<1> QED BY <1>1, <1>2 DEF Msgs!disconnectPort

\* A step of one sender keeps the invariant if it leaves that sender's call right.
LEMMA CallChanges ==
    ASSUME MessagesInv, NEW s \in Senders, NEW k, m_call' = [m_call EXCEPT ![s] = k], UNCHANGED connected,
           k # None => Way(k) /\ k.steady \subseteq connected
    PROVE  MessagesInv'
BY DEF MessagesInv

\* sendMessages keeps the invariant when it begins.
LEMMA SendKeeps ==
    ASSUME MessagesInv, NEW s \in Senders, NEW list \in Batches, Msgs!sendMessages(s, list)
    PROVE  MessagesInv'
<1> DEFINE k == [pc |-> "whole", batch |-> list, next |-> 1, steady |-> connected,
                 got |-> [c \in Connections |-> <<>>], again |-> FALSE]
<1>1. k \in Sendings
  BY DEF Sendings, MessagesInv
<1>2. k.steady \subseteq connected /\ \A c \in k.steady : Has(k, c)
  BY DEF Has, MessagesInv
<1> QED BY <1>1, <1>2, CallChanges DEF Way, Msgs!sendMessages

\* A push reaches the connections it reaches and leaves the others.
LEMMA GotOf ==
    ASSUME NEW s \in Senders, NEW msgs \in Seq(DOMAIN Size), NEW R \in SUBSET Connections, m_call[s] \in Sendings
    PROVE  /\ Msgs!Got(s, msgs, R) \in [Connections -> Seq(DOMAIN Size)]
           /\ \A c \in Connections :
                 Msgs!Got(s, msgs, R)[c] = IF c \in R THEN m_call[s].got[c] \o msgs ELSE m_call[s].got[c]
<1>1. m_call[s].got \in [Connections -> Seq(DOMAIN Size)]
  BY DEF Sendings
<1>2. \A c \in Connections : m_call[s].got[c] \in Seq(DOMAIN Size) /\ m_call[s].got[c] \o msgs \in Seq(DOMAIN Size)
  BY <1>1, ConcatProperties
<1> QED BY <1>2 DEF Msgs!Got

\* The attempt to send the whole list keeps the invariant: if it is refused, nobody remote has got
\* anything, and local consumers all of it or nothing.
LEMMA WholeKeeps ==
    ASSUME Msgs!MessagesConstants, MessagesInv, NEW s \in Senders, Msgs!sendWhole(s)
    PROVE  MessagesInv'
<1>1. PICK list \in Batches : list = m_call[s].batch
  BY DEF Msgs!sendWhole, MessagesInv, Way, Sendings
<1>2. PICK R \in Msgs!Reached(list), declined \in Msgs!Refusals(list) :
          m_call' = [m_call EXCEPT ![s].pc = IF declined /\ Len(list) > 1 THEN "each" ELSE "return",
                                   ![s].next = 1, ![s].again = declined,
                                   ![s].steady = Msgs!Steady(s, R, declined), ![s].got = Msgs!Got(s, list, R)]
  <2>1. \E R \in Msgs!Reached(m_call[s].batch), refuse \in Msgs!Refusals(m_call[s].batch) :
          m_call' = [m_call EXCEPT ![s].pc = IF refuse /\ Len(m_call[s].batch) > 1 THEN "each" ELSE "return",
                                   ![s].next = 1, ![s].again = refuse,
                                   ![s].steady = Msgs!Steady(s, R, refuse),
                                   ![s].got = Msgs!Got(s, m_call[s].batch, R)]
    BY Zenon DEF Msgs!sendWhole, Msgs!Resend
  <2> QED BY <1>1, <2>1, Zenon
<1> DEFINE steady == Msgs!Steady(s, R, declined)
           k == [m_call[s] EXCEPT !.pc = IF declined /\ Len(list) > 1 THEN "each" ELSE "return", !.next = 1,
                                  !.again = declined, !.steady = steady, !.got = Msgs!Got(s, list, R)]
<1>3. /\ m_call[s] \in Sendings /\ m_call[s].steady \subseteq connected /\ connected \subseteq Connections
      /\ \A c \in m_call[s].steady : m_call[s].got[c] = <<>>
      /\ UNCHANGED connected
  BY DEF Msgs!sendWhole, MessagesInv, Way, Has
<1>4. R \in SUBSET Connections /\ list \in Seq(DOMAIN Size)
  BY <1>3 DEF Msgs!Reached, Msgs!MessagesConstants
<1>5. /\ declined \in BOOLEAN /\ (declined => \E c \in connected : Msgs!Refused(list, c))
      /\ steady \subseteq m_call[s].steady /\ (~declined => steady \subseteq R)
  BY DEF Msgs!Refusals, Msgs!Steady
<1> HIDE DEF steady
<1>6. /\ Msgs!Got(s, list, R) \in [Connections -> Seq(DOMAIN Size)]
       /\ \A c \in Connections : Msgs!Got(s, list, R)[c] = IF c \in R THEN m_call[s].got[c] \o list ELSE m_call[s].got[c]
  <2>1. m_call[s] \in Sendings /\ R \in SUBSET Connections /\ list \in Seq(DOMAIN Size)
    BY <1>3, <1>4
  <2> QED BY ONLY <2>1, s \in Senders, GotOf
<1>7. /\ k \in Sendings /\ k.steady = steady /\ k.batch = list /\ k.next = 1 /\ k.again = declined
      /\ k.got = Msgs!Got(s, list, R) /\ k.pc = IF declined /\ Len(list) > 1 THEN "each" ELSE "return"
  BY <1>1, <1>3, <1>4, <1>5, <1>6 DEF Sendings
<1>8. m_call' = [m_call EXCEPT ![s] = k]
  BY <1>2 DEF MessagesInv, steady
<1> HIDE DEF k
<1>9. ASSUME NEW c \in steady PROVE Has(k, c)
  <2>1. c \in Connections /\ c \in connected /\ m_call[s].got[c] = <<>>
    BY <1>3, <1>5, <1>9
  <2>2. k.got[c] = IF c \in R THEN list ELSE <<>>
    <3>1. <<>> \o list = list
      BY <1>4
    <3>2. k.got[c] = IF c \in R THEN m_call[s].got[c] \o list ELSE m_call[s].got[c]
      <4>1. Msgs!Got(s, list, R)[c] = IF c \in R THEN m_call[s].got[c] \o list ELSE m_call[s].got[c]
        BY <2>1, <1>6
      <4> QED BY <1>7, <4>1
    <3> QED BY <2>1, <3>1, <3>2
  <2>3. CASE ~declined
    <3>1. c \in R /\ ~Msgs!Refused(list, c)
      BY <1>5, <1>9, <2>3 DEF Msgs!Reached
    <3>2. c \notin Local => Msgs!Carried(list) = list
      <4> SUFFICES ASSUME c \notin Local, NEW i \in DOMAIN list PROVE ~Large(list[i])
        BY CarriedAll
      <4> QED BY <3>1 DEF Msgs!Refused, Large, Msgs!MessagesConstants
    <3> QED BY <1>7, <2>1, <2>2, <2>3, <3>1, <3>2 DEF Has, Whole
  <2>4. CASE declined
    <3>1. (c \notin Local => c \notin R) /\ Msgs!SizeOf(list) > Limit
      BY <1>5, <2>1, <2>4 DEF Msgs!Reached, Msgs!Refused
    <3>2. SubSeq(list, 1, 0) = <<>> /\ SubSeq(list, 1, Len(list)) = list /\ Len(list) \in Nat
      BY <1>4
    <3>3. <<>> \o <<>> = <<>> /\ list \o <<>> = list
      BY <1>4
    <3>4. Twice(list, 0, k.got[c])
      <4>1. PICK first \in 0..Len(list) : k.got[c] = SubSeq(list, 1, first)
        BY <2>2, <3>2
      <4>2. SubSeq(list, 1, first) \in Seq(DOMAIN Size)
        BY <1>4, <4>1
      <4>3. k.got[c] = SubSeq(list, 1, first) \o SubSeq(list, 1, 0)
        BY <3>2, <4>1, <4>2, ConcatEmptySeq
      <4> QED BY <4>1, <4>3, Zenon DEF Twice
    <3>5. CASE Len(list) > 1
      <4>1. c \notin Local => Begun(list, 0, k.got[c])
        BY <2>2, <3>1, <3>2 DEF Begun
      <4>2. k.next - 1 = 0
        BY <1>7
      <4> QED BY <1>7, <2>4, <3>4, <3>5, <4>1, <4>2 DEF Has
    <3>6. CASE ~(Len(list) > 1)
      <4>1. PICK i \in DOMAIN list : Large(list[i])
        BY <3>1, <3>2, <3>6 DEF Msgs!MessagesConstants, Large
      <4>2. i = 1 /\ 1 \in 1..Len(list) /\ Large(list[1])
        BY <1>4, <3>2, <3>6, <4>1
      <4>3. Msgs!Carried(list) = <<>>
        BY <1>4, <4>2, <3>2, CarriedUpTo
      <4>4. 0 \in 0..Len(list)
        BY <3>2
      <4>5. Whole(k, c)
        BY <1>7, <2>2, <2>4, <3>1, <3>4, <4>3, <4>4, TwiceIs DEF Whole
      <4>6. k.pc = "return"
        BY <1>7, <3>6
      <4> QED BY <4>5, <4>6 DEF Has
    <3> QED BY <3>5, <3>6
  <2> QED BY <2>3, <2>4
<1>10. k.pc = "each" => k.next \in 1..Len(k.batch) /\ k.again
  BY <1>4, <1>7
<1>11. k # None => Way(k) /\ k.steady \subseteq connected
  BY <1>3, <1>5, <1>7, <1>9, <1>10 DEF Way
<1> QED BY <1>3, <1>8, <1>11, CallChanges

\* The message sent by itself keeps the invariant: the first that is refused ends the call.
LEMMA EachKeeps ==
    ASSUME Msgs!MessagesConstants, MessagesInv, NEW s \in Senders, Msgs!sendEach(s)
    PROVE  MessagesInv'
<1>1. /\ m_call[s] \in Sendings /\ m_call[s].next \in 1..Len(m_call[s].batch) /\ m_call[s].again
      /\ m_call[s].steady \subseteq connected /\ connected \subseteq Connections
      /\ m_call[s].pc = "each" /\ \A c \in m_call[s].steady : Has(m_call[s], c)
      /\ UNCHANGED connected
  BY DEF Msgs!sendEach, MessagesInv, Way
<1>2. PICK list \in Batches : list = m_call[s].batch
  BY <1>1 DEF Sendings
<1>3. PICK i \in Nat : i = m_call[s].next
  BY <1>1 DEF Sendings
<1> DEFINE one == <<list[i]>>
<1>4. PICK R \in Msgs!Reached(one), declined \in Msgs!Refusals(one) :
          m_call' = [m_call EXCEPT ![s].pc = IF declined \/ i = Len(list) THEN "return" ELSE "each", ![s].next = i + 1,
                                   ![s].steady = Msgs!Steady(s, R, declined), ![s].got = Msgs!Got(s, one, R)]
  <2> DEFINE first == <<m_call[s].batch[m_call[s].next]>>
  <2>1. \E R \in Msgs!Reached(first), refuse \in Msgs!Refusals(first) :
          m_call' = [m_call EXCEPT ![s].pc = IF refuse \/ m_call[s].next = Len(m_call[s].batch) THEN "return" ELSE "each",
                                   ![s].next = m_call[s].next + 1,
                                   ![s].steady = Msgs!Steady(s, R, refuse), ![s].got = Msgs!Got(s, first, R)]
    BY Zenon DEF Msgs!sendEach
  <2> QED BY <1>2, <1>3, <2>1, Zenon
<1> DEFINE last == declined \/ i = Len(list)
           pc == IF last THEN "return" ELSE "each"
           steady == Msgs!Steady(s, R, declined)
<1>12. /\ declined \in BOOLEAN /\ (declined => \E c \in connected : Msgs!Refused(one, c))
       /\ steady \subseteq m_call[s].steady /\ (~declined => steady \subseteq R)
  BY DEF Msgs!Refusals, Msgs!Steady
<1>13. m_call' = [m_call EXCEPT ![s].pc = pc, ![s].next = i + 1, ![s].steady = steady, ![s].got = Msgs!Got(s, one, R)]
  BY <1>4
<1>5. /\ R \in SUBSET Connections /\ list \in Seq(DOMAIN Size) /\ i \in 1..Len(list)
      /\ pc \in {"return", "each"} /\ i + 1 \in Nat
  BY <1>1, <1>2, <1>3 DEF Msgs!Reached, Msgs!MessagesConstants
<1>6. one \in Seq(DOMAIN Size)
  BY <1>5
<1> HIDE DEF one, pc, steady
<1> DEFINE k == [m_call[s] EXCEPT !.pc = pc, !.next = i + 1, !.steady = steady, !.got = Msgs!Got(s, one, R)]
<1>7. Msgs!Got(s, one, R) \in [Connections -> Seq(DOMAIN Size)]
  BY <1>1, <1>5, <1>6, GotOf
<1>8. /\ k \in Sendings /\ k.steady = steady /\ k.batch = list /\ k.next = i + 1 /\ k.again = m_call[s].again
      /\ k.got = Msgs!Got(s, one, R) /\ k.pc = pc
  BY <1>1, <1>2, <1>5, <1>7, <1>12 DEF Sendings
<1>9. m_call' = [m_call EXCEPT ![s] = k]
  BY <1>13 DEF MessagesInv
<1> HIDE DEF k
<1>10. ASSUME NEW c \in steady PROVE Has(k, c)
  <2> c \in m_call[s].steady
    BY <1>12, <1>10
  <2>1. /\ c \in Connections /\ c \in connected /\ m_call[s].again
        /\ IF c \notin Local THEN Begun(list, i - 1, m_call[s].got[c]) ELSE Twice(list, i - 1, m_call[s].got[c])
    BY <1>1, <1>2, <1>3, <1>10 DEF Has
  <2>2. k.got[c] = IF c \in R THEN m_call[s].got[c] \o one ELSE m_call[s].got[c]
    <3>1. Msgs!Got(s, one, R)[c] = IF c \in R THEN m_call[s].got[c] \o one ELSE m_call[s].got[c]
      BY <1>1, <1>5, <1>6, <2>1, GotOf
    <3> QED BY <1>8, <3>1
  <2>3. Msgs!SizeOf(one) > Limit <=> Large(list[i])
    BY <1>5 DEF Msgs!MessagesConstants, Large, one
  <2>4. i \in 0..Len(list) /\ i - 1 \in 0..Len(list) /\ i + 1 - 1 = i
    BY <1>5
  <2>5. CASE c \in Local
    <3>1. \E n \in {i - 1, i} : Twice(list, n, k.got[c]) /\ (c \in R => n = i)
      BY <1>5, <2>1, <2>2, <2>5, OneMore DEF one
    <3>2. \E first, rest \in 0..Len(list) : k.got[c] = SubSeq(list, 1, first) \o SubSeq(list, 1, rest)
      <4>1. PICK n \in {i - 1, i} : Twice(list, n, k.got[c])
        BY <3>1
      <4>2. n \in 0..Len(list)
        BY <2>4, <4>1
      <4> QED BY <4>1, <4>2, Zenon DEF Twice
    <3>3. last => Has(k, c)
      <4>1. Whole(k, c)
        BY <1>8, <2>1, <2>5, <3>2 DEF Whole
      <4>2. last => k.pc = "return"
        BY <1>8 DEF pc
      <4> QED BY <4>1, <4>2 DEF Has
    <3>4. ~last => Has(k, c)
      <4> SUFFICES ASSUME ~last PROVE Has(k, c)
        OBVIOUS
      <4>1. c \in R
        BY <1>10, <1>12
      <4>2. Twice(list, k.next - 1, k.got[c])
        BY <1>8, <2>1, <2>4, <3>1, <4>1
      <4>3. k.pc = "each"
        BY <1>8 DEF pc
      <4> QED BY <1>8, <2>5, <4>2, <4>3 DEF Has
    <3> QED BY <3>3, <3>4
  <2>6. CASE c \notin Local /\ declined
    <3>1. Msgs!SizeOf(one) > Limit /\ c \notin R
      BY <1>12, <2>1, <2>6 DEF Msgs!Reached, Msgs!Refused
    <3>2. Msgs!Carried(list) = SubSeq(list, 1, i - 1)
      BY <1>5, <2>1, <2>3, <2>6, <3>1, CarriedUpTo DEF Begun
    <3>3. k.got[c] = SubSeq(list, 1, i - 1)
      BY <2>1, <2>2, <2>6, <3>1 DEF Begun
    <3>4. k.pc = "return"
      BY <1>8, <2>6 DEF pc
    <3> QED BY <1>8, <2>6, <3>2, <3>3, <3>4 DEF Has, Whole
  <2>7. CASE c \notin Local /\ ~declined
    <3>1. c \in R /\ ~Msgs!Refused(one, c)
      BY <1>10, <1>12, <2>7 DEF Msgs!Reached
    <3>2. ~Large(list[i])
      BY <2>3, <2>7, <3>1 DEF Msgs!Refused
    <3>3. Begun(list, i, k.got[c])
      BY <1>5, <2>1, <2>2, <2>7, <3>1, <3>2, OneMore DEF one
    <3>4. CASE i = Len(list)
      <4>1. k.got[c] = Msgs!Carried(list)
        BY <1>5, <3>3, <3>4, AllSent
      <4>2. k.pc = "return"
        BY <1>8, <3>4 DEF pc
      <4> QED BY <1>8, <2>7, <4>1, <4>2 DEF Has, Whole
    <3>5. CASE i # Len(list)
      <4>1. k.next - 1 = i
        BY <1>5, <1>8
      <4>2. k.pc = "each"
        BY <1>8, <2>7, <3>5 DEF pc
      <4> QED BY <1>8, <2>7, <3>3, <4>1, <4>2 DEF Has
    <3> QED BY <3>4, <3>5
  <2> QED BY <2>5, <2>6, <2>7
<1>11. k.pc = "each" => k.next \in 1..Len(k.batch) /\ k.again
  BY <1>1, <1>5, <1>8 DEF pc
<1>14. k # None => Way(k) /\ k.steady \subseteq connected
  BY <1>1, <1>8, <1>10, <1>11, <1>12 DEF Way
<1> QED BY <1>1, <1>9, <1>14, CallChanges

\* The thread of a consumer keeps the invariant of the supplier.
LEMMA RunKeeps ==
    ASSUME MessagesInv, NEW c \in Connections, Msgs!_run(c)
    PROVE  MessagesInv'
<1>1. m_call' = m_call /\ connected' = connected
  BY DEF Msgs!_run
<1> QED BY <1>1 DEF MessagesInv

\* The return of sendMessages keeps the invariant.
LEMMA SentKeeps ==
    ASSUME MessagesInv, NEW s \in Senders, Msgs!sent(s)
    PROVE  MessagesInv'
BY CallChanges DEF Msgs!sent

\* A supplier without connections satisfies the invariant.
LEMMA MessagesStart ==
    ASSUME Msgs!Init
    PROVE  MessagesInv
BY DEF Msgs!Init, MessagesInv

\* Every step of suppliers and consumers keeps the invariant.
LEMMA MessagesStep ==
    ASSUME Msgs!MessagesConstants, MessagesInv, [Msgs!Next]_(Msgs!vars)
    PROVE  MessagesInv'
<1>1. CASE UNCHANGED Msgs!vars
  <2>1. m_call' = m_call /\ connected' = connected
    BY <1>1 DEF Msgs!vars
  <2> QED BY <2>1 DEF MessagesInv
<1>2. CASE Msgs!Next
  BY <1>2, ConnectPortKeeps, DisconnectPortKeeps, SendKeeps, WholeKeeps, EachKeeps, SentKeeps,
     RunKeeps DEF Msgs!Next, Msgs!Sending
<1> QED BY <1>1, <1>2

\* The invariant is enough: who stayed connected has the whole list when the call returns.
LEMMA MessagesWhole ==
    ASSUME MessagesInv
    PROVE  Msgs!BatchesWhole
<1> SUFFICES ASSUME NEW s \in Senders, m_call[s] # None, m_call[s].pc = "return", NEW c \in m_call[s].steady
             PROVE  Whole(m_call[s], c)
  BY Zenon DEF Msgs!BatchesWhole, Whole
<1> QED BY DEF MessagesInv, Way, Has

----------------------------------------------------------------------------
(* The parts together.                                                     *)

\* the proofs about a device, of the device that runs here
DevP == INSTANCE PyDeviceProofs
           WITH Props <- {p1, p2}, Clients <- {c1, c2}, MaxCalls <- MaxDeviceCalls,
                lock <- d_lock, call <- d_call, released <- d_released, calls <- d_calls

\* The two instances of PyDevice start alike.
LEMMA DeviceStart == Dev!Init => DevP!Init
  BY DEF Dev!Init, DevP!Init, Dev!Nothing, DevP!Nothing

\* The two instances of PyDevice take the same steps.
LEMMA DeviceSteps == [Dev!Next]_dvars => [DevP!Next]_(DevP!vars)
<1>1. \A c \in {c1, c2}, S \in SUBSET {p1, p2} : Dev!allocateCapacity(c, S) => DevP!allocateCapacity(c, S)
  BY DEF Dev!allocateCapacity, DevP!allocateCapacity, Dev!Begin, DevP!Begin, Dev!Call,
           DevP!Call, Dev!Ready, DevP!Ready, Dev!capacities, DevP!capacities, Dev!states,
           DevP!states
<1>2. \A c \in {c1, c2}, S \in SUBSET {p1, p2} : Dev!deallocateCapacity(c, S) => DevP!deallocateCapacity(c, S)
  BY DEF Dev!deallocateCapacity, DevP!deallocateCapacity, Dev!Begin, DevP!Begin, Dev!Call,
           DevP!Call, Dev!capacities, DevP!capacities, Dev!states, DevP!states
<1>3. \A c \in {c1, c2}, state_ \in {"LOCKED", "UNLOCKED"} : Dev!_set_adminState(c, state_) => DevP!_set_adminState(c, state_)
  BY DEF Dev!_set_adminState, DevP!_set_adminState, Dev!adminStateTransitions,
           DevP!adminStateTransitions, Dev!Begin, DevP!Begin, Dev!Call, DevP!Call,
           Dev!Others, DevP!Others, Dev!Assigning, DevP!Assigning, Dev!capacities,
           DevP!capacities, Dev!states, DevP!states
<1>4. \A c \in {c1, c2} : Dev!releaseObject(c) => DevP!releaseObject(c)
  BY DEF Dev!releaseObject, DevP!releaseObject, Dev!Begin, DevP!Begin, Dev!Call,
           DevP!Call, Dev!Ready, DevP!Ready, Dev!Others, DevP!Others, Dev!Assigning,
           DevP!Assigning, Dev!capacities, DevP!capacities, Dev!states, DevP!states
<1>5. \A c \in {c1, c2}, p \in {p1, p2} : Dev!_allocateCapacity(c, p) => DevP!_allocateCapacity(c, p)
  BY DEF Dev!_allocateCapacity, DevP!_allocateCapacity, Dev!At, DevP!At, Dev!Goto,
           DevP!Goto, Dev!Mixes, DevP!Mixes, Dev!Others, DevP!Others, Dev!capacities,
           DevP!capacities, Dev!states, DevP!states
<1>6. \A c \in {c1, c2} : Dev!acquire(c) => DevP!acquire(c)
  BY DEF Dev!acquire, DevP!acquire, Dev!At, DevP!At, Dev!Goto, DevP!Goto, Dev!capacities,
           DevP!capacities, Dev!states, DevP!states
<1>7. \A c \in {c1, c2} : Dev!_allocateCapacities(c) => DevP!_allocateCapacities(c)
  BY DEF Dev!_allocateCapacities, DevP!_allocateCapacities, Dev!At, DevP!At, Dev!Goto,
           DevP!Goto, Dev!Return, DevP!Return, Dev!Raises, DevP!Raises, Dev!Ready,
           DevP!Ready, Dev!Plus, DevP!Plus, Dev!Minus, DevP!Minus, Dev!Mixes, DevP!Mixes,
           Dev!Others, DevP!Others, Dev!Rollback, DevP!Rollback, Dev!capacities,
           DevP!capacities, Dev!states, DevP!states
<1>8. \A c \in {c1, c2} : Dev!_deallocateCapacities(c) => DevP!_deallocateCapacities(c)
  BY DEF Dev!_deallocateCapacities, DevP!_deallocateCapacities, Dev!At, DevP!At, Dev!Goto,
           DevP!Goto, Dev!Return, DevP!Return, Dev!Ready, DevP!Ready, Dev!Unlock,
           DevP!Unlock, Dev!Minus, DevP!Minus, Dev!Mixes, DevP!Mixes, Dev!Others,
           DevP!Others, Dev!capacities, DevP!capacities, Dev!states, DevP!states
<1>9. \A c \in {c1, c2} : Dev!updateUsageState(c) => DevP!updateUsageState(c)
  BY DEF Dev!updateUsageState, DevP!updateUsageState, Dev!At, DevP!At, Dev!Usage,
           DevP!Usage, Dev!Others, DevP!Others, Dev!capacities, DevP!capacities, Dev!states,
           DevP!states
<1>10. \A c \in {c1, c2} : Dev!storeUsage(c) => DevP!storeUsage(c)
  BY DEF Dev!storeUsage, DevP!storeUsage, Dev!At, DevP!At, Dev!Return, DevP!Return,
           Dev!capacities, DevP!capacities, Dev!states, DevP!states
<1>11. \A c \in {c1, c2} : Dev!releaseChildren(c) => DevP!releaseChildren(c)
  BY DEF Dev!releaseChildren, DevP!releaseChildren, Dev!At, DevP!At, Dev!Return,
           DevP!Return, Dev!Others, DevP!Others, Dev!Assigning, DevP!Assigning,
           Dev!capacities, DevP!capacities, Dev!states, DevP!states
<1>12. \A c \in {c1, c2} : Dev!sendAdmin(c) => DevP!sendAdmin(c)
  BY DEF Dev!sendAdmin, DevP!sendAdmin, Dev!At, DevP!At, Dev!Goto, DevP!Goto,
           Dev!capacities, DevP!capacities, Dev!states, DevP!states
<1>13. \A c \in {c1, c2} : Dev!storeAdmin(c) => DevP!storeAdmin(c)
  BY DEF Dev!storeAdmin, DevP!storeAdmin, Dev!At, DevP!At, Dev!Goto, DevP!Goto,
           Dev!Return, DevP!Return, Dev!capacities, DevP!capacities, Dev!states,
           DevP!states
<1>14. UNCHANGED dvars => UNCHANGED DevP!vars
  BY DEF dvars, DevP!vars
<1>15. Dev!Next => DevP!Next
  BY <1>1, <1>2, <1>3, <1>4, <1>5, <1>6, <1>7, <1>8, <1>9, <1>10, <1>11, <1>12, <1>13 DEF Dev!Next, DevP!Next, Dev!Step, DevP!Step
<1> QED BY <1>14, <1>15

\* The two instances of PyDevice promise the same.
LEMMA DevicePromise == DevP!DeviceTrue => Dev!DeviceTrue
<1>1. DevP!CapacityConserved => Dev!CapacityConserved
  <2>1. \A S : DevP!Cardinality(S) = Dev!Cardinality(S)
    BY DEF Dev!Cardinality, DevP!Cardinality
  <2>2. \A p : Dev!Holdings(p) = DevP!Holdings(p) /\ Dev!Taking(p) = DevP!Taking(p)
    BY DEF Dev!Holdings, DevP!Holdings, Dev!Taking, DevP!Taking
  <2> QED BY <2>1, <2>2 DEF Dev!CapacityConserved, DevP!CapacityConserved
<1>2. DevP!UsageTrue => Dev!UsageTrue
  BY DEF Dev!UsageTrue, DevP!UsageTrue, Dev!Quiet, DevP!Quiet, Dev!Usage, DevP!Usage
<1>3. DevP!AdminTrue => Dev!AdminTrue
  BY DEF Dev!AdminTrue, DevP!AdminTrue, Dev!Quiet, DevP!Quiet, Dev!At, DevP!At
<1> QED BY <1>1, <1>2, <1>3 DEF Dev!DeviceTrue, DevP!DeviceTrue

\* the proofs about a client's view, of the view that runs here
ViewP == INSTANCE PyDomainViewProofs
           WITH Objects <- ViewObjects, Name <- MCName, Clients <- ViewClients, States <- Values,
                MaxFaults <- MaxViewFaults, variety <- v_variety, used <- v_used,
                alive <- v_alive, channel <- v_channel, lock <- v_lock, call <- v_call,
                faults <- v_faults, changes <- changes_

\* The two instances of PyDomainView start alike.
LEMMA ViewStart == View!Init => ViewP!Init
BY DEF View!Init, ViewP!Init, View!ListInit, ViewP!ListInit, View!AttributeInit,
     ViewP!AttributeInit, View!Identifiers, ViewP!Identifiers, View!Idle, ViewP!Idle

\* They take the same steps.
LEMMA ViewSteps ==
    View!Next \/ UNCHANGED <<View!listVars, View!attributeVars>>
    => [ViewP!Next]_<<ViewP!listVars, ViewP!attributeVars>>
<1>1. \A o \in ViewObjects : View!Register(o) => ViewP!Register(o)
  BY DEF View!Register, ViewP!Register, View!Registered, ViewP!Registered, View!Registrable,
     ViewP!Registrable, View!Cardinality, ViewP!Cardinality, View!Send, ViewP!Send,
     View!Known, ViewP!Known
<1>2. \A o \in ViewObjects : View!Unlist(o) => ViewP!Unlist(o)
  BY DEF View!Unlist, ViewP!Unlist
<1>3. \A o \in ViewObjects : View!sendRemoveEvent(o) => ViewP!sendRemoveEvent(o)
  BY DEF View!sendRemoveEvent, ViewP!sendRemoveEvent, View!Send, ViewP!Send
<1>4. \A o \in ViewObjects : View!Die(o) => ViewP!Die(o)
  BY DEF View!Die, ViewP!Die
<1>5. \A t \in ViewClients : View!values(t) => ViewP!values(t)
  BY DEF View!values, ViewP!values, View!Begin, ViewP!Begin, View!Idle, ViewP!Idle,
     View!Seen, ViewP!Seen, View!domainVars, ViewP!domainVars
<1>6. \A t \in ViewClients : View!fetch(t) => ViewP!fetch(t)
  BY DEF View!fetch, ViewP!fetch, View!domainVars, ViewP!domainVars
<1>7. \A t \in ViewClients : View!sync(t) => ViewP!sync(t)
  BY DEF View!sync, ViewP!sync, View!Synced, ViewP!Synced, View!Identifiers,
     ViewP!Identifiers, View!Added, ViewP!Added, View!Created, ViewP!Created,
     View!newApplication, ViewP!newApplication, View!newDevice, ViewP!newDevice,
     View!newService, ViewP!newService, View!Kept,
     ViewP!Kept, View!Failures, ViewP!Failures, View!Fail, ViewP!Fail, View!After, ViewP!After, View!Stale, ViewP!Stale, View!Disturbed,
     ViewP!Disturbed, View!Idle, ViewP!Idle, View!domainVars, ViewP!domainVars
<1>8. \A t \in ViewClients : View!list(t) => ViewP!list(t)
  BY DEF View!list, ViewP!list, View!Plausible, ViewP!Plausible, View!Entries,
     ViewP!Entries, View!Identifiers, ViewP!Identifiers, View!Idle, ViewP!Idle,
     View!domainVars, ViewP!domainVars
<1>9. \A t \in ViewClients : View!addCreated(t) => ViewP!addCreated(t)
  BY DEF View!addCreated, ViewP!addCreated, View!add, ViewP!add, View!Added, ViewP!Added,
     View!Created, ViewP!Created, View!newApplication, ViewP!newApplication, View!newDevice,
     ViewP!newDevice, View!newService, ViewP!newService, View!Kept,
     ViewP!Kept, View!Failures, ViewP!Failures, View!Fail, ViewP!Fail, View!After, ViewP!After, View!Handled, ViewP!Handled,
     View!ToSet, ViewP!ToSet, View!Disturbed, ViewP!Disturbed, View!Idle, ViewP!Idle,
     View!domainVars, ViewP!domainVars
<1>10. \A t \in ViewClients : View!removeEntry(t) => ViewP!removeEntry(t)
  BY DEF View!removeEntry, ViewP!removeEntry, View!remove, ViewP!remove, View!Absent,
     ViewP!Absent, View!Idle, ViewP!Idle, View!Disturbed, ViewP!Disturbed, View!domainVars,
     ViewP!domainVars
<1>11. \A t \in ViewClients : View!releaseObject(t) => ViewP!releaseObject(t)
  BY DEF View!releaseObject, ViewP!releaseObject, View!Idle, ViewP!Idle
<1>12. \A t \in ViewClients, o \in ViewObjects :
           View!createApplication(t, o) => ViewP!createApplication(t, o)
  BY DEF View!createApplication, ViewP!createApplication, View!Registered, ViewP!Registered,
     View!Registrable, ViewP!Registrable, View!Cardinality, ViewP!Cardinality, View!Send,
     ViewP!Send, View!Known, ViewP!Known, View!Idle, ViewP!Idle
<1>13. \A t \in ViewClients, o \in ViewObjects :
           View!removeApplication(t, o) => ViewP!removeApplication(t, o)
  BY DEF View!removeApplication, ViewP!removeApplication, View!Begin, ViewP!Begin,
     View!Idle, ViewP!Idle, View!Seen, ViewP!Seen, View!remove, ViewP!remove,
     View!domainVars, ViewP!domainVars
<1>14. View!applicationAddedEvent => ViewP!applicationAddedEvent
  BY DEF View!applicationAddedEvent, ViewP!applicationAddedEvent, View!push, ViewP!push,
     View!add, ViewP!add, View!Added, ViewP!Added, View!Created, ViewP!Created,
     View!newApplication, ViewP!newApplication, View!newDevice, ViewP!newDevice,
     View!newService, ViewP!newService, View!Kept,
     ViewP!Kept, View!Failures, ViewP!Failures, View!Fail, ViewP!Fail, View!After, ViewP!After, View!domainVars, ViewP!domainVars
<1>15. View!deviceAddedEvent => ViewP!deviceAddedEvent
  BY DEF View!deviceAddedEvent, ViewP!deviceAddedEvent, View!push, ViewP!push, View!Ask,
     ViewP!Ask, View!domainVars, ViewP!domainVars, View!Own, ViewP!Own
<1>16. View!serviceAddedEvent => ViewP!serviceAddedEvent
  BY DEF View!serviceAddedEvent, ViewP!serviceAddedEvent, View!push, ViewP!push, View!Ask,
     ViewP!Ask, View!domainVars, ViewP!domainVars, View!Own, ViewP!Own
<1>17. View!addOwn => ViewP!addOwn
  BY DEF View!addOwn, ViewP!addOwn, View!add, ViewP!add, View!Added, ViewP!Added,
     View!Created, ViewP!Created, View!newApplication, ViewP!newApplication, View!newDevice,
     ViewP!newDevice, View!newService, ViewP!newService, View!Kept,
     ViewP!Kept, View!Failures, ViewP!Failures, View!Fail, ViewP!Fail, View!After, ViewP!After, View!domainVars, ViewP!domainVars
<1>18. View!removedEvent => ViewP!removedEvent
  BY DEF View!removedEvent, ViewP!removedEvent, View!push, ViewP!push, View!Absent,
     ViewP!Absent, View!remove, ViewP!remove, View!domainVars, ViewP!domainVars
<1>19. View!AttributeNext => ViewP!AttributeNext
  BY DEF View!AttributeNext, ViewP!AttributeNext, View!changeState, ViewP!changeState,
     View!Announce, ViewP!Announce, View!set_value, ViewP!set_value, View!storeState,
     ViewP!storeState, View!get_value, ViewP!get_value, View!Fetched, ViewP!Fetched,
     View!syncValue, ViewP!syncValue, View!update, ViewP!update
<1>20. View!Next => ViewP!Next
  BY <1>1, <1>2, <1>3, <1>4, <1>5, <1>6, <1>7, <1>8, <1>9, <1>10, <1>11, <1>12, <1>13, <1>14,
     <1>15, <1>16, <1>17, <1>18, <1>19
     DEF View!Next, ViewP!Next, View!ListNext, ViewP!ListNext, View!domainVars,
         ViewP!domainVars, View!listVars, ViewP!listVars, View!attributeVars,
         ViewP!attributeVars
<1>21. UNCHANGED <<View!listVars, View!attributeVars>>
       => UNCHANGED <<ViewP!listVars, ViewP!attributeVars>>
  BY DEF View!domainVars, ViewP!domainVars, View!listVars, ViewP!listVars,
         View!attributeVars, ViewP!attributeVars
<1> QED BY <1>20, <1>21

\* And they promise the same.
LEMMA ViewPromise ==
    ViewP!ViewTrue /\ ViewP!ListenersAgree /\ ViewP!ListsTrue /\ ViewP!CopyTrue
    => View!ViewTrue /\ View!ListenersAgree /\ View!ListsTrue /\ View!CopyTrue
BY DEF View!ViewTrue, ViewP!ViewTrue, View!ListenersAgree, ViewP!ListenersAgree,
     View!ListsTrue, ViewP!ListsTrue, View!CopyTrue, ViewP!CopyTrue, View!Settled,
     ViewP!Settled, View!Identifiers, ViewP!Identifiers, View!Entries, ViewP!Entries,
     View!ToSet, ViewP!ToSet

\* Every part takes its own steps or none, whatever the behaviour is about.
LEMMA PartsMove ==
    ASSUME [MCNext]_<<kind, vars, dvars, lvars, xvars, gvars, mvars, evars, svars, wvars>>
    PROVE  /\ [Next]_vars /\ [Dev!Next]_dvars
           /\ [Exec!Next]_(Exec!vars) /\ [Logs!Next]_(Logs!vars)
           /\ [Msgs!Next]_(Msgs!vars) /\ [Events!Next]_(Events!evars)
           /\ View!Next \/ UNCHANGED <<View!listVars, View!attributeVars>>
<1>1. /\ UNCHANGED xvars => UNCHANGED Exec!vars
      /\ UNCHANGED gvars => UNCHANGED Logs!vars
      /\ UNCHANGED mvars => UNCHANGED Msgs!vars
      /\ UNCHANGED evars => UNCHANGED Events!evars
      /\ UNCHANGED wvars => UNCHANGED <<View!listVars, View!attributeVars>>
  BY DEF xvars, gvars, mvars, evars, wvars, Exec!vars, Logs!vars, Msgs!vars, Events!evars,
         View!listVars, View!domainVars, View!attributeVars
<1>2. CASE UNCHANGED <<vars, dvars, xvars, gvars, mvars, evars, wvars>>
  BY <1>1, <1>2
<1>3. CASE MCNext
  <2>1. \/ Next /\ UNCHANGED <<dvars, xvars, gvars, mvars, evars, wvars>>
        \/ Dev!Next /\ UNCHANGED <<vars, xvars, gvars, mvars, evars, wvars>>
        \/ Exec!Next /\ UNCHANGED <<vars, dvars, gvars, mvars, evars, wvars>>
        \/ Logs!Next /\ UNCHANGED <<vars, dvars, xvars, mvars, evars, wvars>>
        \/ Msgs!Next /\ UNCHANGED <<vars, dvars, xvars, gvars, evars, wvars>>
        \/ Events!Next /\ UNCHANGED <<vars, dvars, xvars, gvars, mvars, wvars>>
        \/ View!Next /\ UNCHANGED <<vars, dvars, xvars, gvars, mvars, evars>>
        \/ UNCHANGED <<vars, dvars, xvars, gvars, mvars, evars, wvars>>
    BY <1>3 DEF MCNext
  <2> QED BY <1>1, <2>1
<1> QED BY <1>2, <1>3

\* In every run of the parts, for any set of properties, threads and clients of a
\* component, no change that somebody monitors is lost and the monitor runs.
THEOREM ComponentResource == MCSafety => []ResourceTrue
<1>1. MCInit => Init
  BY DEF MCInit
<1>2. ChangesWillBeReported /\ MonitorRuns => ResourceTrue
  BY DEF ResourceTrue
<1> QED BY <1>1, <1>2, PartsMove, ResourceSafe, PTL DEF MCSafety

\* In every run of the parts the capacities of a device add up, its usage follows
\* them, and the domain knows its administrative state.
THEOREM ComponentDevices == MCSafety => []DeviceTrue
<1>1. MCInit => DevP!Init
  BY DeviceStart DEF MCInit
<1>2. DevP!DeviceTrue => DeviceTrue
  BY DevicePromise DEF DeviceTrue
<1>3. DevP!DeviceConstants
  <2>1. Dev!IsFiniteSet({c1, c2}) => DevP!IsFiniteSet({c1, c2})
    BY DEF Dev!IsFiniteSet, DevP!IsFiniteSet
  <2>2. Dev!Calls = DevP!Calls
    BY DEF Dev!Calls, DevP!Calls, Dev!Pcs, DevP!Pcs, Dev!Ops, DevP!Ops, Dev!Texts, DevP!Texts
  <2> QED BY <2>1, <2>2, ComponentDevice DEF Dev!DeviceConstants, DevP!DeviceConstants
<1>4. DevP!Init /\ [][DevP!Next]_(DevP!vars) => []DevP!DeviceTrue
  BY <1>3, DevP!DeviceIsTrue
<1> QED BY <1>1, <1>2, <1>4, PartsMove, DeviceSteps, PTL DEF MCSafety

\* In every run of the parts the disk of a device holds what is loaded, and every
\* process is on record and has the packages it was linked to.
THEOREM ComponentProcesses == MCSafety => []ExecutableTrue
<1>1. MCInit => Exec!Init
  BY DEF MCInit
<1>2. (/\ Exec!LoadedOnDisk /\ Exec!NothingLeft
       /\ Exec!ProcessesKnown /\ Exec!ReleaseKillsAll /\ Exec!EnvironmentRight)
      => ExecutableTrue
  BY DEF ExecutableTrue
<1> QED BY <1>1, <1>2, PartsMove, ComponentExecutable, ExecutableSafe, PTL DEF MCSafety

\* In every run of the parts the levels of the loggers are those asked for, and a
\* reset restores those of the start.
THEOREM ComponentLogging == MCSafety => []LoggingTrue
<1>1. MCInit => Logs!Init
  BY DEF MCInit
<1>2. Logs!LevelKept /\ Logs!ResetRestores => LoggingTrue
  BY DEF LoggingTrue
<1> QED BY <1>1, <1>2, PartsMove, LoggingSafe, PTL DEF MCSafety

\* In every run of the parts a list of messages arrives whole and once at every
\* consumer that stays connected and that no push fails to reach, the event manager knows what the domain has registered, and what a client knows of the
\* domain is true once the domain's events are handled.
THEOREM ComponentKnows == MCSafety => []EventsTrue
<1>1. MCInit => MessagesInv /\ EventsInv /\ ViewP!Init
  BY ComponentEvents, MessagesStart, EventsStart, ViewStart DEF MCInit
<1>2. MessagesInv /\ [Msgs!Next]_(Msgs!vars) => MessagesInv'
  BY ComponentMessages, MessagesStep
<1>3. EventsInv /\ [Events!Next]_(Events!evars) => EventsInv'
  BY ComponentEvents, EventsStep, EventsIdle
<1>4. ViewP!ViewConstants
  BY ComponentView DEF View!ViewConstants, ViewP!ViewConstants
<1>5. ViewP!Init /\ [][ViewP!Next]_<<ViewP!listVars, ViewP!attributeVars>>
      => [](ViewP!ViewTrue /\ ViewP!ListenersAgree /\ ViewP!ListsTrue /\ ViewP!CopyTrue)
  BY <1>4, ViewP!ViewIsTrue
<1>6. /\ MessagesInv /\ EventsInv
      /\ ViewP!ViewTrue /\ ViewP!ListenersAgree /\ ViewP!ListsTrue /\ ViewP!CopyTrue
      => EventsTrue
  BY ComponentEvents, MessagesWhole, EventsKnown, ViewPromise DEF EventsTrue
<1> QED BY <1>1, <1>2, <1>3, <1>5, <1>6, PartsMove, ViewSteps, PTL DEF MCSafety
=============================================================================
