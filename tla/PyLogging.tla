------------------------------ MODULE PyLogging ------------------------------
(***************************************************************************)
(* CF::LogConfiguration of a Python component: ossie.resource over         *)
(* ossie.logger and log4py.  The loggers are those of Python's logging     *)
(* module; a logger without a level has the effective level of its parent. *)
(*                                                                         *)
(* The component comp_1 owns the logger of that name and those below it.   *)
(* Its _log is another one, comp, and not among them.                      *)
(***************************************************************************)
EXTENDS Integers, FiniteSets, SequencesExt

CONSTANTS Configs,     \* contents of configuration files: level of the root, of other loggers
          Levels,      \* CF levels that clients ask for
          MaxLogCalls, \* bound on calls
          None

VARIABLES level,       \* the level of each logger
          callback,    \* logListenerCallback is set
          original,    \* _origLogCfgURL and _origLogLevel
          asked,       \* ghost: the CF level each logger was last given
          fresh,       \* ghost: the last call was a resetLog that got its file
          logCalls

vars == <<level, callback, original, asked, fresh, logCalls>>

Root == <<>>
Base == <<"comp_1">>
System == <<"comp_1", "system">>
Child == <<"comp_1", "system", "Resource">>
Log == <<"comp">>
Loggers == {Root, Base, System, Child, Log}

\* getCurrentLoggers: what getChildLogger has put into the list
Current == {Base, Child}

----------------------------------------------------------------------------
(* Levels                                                                  *)

NOTSET == 0

Log4 == [OFF |-> 51, FATAL |-> 50, ERROR |-> 40, WARN |-> 30, INFO |-> 20, DEBUG |-> 10,
         TRACE |-> 5, ALL |-> 1]

SupportedCFLevel(cf) == cf \in DOMAIN Log4

ConvertToLog4Level(cf) == IF cf \in DOMAIN Log4 THEN Log4[cf] ELSE Log4["INFO"]

ConvertLog4ToCFLevel(n) ==
    LET cfs == {cf \in DOMAIN Log4 : Log4[cf] = n}
    IN IF cfs = {} THEN "INFO" ELSE CHOOSE cf \in cfs : TRUE

\* the old levels 0 to 5 of the command line
ConvertLogLevel(n) ==
    IF n \in 0..5 THEN <<"FATAL", "ERROR", "WARN", "INFO", "DEBUG", "ALL">>[n + 1] ELSE "INFO"

\* getEffectiveLevel
Effective(lv, l) ==
    LET set == {k \in 0..Len(l) : lv[SubSeq(l, 1, k)] # NOTSET}
    IN IF set = {} THEN NOTSET ELSE lv[SubSeq(l, 1, CHOOSE k \in set : \A j \in set : j <= k)]

----------------------------------------------------------------------------
(* log4py.config                                                           *)

\* _install_loggers: the root and the loggers named; the loggers below those
\* lose their levels, all others keep theirs
strConfig(lv, cfg) ==
    [l \in Loggers |->
        CASE l = Root -> cfg.root
          [] l # Root /\ l \in DOMAIN cfg.own -> cfg.own[l]
          [] l # Root /\ l \notin DOMAIN cfg.own /\ (\E a \in DOMAIN cfg.own : IsStrictPrefix(a, l)) -> NOTSET
          [] OTHER -> lv[l]]

ConfigureDefault(lv) == [lv EXCEPT ![Root] = Log4["INFO"]]

\* a configuration file, or the default one, and the level of the command line
Configure(lv, url, debug) ==
    LET configured == IF url = None THEN ConfigureDefault(lv) ELSE strConfig(lv, url)
    IN IF debug = None THEN configured
       ELSE [configured EXCEPT ![Root] = Log4[ConvertLogLevel(debug)]]

\* Configure, the constructor and saveLoggingContext of start_component
Started(url, debug) == Configure([l \in Loggers |-> NOTSET], url, debug)

----------------------------------------------------------------------------
Init ==
    /\ \E url \in Configs \union {None}, debug \in {None, 1, 4} :
          /\ original = [url |-> url, debug |-> debug]
          /\ level = Started(url, debug)
    /\ callback = FALSE
    /\ asked = [l \in Loggers |-> None]
    /\ fresh = FALSE
    /\ logCalls = 0

Called == logCalls < MaxLogCalls /\ logCalls' = logCalls + 1

\* name starts with l and a dot, or is l
Starts(l, name) == l = name \/ IsStrictPrefix(l, name)

\* the name of a logger of the component, or of a parent of one
isLoggerInHierarchy(l) == \E name \in Current : Starts(l, name)

\* SetLogLevel
Set(lv, l, cf) == [lv EXCEPT ![l] = ConvertToLog4Level(cf)]

Forgotten == [l \in Loggers |-> None]

\* setLogLevel; a listener gets the call instead of the logger
setLogLevel(l, cf) ==
    /\ Called /\ isLoggerInHierarchy(l) /\ SupportedCFLevel(cf)
    /\ fresh' = FALSE
    /\ IF callback THEN UNCHANGED <<level, asked>>
       ELSE level' = Set(level, l, cf) /\ asked' = [asked EXCEPT ![l] = cf]
    /\ UNCHANGED <<callback, original>>

\* log_level, for _log and the component's own logger
log_level(cf) ==
    /\ Called /\ SupportedCFLevel(cf)
    /\ fresh' = FALSE
    /\ IF callback THEN UNCHANGED <<level, asked>>
       ELSE /\ level' = Set(Set(level, Log, cf), Base, cf)
            /\ asked' = [asked EXCEPT ![Log] = cf, ![Base] = cf]
    /\ UNCHANGED <<callback, original>>

\* setLogConfig, and setLogConfigURL of a file that can be read
setLogConfig(cfg) ==
    /\ Called
    /\ fresh' = FALSE
    /\ IF callback THEN UNCHANGED <<level, asked>>
       ELSE level' = strConfig(level, cfg) /\ asked' = Forgotten
    /\ UNCHANGED <<callback, original>>

setLogListenerCallback(set) ==
    /\ Called /\ callback # set
    /\ callback' = set
    /\ fresh' = FALSE
    /\ UNCHANGED <<level, original, asked>>

\* the loggers in the list and those between them and the component's own
Cleared_List(lv) == [l \in Loggers |-> IF l \in Current THEN NOTSET ELSE lv[l]]

Cleared(lv) ==
    [l \in Loggers |-> IF \E name \in Current : Starts(l, name) /\ Starts(Base, l)
                       THEN NOTSET ELSE lv[l]]

\* resetLog and setLoggingContext: the file of the start may be gone, and a
\* listener keeps it and the level from being applied
resetLog(readable) ==
    /\ Called
    /\ LET url == original.url
           cleared == Cleared(level)
           read == CASE url = None -> ConfigureDefault(cleared)
                     [] url # None /\ readable /\ ~callback -> strConfig(cleared, url)
                     [] OTHER -> cleared
       IN level' = IF original.debug = None \/ callback THEN read
                   ELSE Set(read, Root, ConvertLogLevel(original.debug))
    /\ asked' = Forgotten
    /\ fresh' = (readable /\ ~callback)
    /\ UNCHANGED <<callback, original>>

Next ==
    \/ \E l \in Loggers, cf \in Levels : setLogLevel(l, cf)
    \/ \E cf \in Levels : log_level(cf)
    \/ \E cfg \in Configs : setLogConfig(cfg)
    \/ \E b \in BOOLEAN : setLogListenerCallback(b) \/ resetLog(b)

Spec == Init /\ [][Next]_vars

----------------------------------------------------------------------------
\* The level that a logger was given is the one that getLogLevel tells, and
\* the one its messages are held against, until a configuration or a reset.
LevelKept ==
    \A l \in Loggers : asked[l] # None =>
        /\ ConvertLog4ToCFLevel(Effective(level, l)) = asked[l]
        /\ Effective(level, l) = Log4[asked[l]]

\* A reset brings back the levels that the component started with, after any
\* configurations and levels in between.
ResetRestores ==
    fresh => \A l \in {Root, Base, System, Child} :
                level[l] = Started(original.url, original.debug)[l]
============================================================================
