------------------------------ MODULE Settings ------------------------------
(***************************************************************************)
(* SettingsManager (nexus/utils/settings.py), the endpoints of app.py that *)
(* change settings, and the Config class the rest of a process reads.  The *)
(* web application has a manager, which keeps its values in memory and in  *)
(* Redis; the worker process (nexus/worker.py) has a Config of its own and *)
(* no manager.  Requests are green threads: they switch while Redis        *)
(* answers, and the manager's lock is held until then.                     *)
(***************************************************************************)
EXTENDS Naturals

CONSTANTS
    SeUsers,      \* threads that serve requests
    SeKeys,       \* the settings, each with an attribute of Config
    SeValues,     \* valid values of a setting
    SeDefault,    \* the value SETTING_DEFINITIONS gives
    SeEnv,        \* the value the environment gives Config
    SeMaxCalls    \* bound: changes that are made

ASSUME SettingsAssumption ==
    /\ {SeDefault, SeEnv} \subseteq SeValues
    /\ SeMaxCalls \in Nat

VARIABLES
    seCache,      \* _cache of the web application
    seConfig,     \* the class Config of each process
    seRedis,      \* the values under REDIS_SETTINGS_KEY, or NoSettings
    seReach,      \* the manager found Redis when it started
    seSaved,      \* ghost: the last time it saved, Redis took the values
    sePc,         \* where each request is: "save" with the lock
    seKey, seSent,  \* locals: the setting, and the values under way to Redis
    seCalls       \* changes made so far

seVars == <<seCache, seConfig, seRedis, seReach, seSaved, sePc, seKey, seSent, seCalls>>

Processes == {"web", "worker"}
Table == [SeKeys -> SeValues]
NoSettings == [k \in {} |-> SeEnv]
AllKeys == "all"

\* _load_defaults: what Config has, under what Redis has; Config is not told.
Loaded(read) ==
    IF read /\ seRedis # NoSettings THEN seRedis ELSE [k \in SeKeys |-> SeEnv]

SeInit ==
    /\ seReach \in BOOLEAN
    /\ seCache = [k \in SeKeys |-> SeEnv]
    /\ seConfig = [p \in Processes |-> [k \in SeKeys |-> SeEnv]]
    /\ seRedis = NoSettings
    /\ seSaved = FALSE
    /\ sePc = [u \in SeUsers |-> "idle"]
    /\ seKey = [u \in SeUsers |-> AllKeys]
    /\ seSent = [u \in SeUsers |-> NoSettings]
    /\ seCalls = 0

SeLocked == \E u \in SeUsers : sePc[u] = "save"

\* The value goes into the cache and the whole cache on its way to Redis.
Change(u, k, v) ==
    /\ sePc[u] = "idle" /\ seCalls < SeMaxCalls
    /\ seCache' = [seCache EXCEPT ![k] = v]
    /\ seKey' = [seKey EXCEPT ![u] = k]
    /\ seSent' = [seSent EXCEPT ![u] = seCache']
    /\ sePc' = [sePc EXCEPT ![u] = "save"]
    /\ seCalls' = seCalls + 1
    /\ UNCHANGED <<seConfig, seRedis, seReach, seSaved>>

\* Fault variant: the values are sent without the lock, so that two requests
\* can reach Redis in either order.
SeSetUnlocked(u, k, v) == Change(u, k, v)

\* set and reset, with the lock until Redis answered.
SeSet(u, k, v) == ~SeLocked /\ Change(u, k, v)

\* reset_all: the same for every setting, and Config before the values are
\* sent.
SeResetAll(u) ==
    /\ sePc[u] = "idle" /\ ~SeLocked /\ seCalls < SeMaxCalls
    /\ seCache' = [k \in SeKeys |-> SeDefault]
    /\ seConfig' = [seConfig EXCEPT !["web"] = seCache']
    /\ seKey' = [seKey EXCEPT ![u] = AllKeys]
    /\ seSent' = [seSent EXCEPT ![u] = seCache']
    /\ sePc' = [sePc EXCEPT ![u] = "save"]
    /\ seCalls' = seCalls + 1
    /\ UNCHANGED <<seRedis, seReach, seSaved>>

\* _save_to_redis: it does nothing without Redis, and an error is ignored.
Store(u, ok) ==
    /\ seRedis' = IF ok THEN seSent[u] ELSE seRedis
    /\ seSaved' = ok

\* The lock is released and the change applied to Config, with no switch in
\* between.
Apply(u) ==
    /\ seConfig' = IF seKey[u] = AllKeys THEN seConfig
                   ELSE [seConfig EXCEPT !["web"][seKey[u]] = seCache[seKey[u]]]
    /\ sePc' = [sePc EXCEPT ![u] = "idle"]
    /\ seKey' = [seKey EXCEPT ![u] = AllKeys]
    /\ seSent' = [seSent EXCEPT ![u] = NoSettings]
    /\ UNCHANGED <<seCache, seReach, seCalls>>

\* Redis answered, or not in time.
SeSave(u) ==
    /\ sePc[u] = "save"
    /\ \E ok \in {seReach, FALSE} : Store(u, ok)
    /\ Apply(u)

\* /api/control and the chat with set_dry_run write Config and nothing else.
SeControl(k, v) ==
    /\ seCalls < SeMaxCalls
    /\ seConfig' = [seConfig EXCEPT !["web"][k] = v]
    /\ seCalls' = seCalls + 1
    /\ UNCHANGED <<seCache, seRedis, seReach, seSaved, sePc, seKey, seSent>>

\* The web application starts again, with Redis within reach or not, and may
\* fail to read the values.
SeRestart ==
    /\ seCalls < SeMaxCalls
    /\ seReach' \in BOOLEAN
    /\ \E read \in {seReach', FALSE} :
          /\ seCache' = Loaded(read)
          /\ seSaved' = (read /\ seRedis # NoSettings)
    /\ seConfig' = [seConfig EXCEPT !["web"] = [k \in SeKeys |-> SeEnv]]
    /\ sePc' = [u \in SeUsers |-> "idle"]
    /\ seKey' = [u \in SeUsers |-> AllKeys]
    /\ seSent' = [u \in SeUsers |-> NoSettings]
    /\ seCalls' = seCalls + 1
    /\ UNCHANGED seRedis

SeNext ==
    \/ SeRestart
    \/ \E k \in SeKeys, v \in SeValues : SeControl(k, v)
    \/ \E u \in SeUsers :
          \/ SeResetAll(u) \/ SeSave(u)
          \/ \E k \in SeKeys, v \in SeValues : SeSet(u, k, v)

\* Redis answers or the request to it times out.
SeSpec == SeInit /\ [][SeNext]_seVars /\ \A u \in SeUsers : WF_seVars(SeSave(u))

-----------------------------------------------------------------------------
\* The types of the manager's variables and of the requests' locals.
SeTypeOK ==
    /\ seCache \in Table /\ seConfig \in [Processes -> Table]
    /\ seRedis \in Table \cup {NoSettings}
    /\ seReach \in BOOLEAN /\ seSaved \in BOOLEAN
    /\ sePc \in [SeUsers -> {"idle", "save"}]
    /\ seKey \in [SeUsers -> SeKeys \cup {AllKeys}]
    /\ seSent \in [SeUsers -> Table \cup {NoSettings}]
    /\ seCalls \in 0 .. SeMaxCalls

\* Once Redis took the last change, it holds what the manager shows, so that
\* the next process starts with it, however the requests were interleaved.
StoredIsShown ==
    seSaved /\ (\A u \in SeUsers : sePc[u] = "idle") => seRedis = seCache

\* "Settings can be get/set at runtime and are synced across web and worker
\* services via Redis": a value that stays under a key in Redis becomes the
\* one each process works with.  (The worker never reads Redis, and a web
\* application that starts again shows the value without applying it.)
SettingsAreSynced ==
    \A p \in Processes, k \in SeKeys, v \in SeValues :
        <>[](seRedis # NoSettings /\ seRedis[k] = v) => []<>(seConfig[p][k] = v)
=============================================================================
