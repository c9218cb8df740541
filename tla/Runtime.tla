------------------------------ MODULE Runtime ------------------------------
(***************************************************************************)
(* init and destroy of __init__.py, the factory, and the runtime           *)
(* interceptor that replaces print, sys.excepthook and the handlers of the *)
(* root logger.                                                            *)
(*                                                                         *)
(* The application calls init and destroy from its main thread.  The       *)
(* signal handlers of preload.py call destroy too; they run on the same    *)
(* thread, between any two steps of whatever it is doing, and to the end.  *)
(* Other code replaces print for a while and puts back what it found.      *)
(*                                                                         *)
(* pc[th] is the next step of the main thread and of a signal handler:     *)
(*   previous   previous = _global_runtime            __init__.py:203      *)
(*   restore    the test of _enabled                  interceptor :72      *)
(*   unhook     print and excepthook put back         interceptor :75-76   *)
(*   unhandle   root handlers put back                interceptor :78-86   *)
(*   close      logger.destroy()                      __init__.py:208, 243 *)
(*   create     LogsInterceptorFactory.create         __init__.py:212      *)
(*   hook       _patch_print, _patch_excepthook       interceptor :65-68   *)
(*   handle     _patch_logging                        interceptor :131-139 *)
(*   publish    _global_runtime = ...                 __init__.py:213      *)
(*   take, forget   the two statements of destroy     __init__.py:237-238  *)
(* print and sys.excepthook are saved, replaced and put back together, so  *)
(* hook stands for both.                                                   *)
(***************************************************************************)
EXTENDS Config, FiniteSets

CONSTANTS
    Runtimes,      \* the runtimes that may be created, a bound
    EnvVars,       \* the environments to start from
    UserConfigs    \* the arguments init is called with

ASSUME RuntimesAssumption == Runtimes \cap {None, "app", "builtin", "other"} = {}
ASSUME EnvVarsAssumption ==
    \A e \in EnvVars : \A f \in Switches : e[f] \in BOOLEAN \cup {None}
ASSUME UserConfigsAssumption ==
    \A user \in UserConfigs \ {None} :
        /\ \A f \in Numbers : user[f] \in Int \cup {None}
        /\ \A f \in Switches : user[f] \in BOOLEAN \cup {None}
        /\ user.levels # None => user.levels \subseteq Levels

VARIABLES
    env,             \* the LOGS_* variables of the process
    global,          \* _global_runtime
    status,          \* of each runtime's logger
    given,           \* the argument each runtime was created from
    config,          \* its resolved configuration
    enabled,         \* interceptor._enabled
    hook,            \* what print is: "builtin", "other", or a runtime
    original,        \* interceptor._original_print
    handlers,        \* of the root logger: "app", or a runtime's bridge
    savedHandlers,   \* interceptor._original_handlers
    otherHook,       \* what the other code's hook replaced and calls
    otherState,      \* unused, active, or removed again
    pc,
    mine,            \* the local previous or runtime of each thread
    wanted           \* <<the argument of the init under way>>, or <<>>

hookVars == <<enabled, hook, original, handlers, savedHandlers>>
otherVars == <<otherHook, otherState>>
runtimeVars == <<status, given, config>>
vars == <<env, global, runtimeVars, hookVars, otherVars, pc, mine, wanted>>

Threads == {"main", "signal"}
Open == {r \in Runtimes : status[r] = "open"}
Fresh == {r \in Runtimes : status[r] = "new"}

Goto(th, step) == pc' = [pc EXCEPT ![th] = step]

(* A signal handler runs to its end before the main thread goes on. *)
At(th, step) == pc[th] = step /\ (th = "main" => pc["signal"] = "idle")

Init ==
    /\ env \in EnvVars
    /\ global = None
    /\ status = [r \in Runtimes |-> "new"]
    /\ given = [r \in Runtimes |-> None]
    /\ config = [r \in Runtimes |-> None]
    /\ enabled = [r \in Runtimes |-> FALSE]
    /\ hook = "builtin"
    /\ original = [r \in Runtimes |-> None]
    /\ handlers = {"app"}
    /\ savedHandlers = [r \in Runtimes |-> {}]
    /\ otherHook = None /\ otherState = "unused"
    /\ pc = [th \in Threads |-> "idle"]
    /\ mine = [th \in Threads |-> None]
    /\ wanted = <<>>

-----------------------------------------------------------------------------
(* init.  A configuration with errors raises before anything is touched.   *)

CallInit(user) ==
    /\ At("main", "idle") /\ Fresh # {}
    /\ Valid(Merged(user, env))
    /\ wanted' = <<user>>
    /\ Goto("main", "previous")
    /\ UNCHANGED <<env, global, runtimeVars, hookVars, otherVars, mine>>

(* _auto_init_if_enabled passes what it has read from the environment as   *)
(* if it were the user's, when the required settings are there.            *)
AutoInit ==
    LET user == LoadEnv(env) IN
    /\ \A f \in Required : user[f] \notin {None, ""}
    /\ \A r \in Runtimes : status[r] = "new"
    /\ CallInit(user)

(* Mutant: the previous runtime is left as it is. *)
PreviousKept ==
    /\ At("main", "previous")
    /\ mine' = [mine EXCEPT !["main"] = global]
    /\ Goto("main", "create")
    /\ UNCHANGED <<env, global, runtimeVars, hookVars, otherVars, wanted>>

(* Mutant: the previous runtime is forgotten, and never destroyed. *)
PreviousForgotten ==
    /\ At("main", "previous")
    /\ global' = None
    /\ Goto("main", "create")
    /\ UNCHANGED <<env, runtimeVars, hookVars, otherVars, mine, wanted>>

Previous ==
    /\ At("main", "previous")
    /\ mine' = [mine EXCEPT !["main"] = global]
    /\ Goto("main", IF global = None THEN "create" ELSE "restore")
    /\ UNCHANGED <<env, global, runtimeVars, hookVars, otherVars, wanted>>

(* Mutant: _original_print is read where print is replaced. *)
CreateHooked ==
    /\ At("main", "create")
    /\ \E r \in Fresh :
          LET cfg == Resolve(Merged(wanted[1], env)) IN
          /\ status' = [status EXCEPT ![r] = "open"]
          /\ given' = [given EXCEPT ![r] = wanted[1]]
          /\ config' = [config EXCEPT ![r] = cfg]
          /\ mine' = [mine EXCEPT !["main"] = r]
          /\ original' = [original EXCEPT ![r] = r]
          /\ Goto("main", IF cfg.intercept_console THEN "hook" ELSE "publish")
    /\ UNCHANGED <<env, global, enabled, hook, handlers, savedHandlers, otherVars, wanted>>

(* The factory, up to the interceptor's constructor. *)
Create ==
    /\ At("main", "create")
    /\ \E r \in Fresh :
          LET cfg == Resolve(Merged(wanted[1], env)) IN
          /\ status' = [status EXCEPT ![r] = "open"]
          /\ given' = [given EXCEPT ![r] = wanted[1]]
          /\ config' = [config EXCEPT ![r] = cfg]
          /\ mine' = [mine EXCEPT !["main"] = r]
          /\ original' = [original EXCEPT ![r] = hook]
          /\ Goto("main", IF cfg.intercept_console THEN "hook" ELSE "publish")
    /\ UNCHANGED <<env, global, enabled, hook, handlers, savedHandlers, otherVars, wanted>>

(* A part cannot be built, a dead letter file that is not UTF-8 for one:   *)
(* init raises, and _global_runtime keeps the runtime it has just closed.  *)
CreateRaises ==
    /\ At("main", "create")
    /\ mine' = [mine EXCEPT !["main"] = None]
    /\ wanted' = <<>>
    /\ Goto("main", "idle")
    /\ UNCHANGED <<env, global, runtimeVars, hookVars, otherVars>>

Hook ==
    LET r == mine["main"] IN
    /\ At("main", "hook")
    /\ enabled' = [enabled EXCEPT ![r] = TRUE]
    /\ hook' = r
    /\ Goto("main", "handle")
    /\ UNCHANGED <<env, global, runtimeVars, original, handlers, savedHandlers,
                   otherVars, mine, wanted>>

Handle ==
    LET r == mine["main"] IN
    /\ At("main", "handle")
    /\ IF config[r].preserve_original_console
       THEN handlers' = handlers \cup {r} /\ UNCHANGED savedHandlers
       ELSE /\ savedHandlers' = [savedHandlers EXCEPT ![r] = handlers]
            /\ handlers' = {r}
    /\ Goto("main", "publish")
    /\ UNCHANGED <<env, global, runtimeVars, enabled, hook, original, otherVars,
                   mine, wanted>>

Publish ==
    /\ At("main", "publish")
    /\ global' = mine["main"]
    /\ mine' = [mine EXCEPT !["main"] = None]
    /\ wanted' = <<>>
    /\ Goto("main", "idle")
    /\ UNCHANGED <<env, runtimeVars, hookVars, otherVars>>

-----------------------------------------------------------------------------
(* The interceptor's restore and the logger's destroy, for whoever needs   *)
(* them: init, destroy, or destroy of the logger that init returned.       *)

(* A runtime without an interceptor is like one that is not enabled. *)
Restore(th) ==
    /\ At(th, "restore")
    /\ Goto(th, IF enabled[mine[th]] THEN "unhook" ELSE "close")
    /\ UNCHANGED <<env, global, runtimeVars, hookVars, otherVars, mine, wanted>>

Unhook(th) ==
    /\ At(th, "unhook")
    /\ hook' = original[mine[th]]
    /\ Goto(th, "unhandle")
    /\ UNCHANGED <<env, global, runtimeVars, enabled, original, handlers,
                   savedHandlers, otherVars, mine, wanted>>

(* Mutant: only the bridge is removed, whatever was done to the others. *)
UnhandleKeepsList(th) ==
    LET r == mine[th] IN
    /\ At(th, "unhandle")
    /\ handlers' = handlers \ {r}
    /\ enabled' = [enabled EXCEPT ![r] = FALSE]
    /\ Goto(th, "close")
    /\ UNCHANGED <<env, global, runtimeVars, hook, original, savedHandlers,
                   otherVars, mine, wanted>>

Unhandle(th) ==
    LET r == mine[th] IN
    /\ At(th, "unhandle")
    /\ handlers' = IF config[r].preserve_original_console THEN handlers \ {r}
                   ELSE savedHandlers[r]
    /\ enabled' = [enabled EXCEPT ![r] = FALSE]
    /\ Goto(th, "close")
    /\ UNCHANGED <<env, global, runtimeVars, hook, original, savedHandlers,
                   otherVars, mine, wanted>>

(* The service's destroy; a second one has no effect.  Within init, errors *)
(* are ignored and the creation follows.                                   *)
Close(th) ==
    /\ At(th, "close")
    /\ status' = [status EXCEPT ![mine[th]] = "destroyed"]
    /\ mine' = [mine EXCEPT ![th] = None]
    /\ Goto(th, IF th = "main" /\ wanted # <<>> THEN "create" ELSE "idle")
    /\ UNCHANGED <<env, global, given, config, hookVars, otherVars, wanted>>

-----------------------------------------------------------------------------
(* destroy *)

CallDestroy(th) ==
    /\ At(th, "idle")
    /\ global # None
    /\ Goto(th, "take")
    /\ UNCHANGED <<env, global, runtimeVars, hookVars, otherVars, mine, wanted>>

Take(th) ==
    /\ At(th, "take")
    /\ mine' = [mine EXCEPT ![th] = global]
    /\ Goto(th, "forget")
    /\ UNCHANGED <<env, global, runtimeVars, hookVars, otherVars, wanted>>

(* When a signal handler was faster, runtime is None: AttributeError. *)
Forget(th) ==
    /\ At(th, "forget")
    /\ global' = None
    /\ Goto(th, IF mine[th] = None THEN "idle" ELSE "restore")
    /\ UNCHANGED <<env, runtimeVars, hookVars, otherVars, mine, wanted>>

(* destroy of the logger that init returned: the factory's wrapped_destroy *)
(* restores the interceptor first.  _global_runtime stays.                 *)
CallLoggerDestroy ==
    /\ At("main", "idle")
    /\ \E r \in Open : mine' = [mine EXCEPT !["main"] = r]
    /\ Goto("main", "restore")
    /\ UNCHANGED <<env, global, runtimeVars, hookVars, otherVars, wanted>>

-----------------------------------------------------------------------------
(* Other code replaces print, from any thread, and later puts back what it *)
(* found.                                                                  *)
OtherHooks ==
    /\ otherState = "unused"
    /\ otherState' = "active"
    /\ otherHook' = hook
    /\ hook' = "other"
    /\ UNCHANGED <<env, global, runtimeVars, enabled, original, handlers,
                   savedHandlers, pc, mine, wanted>>

OtherUnhooks ==
    /\ otherState = "active"
    /\ otherState' = "removed"
    /\ hook' = otherHook
    /\ UNCHANGED <<env, global, runtimeVars, enabled, original, handlers,
                   savedHandlers, otherHook, pc, mine, wanted>>

Main ==
    \/ \E user \in UserConfigs : CallInit(user)
    \/ AutoInit \/ CallLoggerDestroy
    \/ Previous \/ Create \/ CreateRaises \/ Hook \/ Handle \/ Publish

Next ==
    \/ Main
    \/ \E th \in Threads :
          \/ CallDestroy(th) \/ Take(th) \/ Forget(th)
          \/ Restore(th) \/ Unhook(th) \/ Unhandle(th) \/ Close(th)
    \/ OtherHooks \/ OtherUnhooks

Spec == Init /\ [][Next]_vars

-----------------------------------------------------------------------------
Created == Runtimes \ Fresh
Enabled == {r \in Runtimes : enabled[r]}
AtRest == \A th \in Threads : pc[th] = "idle"

(* What a hook calls. *)
CalledBy(h) ==
    CASE h = "builtin" -> {}
      [] h = "other"   -> {otherHook}
      [] OTHER         -> IF config[h].preserve_original_console THEN {original[h]} ELSE {}

(* The hooks there are, and those that a call runs through: the smallest   *)
(* set that holds the current one and whatever one of them calls.          *)
HookValues == Created \cup {"builtin", "other"}
Chain ==
    {h \in HookValues :
        \A S \in SUBSET HookValues :
            hook \in S /\ (\A x \in S : CalledBy(x) \subseteq S) => h \in S}

(* The types of the package's state and of the interpreter's hooks. *)
TypeOK ==
    /\ global \in Runtimes \cup {None}
    /\ status \in [Runtimes -> {"new", "open", "destroyed"}]
    /\ \A r \in Created :
          /\ \A f \in Numbers : config[r][f] \in Int
          /\ \A f \in Switches : config[r][f] \in BOOLEAN
          /\ config[r].levels \subseteq Levels
    /\ enabled \in [Runtimes -> BOOLEAN]
    /\ hook \in Runtimes \cup {"builtin", "other"}
    /\ handlers \subseteq Runtimes \cup {"app"}
    /\ otherState \in {"unused", "active", "removed"}
    /\ mine \in [Threads -> Runtimes \cup {None}]

(* However init, destroy, failures of init and signals meet, no second     *)
(* logger is open, and none that neither _global_runtime nor a call under  *)
(* way knows of (__init__.py:203-216, 237-243).                            *)
OneOpenRuntime ==
    /\ Cardinality(Open) <= 1
    /\ Open \subseteq {global} \cup {mine[th] : th \in Threads}

(* Between the calls, what is hooked is exactly what the open logger asked *)
(* for: with none, print is the interpreter's and the root logger has the  *)
(* application's handlers, also after an init that raised or a restore in  *)
(* the middle of which a signal handler ran another one.  Print is left    *)
(* out once other code has replaced it, because its putting back may       *)
(* follow a restore.                                                       *)
HooksFollowRuntime ==
    AtRest =>
        /\ Enabled = {r \in Open : config[r].intercept_console}
        /\ handlers = Enabled \cup
              {h \in {"app"} : \A r \in Enabled : config[r].preserve_original_console}
        /\ otherState = "unused" =>
              hook \in IF Enabled = {} THEN {"builtin"} ELSE Enabled

(* In whatever order the package and other code replace and put back       *)
(* print, it reaches the interpreter's print in the end, unless a runtime  *)
(* on the way was told not to preserve it.                                 *)
PrintReachesConsole ==
    \/ "builtin" \in Chain
    \/ \E r \in Chain \cap Runtimes : ~config[r].preserve_original_console

(* The ranges of the constants of the other modules.  The size of the dead *)
(* letter queue is not among them: nothing validates it.                   *)
InRange(c) ==
    /\ \A f \in Positive : c[f] > 0
    /\ \A f \in NonNegative : c[f] >= 0
    /\ c.levels # {}

(* What validate lets through is in the ranges that the components assume: *)
(* MaxSizeAssumption of MemoryBuffer, MaxConcurrentFlushesAssumption of    *)
(* FlushQueue, ConfigAssumption of CircuitBreaker, MaxRetriesAssumption of *)
(* ResilientTransport; and some level passes the filter.                   *)
ResolvedInRange == \A r \in Created : InRange(config[r])

(* Through load, merge, resolve and the factory each setting comes from    *)
(* the argument of init, else from a usable variable, else from the        *)
(* default; but for two values of the argument that nobody can have, no    *)
(* levels at all and a dead letter queue of size zero: they give the       *)
(* default, whatever the variable says.                                    *)
SettingsPrecedence ==
    \A r \in Created : \A f \in Fields : config[r][f] = Expected(given[r], env, f)
=============================================================================
