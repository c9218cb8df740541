------------------------------- MODULE Config -------------------------------
(***************************************************************************)
(* How init comes to its configuration: load_config_from_env and           *)
(* merge_configs of utils.py, validate and resolve of                      *)
(* application/config_service.py, and what the factory makes of the dead   *)
(* letter queue's section.                                                 *)
(*                                                                         *)
(* A configuration is a record with one field per setting.  Of the many    *)
(* settings there is one field for every way in which the code treats one. *)
(* None stands for None, for a variable that is not set and for a key that *)
(* the user's dict lacks.                                                  *)
(***************************************************************************)
EXTENDS Integers

CONSTANTS
    None,      \* not given
    Garbage    \* a text that is no number, in a LOGS_* variable

Required == {"url", "tenant_id", "app_name"}
Positive == {"max_size", "max_concurrent_flushes", "half_open_requests"}
NonNegative == {"max_retries"}
Numbers == Positive \cup NonNegative \cup {"dlq_max_size"}
Switches == {"intercept_console", "preserve_original_console", "dlq_enabled", "sanitize"}
Fields == Required \cup Numbers \cup Switches \cup {"levels", "dead_letter_queue"}

Levels == {"debug", "info", "warn", "error", "fatal"}
NoScheme == "loki"   \* a URL that urlparse finds no scheme in

ASSUME NoneAssumption == None # "" /\ None # TRUE /\ \A S \in SUBSET Levels : None # S

(* The values that stand in for an absent one.  The section of the dead    *)
(* letter queue is the only one whose absence says something.              *)
Default(f) ==
    CASE f \in Required                    -> ""
      [] f = "max_size"                    -> 100
      [] f = "max_concurrent_flushes"      -> 3
      [] f = "half_open_requests"          -> 3
      [] f = "max_retries"                 -> 3
      [] f = "dlq_max_size"                -> 1000
      [] f = "intercept_console"           -> FALSE
      [] f = "preserve_original_console"   -> TRUE
      [] f \in {"dlq_enabled", "sanitize"} -> TRUE
      [] f = "levels"                      -> Levels
      [] f = "dead_letter_queue"           -> None

(* LogsInterceptorConfig() *)
Empty == [f \in Fields |-> IF f \in Required THEN "" ELSE None]

(* _coerce_config: a dict that lacks a required key has an empty text. *)
Coerce(u) == [f \in Fields |-> IF u[f] = None /\ f \in Required THEN "" ELSE u[f]]

-----------------------------------------------------------------------------
(* load_config_from_env.  e holds what each variable is set to, and        *)
(* e.enabled what LOGS_ENABLED says.                                       *)

EnvMax(f) ==
    CASE f \in {"max_size", "dlq_max_size"} -> 1000000
      [] f = "max_concurrent_flushes"       -> 256
      [] f = "half_open_requests"           -> 100
      [] f = "max_retries"                  -> 20

EnvRange(f) == (IF f = "max_retries" THEN 0 ELSE 1)..EnvMax(f)

(* parse_int_range, parse_bool, _env_levels and env.get. *)
Parsed(e, f) ==
    IF f \in Numbers THEN IF e[f] \in EnvRange(f) THEN e[f] ELSE Default(f)
    ELSE IF f = "dead_letter_queue" THEN TRUE
    ELSE IF e[f] = None THEN Default(f)
    ELSE IF f = "levels" THEN e[f] \cap Levels
    ELSE e[f]

EnvActive(e) == e.enabled /\ \E f \in Required : e[f] \notin {None, ""}

LoadEnv(e) ==
    IF ~e.enabled THEN [Empty EXCEPT !.levels = {}]
    ELSE IF ~EnvActive(e) THEN Empty
    ELSE [f \in Fields |-> Parsed(e, f)]

-----------------------------------------------------------------------------
(* merge_configs                                                           *)

(* Mutant: the environment overrides the user. *)
OverSwapped(userValue, envValue) == IF envValue = None THEN userValue ELSE envValue

(* _merge_dataclass, for one field. *)
Over(userValue, envValue) == IF userValue = None THEN envValue ELSE userValue

(* app_name is merged by "or"; an empty text for the URL or the tenant is  *)
(* a value like any other.                                                 *)
Merge(u, e) ==
    [[f \in Fields |-> Over(u[f], e[f])] EXCEPT
        !.app_name = IF u.app_name \in {None, ""} THEN e.app_name ELSE u.app_name]

(* The configuration that init validates, for no argument or a dict. *)
Merged(user, e) == IF user = None THEN LoadEnv(e) ELSE Merge(Coerce(user), LoadEnv(e))

-----------------------------------------------------------------------------
(* Mutant: zero passes for a positive number. *)
ValidZero(c) ==
    /\ \A f \in Required : c[f] \notin {None, ""}
    /\ c.url # NoScheme
    /\ \A f \in Positive \cup NonNegative : c[f] # None => c[f] >= 0

(* ConfigService.validate finds no error. *)
Valid(c) ==
    /\ \A f \in Required : c[f] \notin {None, ""}
    /\ c.url # NoScheme
    /\ \A f \in Positive : c[f] # None => c[f] > 0
    /\ \A f \in NonNegative : c[f] # None => c[f] >= 0

(* Mutant: an absent number has no default. *)
ResolveNoNumbers(c) ==
    [f \in Fields |-> IF c[f] = None /\ f \notin Numbers THEN Default(f) ELSE c[f]]

(* ConfigService.resolve, and the factory for the size of the dead letter  *)
(* queue.  "or" takes an empty list of levels and a size of zero for       *)
(* absent.                                                                 *)
Resolve(c) ==
    [f \in Fields |->
        IF \/ c[f] = None
           \/ f = "levels" /\ c[f] = {}
           \/ f = "dlq_max_size" /\ c[f] = 0
        THEN Default(f)
        ELSE c[f]]

-----------------------------------------------------------------------------
(* For each setting by itself, what the settings' order of precedence      *)
(* says: the argument of init, else a usable variable, else the default.   *)
(* A variable is usable when LOGS_ENABLED does not switch all of them off  *)
(* and its value is in range.                                              *)
Given(f, v) == v # None /\ (f \in Required => v # "")

Usable(e, f) ==
    /\ EnvActive(e) /\ f # "dead_letter_queue"
    /\ Given(f, e[f])
    /\ f \in Numbers => e[f] \in EnvRange(f)
    /\ f = "levels" => e[f] \cap Levels # {}

(* The exceptions: two values of the argument cannot be had.  They stand   *)
(* for the default, and hide the variable.                                 *)
Unobtainable(f, v) == (f = "levels" /\ v = {}) \/ (f = "dlq_max_size" /\ v = 0)

Expected(user, e, f) ==
    IF user # None /\ Given(f, user[f])
    THEN IF Unobtainable(f, user[f]) THEN Default(f) ELSE user[f]
    ELSE IF Usable(e, f) THEN IF f = "levels" THEN e[f] \cap Levels ELSE e[f]
    ELSE IF f = "dead_letter_queue" /\ EnvActive(e) THEN TRUE
    ELSE Default(f)
=============================================================================
