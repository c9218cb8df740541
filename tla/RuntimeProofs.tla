--------------------------- MODULE RuntimeProofs ---------------------------
(***************************************************************************)
(* For all environments, arguments of init, and interleavings of the main  *)
(* thread, the signal handlers, other code that replaces print, and a      *)
(* caller of the module-level logger.  Two inductive invariants, one over  *)
(* the other:                                                              *)
(*                                                                         *)
(* SettingsInv  that the argument of the init under way has passed         *)
(*              validate has to be carried along, from the check until the *)
(*              factory uses it; then each setting is looked at by itself. *)
(* HooksInv     for each point at which a thread can stand, which runtime  *)
(*              is open, which one is hooked, and what a restore under way *)
(*              will put back.  A signal handler runs a whole destroy      *)
(*              between two steps of the main thread, so each part has to  *)
(*              survive that.                                              *)
(*                                                                         *)
(* Linked adds to both that no chain of hooks comes back to itself, and    *)
(* CallFollows a caller of the logger.  The sanitizer that a runtime is    *)
(* configured with comes last: its steps have an invariant of their own.   *)
(***************************************************************************)
EXTENDS LoggerProxy, CountingLemmas, FiniteSetTheorems, WellFoundedInduction,
        TLAPS

(* What init can be called with. *)
Argument(user) ==
    /\ user \in UserConfigs \cup {LoadEnv(env)}
    /\ Valid(Merged(user, env))

(* The argument of an init that is under way is valid. *)
WantedValid ==
    /\ env \in EnvVars
    /\ wanted # <<>> => Argument(wanted[1])
    /\ pc["main"] \in {"previous", "create"} => wanted # <<>>

(* A runtime that somebody holds has been created. *)
HandsCreated ==
    /\ global \in Created \cup {None}
    /\ \A th \in Threads : mine[th] \in Created \cup {None}

(* A runtime is configured from the argument it was created from. *)
Configured ==
    \A r \in Created :
        Argument(given[r]) /\ config[r] = Resolve(Merged(given[r], env))

(* The variables that are functions, with their domains. *)
Shapes ==
    /\ pc = [th \in Threads |-> pc[th]]
    /\ mine = [th \in Threads |-> mine[th]]
    /\ status = [r \in Runtimes |-> status[r]]
    /\ config = [r \in Runtimes |-> config[r]]
    /\ given = [r \in Runtimes |-> given[r]]

SettingsInv == Shapes /\ HandsCreated /\ WantedValid /\ Configured

-----------------------------------------------------------------------------
(* The settings, one by one.                                               *)

LEMMA Defaults ==
    /\ \A f \in Required : Default(f) = ""
    /\ \A f \in Numbers : Default(f) \in Int
    /\ \A f \in Switches : Default(f) \in BOOLEAN
    /\ Default("levels") = Levels
    /\ Default("dead_letter_queue") = None
<1>1. \A f \in Required : Default(f) = ""
  BY ZenonT(30) DEF Default, Required
<1>2. ASSUME NEW f \in Numbers PROVE Default(f) \in Int
  <2>1. CASE f = "max_size"
    BY <2>1 DEF Default, Required
  <2>2. CASE f = "max_concurrent_flushes"
    BY <2>2 DEF Default, Required
  <2>3. CASE f = "half_open_requests"
    BY <2>3 DEF Default, Required
  <2>4. CASE f = "max_retries"
    BY <2>4 DEF Default, Required
  <2>5. CASE f = "dlq_max_size"
    BY <2>5 DEF Default, Required
  <2> QED
    BY <2>1, <2>2, <2>3, <2>4, <2>5 DEF Numbers, Positive, NonNegative
<1>3. ASSUME NEW f \in Switches PROVE Default(f) \in BOOLEAN
  <2>1. CASE f = "intercept_console"
    BY <2>1 DEF Default, Required
  <2>2. CASE f = "preserve_original_console"
    BY <2>2 DEF Default, Required
  <2>3. CASE f = "dlq_enabled"
    BY <2>3 DEF Default, Required
  <2>4. CASE f = "sanitize"
    BY <2>4 DEF Default, Required
  <2> QED
    BY <2>1, <2>2, <2>3, <2>4 DEF Switches
<1>4. \A f : f = "levels" => Default(f) = Levels
  BY DEF Default, Required
<1>5. \A f : f = "dead_letter_queue" => Default(f) = None
  BY DEF Default, Required, Levels
<1> QED
  BY <1>1, <1>2, <1>3, <1>4, <1>5

LEMMA Kinds ==
    ASSUME NEW f \in Fields
    PROVE  /\ f \in Required => f \notin Numbers /\ f # "levels" /\ f # "dead_letter_queue"
           /\ f \in Numbers => f # "levels" /\ f # "dead_letter_queue"
           /\ f \in Switches => f \notin Required \cup Numbers /\ f # "levels" /\ f # "dead_letter_queue"
           /\ f = "app_name" => f \in Required
BY DEF Fields, Required, Numbers, Positive, NonNegative, Switches

LEMMA Loaded ==
    ASSUME NEW e, NEW f \in Fields
    PROVE  LoadEnv(e)[f] = IF EnvActive(e) THEN Parsed(e, f)
                           ELSE IF f \in Required THEN ""
                           ELSE IF f = "levels" /\ ~e.enabled THEN {} ELSE None
<1>1. CASE ~e.enabled
  BY <1>1, Kinds DEF LoadEnv, EnvActive, Empty
<1>2. CASE e.enabled
  BY <1>2 DEF LoadEnv, EnvActive, Empty
<1> QED
  BY <1>1, <1>2

LEMMA MergedField ==
    ASSUME NEW user, NEW e, NEW f \in Fields
    PROVE  Merged(user, e)[f] =
             IF user = None \/ ~Given(f, user[f]) 
             THEN IF user # None /\ f \in Required \ {"app_name"} THEN "" ELSE LoadEnv(e)[f] 
             ELSE user[f]
<1>1. CASE user = None
  BY <1>1 DEF Merged
<1>2. CASE user # None
  <2>1. Merged(user, e)[f] = Merge(Coerce(user), LoadEnv(e))[f]
    BY <1>2 DEF Merged
  <2>2. Coerce(user)[f] = IF user[f] = None /\ f \in Required THEN "" ELSE user[f]
    BY DEF Coerce
  <2>3. CASE f = "app_name"
    BY <1>2, <2>1, <2>2, <2>3, Kinds DEF Merge, Given
  <2>4. CASE f # "app_name"
    <3>1. Merge(Coerce(user), LoadEnv(e))[f] = Over(Coerce(user)[f], LoadEnv(e)[f])
      BY <2>4 DEF Merge
    <3> QED
      BY <1>2, <2>1, <2>2, <2>4, <3>1, NoneAssumption DEF Over, Given
  <2> QED
    BY <2>3, <2>4
<1> QED
  BY <1>1, <1>2

LEMMA Precedence ==
    ASSUME NEW user, NEW e, Valid(Merged(user, e)), NEW f \in Fields
    PROVE  Resolve(Merged(user, e))[f] = Expected(user, e, f)
<1> DEFINE c == Merged(user, e)
           v == c[f]
<1>1. Resolve(c)[f] = IF \/ v = None
                         \/ f = "levels" /\ v = {}
                         \/ f = "dlq_max_size" /\ v = 0
                      THEN Default(f) ELSE v
  BY DEF Resolve
<1>2. f \in Required => v \notin {None, ""}
  BY DEF Valid
<1>3. v = IF user = None \/ ~Given(f, user[f]) 
          THEN IF user # None /\ f \in Required \ {"app_name"} THEN "" ELSE LoadEnv(e)[f] 
          ELSE user[f]
  BY MergedField
<1>4. LoadEnv(e)[f] = IF EnvActive(e) THEN Parsed(e, f)
                           ELSE IF f \in Required THEN ""
                           ELSE IF f = "levels" /\ ~e.enabled THEN {} ELSE None
  BY Loaded
<1> HIDE DEF c, v
<1>5. CASE user # None /\ Given(f, user[f])
  <2>1. v = user[f] /\ v # None
    BY <1>3, <1>5 DEF Given
  <2>2. CASE Unobtainable(f, user[f])
    <3>1. Resolve(c)[f] = Default(f)
      BY <1>1, <2>1, <2>2 DEF Unobtainable
    <3>2. Expected(user, e, f) = Default(f)
      BY <1>5, <2>2 DEF Expected
    <3> QED
      BY <3>1, <3>2 DEF c
  <2>3. CASE ~Unobtainable(f, user[f])
    <3>1. Resolve(c)[f] = user[f]
      BY <1>1, <2>1, <2>3 DEF Unobtainable
    <3>2. Expected(user, e, f) = user[f]
      BY <1>5, <2>3 DEF Expected
    <3> QED
      BY <3>1, <3>2 DEF c
  <2> QED
    BY <2>2, <2>3
<1>6. CASE ~(user # None /\ Given(f, user[f]))
  <2>1. v = LoadEnv(e)[f]
    <3>1. CASE user # None /\ f \in Required \ {"app_name"}
      BY <1>2, <1>3, <1>6, <3>1
    <3>2. CASE ~(user # None /\ f \in Required \ {"app_name"})
      BY <1>3, <1>6, <3>2
    <3> QED
      BY <3>1, <3>2
  <2>2. Expected(user, e, f) = 
           IF Usable(e, f) THEN IF f = "levels" THEN e[f] \cap Levels ELSE e[f]
           ELSE IF f = "dead_letter_queue" /\ EnvActive(e) THEN TRUE
           ELSE Default(f)
    BY <1>6 DEF Expected
  <2>3. CASE ~EnvActive(e)
    <3>1. f \notin Required
      BY <1>2, <1>4, <2>1, <2>3, Zenon
    <3>2. v = IF f = "levels" /\ ~e.enabled THEN {} ELSE None
      BY <1>4, <2>1, <2>3, <3>1, Zenon
    <3>3. v = None \/ (f = "levels" /\ v = {})
      BY <3>2
    <3>4. Expected(user, e, f) = Default(f)
      BY <2>2, <2>3 DEF Usable
    <3> QED
      BY <1>1, <3>3, <3>4 DEF c
  <2>4. CASE EnvActive(e)
    <3>1. v = Parsed(e, f)
      BY <1>4, <2>1, <2>4
    <3>2. CASE f \in Numbers
      <4>1. v = IF e[f] \in EnvRange(f) THEN e[f] ELSE Default(f)
        BY <3>1, <3>2, Zenon DEF Parsed
      <4>2. f # "levels" /\ f # "dead_letter_queue" /\ f \notin Required
        BY <3>2, Kinds
      <4>3. Usable(e, f) <=> e[f] # None /\ e[f] \in EnvRange(f)
        BY <2>4, <3>2, <4>2, Zenon DEF Usable, Given
      <4>4. f = "dlq_max_size" /\ e[f] \in EnvRange(f) => e[f] # 0
        <5>1. EnvRange("dlq_max_size") = 1..EnvMax("dlq_max_size") /\ EnvMax("dlq_max_size") = 1000000
          BY DEF EnvRange, EnvMax
        <5>2. 0 \notin EnvRange("dlq_max_size")
          BY <5>1
        <5>3. ASSUME f = "dlq_max_size", e[f] \in EnvRange(f) PROVE e[f] # 0
          <6>1. e[f] \in EnvRange("dlq_max_size")
            BY <5>3, Zenon
          <6> QED
            BY <5>2, <6>1, Zenon
        <5> QED
          BY <5>3
      <4>5. ~(f = "dlq_max_size" /\ Default(f) = 0)
        <5>1. Default("dlq_max_size") = 1000
          BY DEF Default, Required
        <5>2. Default("dlq_max_size") # 0
          BY <5>1
        <5> QED
          BY <5>2, Zenon
      <4>6. CASE e[f] \in EnvRange(f)
        BY <1>1, <2>2, <4>1, <4>2, <4>3, <4>4, <4>6, Zenon DEF c
      <4>7. CASE e[f] \notin EnvRange(f)
        BY <1>1, <2>2, <4>1, <4>2, <4>3, <4>5, <4>7, Zenon DEF c
      <4> QED
        BY <4>6, <4>7
    <3>3. CASE f = "dead_letter_queue"
      BY <1>1, <2>2, <2>4, <3>1, <3>3, Kinds, NoneAssumption DEF Parsed, Usable, c
    <3>4. CASE f = "levels"
      <4>1. CASE e[f] = None
        <5>1. v = Default(f) /\ ~Usable(e, f)
          BY <3>1, <3>4, <4>1, Kinds DEF Parsed, Usable, Given
        <5> QED
          BY <1>1, <2>2, <3>4, <5>1 DEF c
      <4>2. CASE e[f] # None
        <5>1. v = e[f] \cap Levels /\ v # None
          BY <3>1, <3>4, <4>2, Kinds, NoneAssumption DEF Parsed
        <5>2. Usable(e, f) <=> v # {}
          BY <2>4, <3>4, <4>2, <5>1, Kinds DEF Usable, Given
        <5> QED
          BY <1>1, <2>2, <3>4, <5>1, <5>2 DEF c
      <4> QED
        BY <4>1, <4>2
    <3>5. CASE f \notin Numbers \cup {"dead_letter_queue", "levels"}
      <4>1. v = IF e[f] = None THEN Default(f) ELSE e[f]
        BY <3>1, <3>5 DEF Parsed
      <4>2. Usable(e, f) <=> Given(f, e[f])
        BY <2>4, <3>5 DEF Usable
      <4>3. Given(f, e[f]) <=> e[f] # None
        BY <1>2, <4>1, Defaults DEF Given
      <4> QED
        <5>1. f # "levels" /\ f # "dead_letter_queue" /\ f # "dlq_max_size"
          BY <3>5 DEF Numbers
        <5>2. CASE e[f] = None
          BY <1>1, <2>2, <4>1, <4>2, <4>3, <5>1, <5>2, Zenon DEF c
        <5>3. CASE e[f] # None
          BY <1>1, <2>2, <4>1, <4>2, <4>3, <5>1, <5>3, Zenon DEF c
        <5> QED
          BY <5>2, <5>3
    <3> QED
      BY <3>2, <3>3, <3>4, <3>5
  <2> QED
    BY <2>3, <2>4
<1> QED
  BY <1>5, <1>6

(* validate leaves nothing for resolve to turn into a bad number. *)
LEMMA ValidResolves ==
    ASSUME NEW c, Valid(c)
    PROVE  InRange(Resolve(c))
<1>1. ASSUME NEW f \in Positive
      PROVE  Resolve(c)[f] > 0
  <2>1. f \in Fields
    BY DEF Fields, Numbers
  <2>2. Default(f) > 0
    <3>1. CASE f = "max_size"
      BY <3>1 DEF Default, Required
    <3>2. CASE f = "max_concurrent_flushes"
      BY <3>2 DEF Default, Required
    <3>3. CASE f = "half_open_requests"
      BY <3>3 DEF Default, Required
    <3> QED
      BY <3>1, <3>2, <3>3 DEF Positive
  <2>3. c[f] # None => c[f] > 0
    BY DEF Valid
  <2>4. f # "levels" /\ f # "dlq_max_size"
    BY DEF Positive
  <2> QED
    BY <2>1, <2>2, <2>3, <2>4 DEF Resolve
<1>2. ASSUME NEW f \in NonNegative
      PROVE  Resolve(c)[f] >= 0
  <2>1. f \in Fields
    BY DEF Fields, Numbers
  <2>2. Default(f) >= 0
    BY DEF NonNegative, Default, Required
  <2>3. c[f] # None => c[f] >= 0
    BY DEF Valid
  <2>4. f # "levels" /\ f # "dlq_max_size"
    BY DEF NonNegative
  <2> QED
    BY <2>1, <2>2, <2>3, <2>4 DEF Resolve
<1>3. Resolve(c).levels # {}
  <2>1. "levels" \in Fields
    BY DEF Fields
  <2>2. Default("levels") # {}
    BY DEF Default, Levels, Required
  <2> QED
    BY <2>1, <2>2 DEF Resolve
<1> QED
  BY <1>1, <1>2, <1>3 DEF InRange

LEMMA EnvRangeInt == \A f \in Numbers : EnvRange(f) \subseteq Int
BY DEF EnvRange

(* What load_config_from_env returns has the types of an argument. *)
LEMMA LoadedTyped ==
    ASSUME NEW e \in EnvVars
    PROVE  /\ \A f \in Numbers : LoadEnv(e)[f] \in Int \cup {None}
           /\ \A f \in Switches : LoadEnv(e)[f] \in BOOLEAN \cup {None}
           /\ LoadEnv(e)["levels"] # None => LoadEnv(e)["levels"] \subseteq Levels
<1>1. ASSUME NEW f \in Numbers PROVE LoadEnv(e)[f] \in Int \cup {None}
  <2>1. f \in Fields /\ f \notin Required /\ f # "levels"
    BY Kinds DEF Fields
  <2>2. Parsed(e, f) \in Int
    BY <2>1, EnvRangeInt, Defaults DEF Parsed
  <2>3. LoadEnv(e)[f] = IF EnvActive(e) THEN Parsed(e, f) ELSE None
    BY <2>1, Loaded
  <2> QED
    BY <2>2, <2>3
<1>2. ASSUME NEW f \in Switches PROVE LoadEnv(e)[f] \in BOOLEAN \cup {None}
  <2>0. f \in Fields
    BY Zenon DEF Fields
  <2>1. f \notin Required /\ f \notin Numbers /\ f # "levels" /\ f # "dead_letter_queue"
    BY <2>0, Kinds
  <2>2. Parsed(e, f) = IF e[f] = None THEN Default(f) ELSE e[f]
    BY <2>1, Zenon DEF Parsed
  <2>3. e[f] \in BOOLEAN \cup {None} /\ Default(f) \in BOOLEAN
    BY EnvVarsAssumption, Defaults, Zenon
  <2>4. Parsed(e, f) \in BOOLEAN
    BY <2>2, <2>3, Zenon
  <2>5. LoadEnv(e)[f] = IF EnvActive(e) THEN Parsed(e, f) ELSE None
    BY <2>0, <2>1, Loaded, Zenon
  <2> QED
    BY <2>4, <2>5, Zenon
<1>3. LoadEnv(e)["levels"] # None => LoadEnv(e)["levels"] \subseteq Levels
  <2>1. "levels" \in Fields /\ "levels" \notin Required /\ "levels" \notin Numbers
    BY Kinds DEF Fields
  <2>2. Parsed(e, "levels") = IF e["levels"] = None THEN Levels ELSE e["levels"] \cap Levels
    BY <2>1, Defaults DEF Parsed
  <2>3. LoadEnv(e)["levels"] = IF EnvActive(e) THEN Parsed(e, "levels")
                               ELSE IF ~e.enabled THEN {} ELSE None
    BY <2>1, Loaded
  <2> QED
    BY <2>2, <2>3
<1> QED
  BY <1>1, <1>2, <1>3

(* Each setting has its type, whichever of the three it comes from. *)
LEMMA ExpectedTyped ==
    ASSUME NEW e \in EnvVars, NEW user \in UserConfigs \cup {LoadEnv(e)}
    PROVE  /\ \A f \in Numbers : Expected(user, e, f) \in Int
           /\ \A f \in Switches : Expected(user, e, f) \in BOOLEAN
           /\ Expected(user, e, "levels") \subseteq Levels
<1>1. user # None =>
         /\ \A f \in Numbers : user[f] \in Int \cup {None}
         /\ \A f \in Switches : user[f] \in BOOLEAN \cup {None}
         /\ user["levels"] # None => user["levels"] \subseteq Levels
  BY UserConfigsAssumption, LoadedTyped
<1>2. ASSUME NEW f \in Numbers PROVE Expected(user, e, f) \in Int
  <2>1. f \in Fields /\ f # "levels" /\ f # "dead_letter_queue"
    BY Kinds DEF Fields
  <2> QED
    BY <1>1, <2>1, EnvRangeInt, Defaults DEF Expected, Usable, Given
<1>3. ASSUME NEW f \in Switches PROVE Expected(user, e, f) \in BOOLEAN
  <2>1. f \in Fields /\ f # "levels" /\ f # "dead_letter_queue"
    BY Kinds DEF Fields
  <2>2. /\ Given(f, e[f]) => e[f] \in BOOLEAN
        /\ user # None /\ Given(f, user[f]) => user[f] \in BOOLEAN
    BY <1>1, EnvVarsAssumption, Zenon DEF Given
  <2> QED
    BY <2>1, <2>2, Defaults, Zenon DEF Expected, Usable
<1>4. Expected(user, e, "levels") \subseteq Levels
  BY <1>1, Defaults DEF Expected, Given
<1> QED
  BY <1>2, <1>3, <1>4

LEMMA InitialState == Init => SettingsInv
BY DEF Init, SettingsInv, Shapes, HandsCreated, WantedValid, Configured,
       Created, Fresh, Threads

(* A step of th to pc step that creates nothing.  x is what th holds then. *)
LEMMA QuietStep ==
    ASSUME SettingsInv, NEW th \in Threads, NEW step, NEW x \in Created \cup {None},
           Goto(th, step),
           mine' = [mine EXCEPT ![th] = x],
           global' \in Created \cup {None},
           status' = [r \in Runtimes |-> status'[r]], Created' = Created,
           UNCHANGED <<env, config, given>>,
           \/ th = "main" /\ wanted' = <<>>
           \/ wanted' = wanted /\ (step \in {"previous", "create"} => wanted # <<>>),
           th = "main" /\ wanted' = <<>> => step \notin {"previous", "create"}
    PROVE  SettingsInv'
<1>1. Shapes'
  BY DEF SettingsInv, Shapes, Goto
<1>2. HandsCreated'
  BY DEF SettingsInv, Shapes, HandsCreated
<1>3. WantedValid'
  <2>1. pc'["main"] = IF th = "main" THEN step ELSE pc["main"]
    BY DEF SettingsInv, Shapes, Goto, Threads
  <2> QED
    BY <2>1 DEF SettingsInv, WantedValid, Argument
<1>4. Configured'
  BY DEF SettingsInv, Configured, Argument
<1> QED
  BY <1>1, <1>2, <1>3, <1>4 DEF SettingsInv

(* The same when th holds what it held before. *)
LEMMA QuietStepSameHand ==
    ASSUME SettingsInv, NEW th \in Threads, NEW step,
           Goto(th, step), step \notin {"previous", "create"},
           UNCHANGED <<mine, status, env, config, given, wanted>>,
           global' \in Created \cup {None}
    PROVE  SettingsInv'
<1>1. mine' = [mine EXCEPT ![th] = mine[th]]
  BY DEF SettingsInv, Shapes
<1>2. mine[th] \in Created \cup {None}
  BY DEF SettingsInv, HandsCreated
<1>3. Created' = Created /\ status' = [r \in Runtimes |-> status'[r]]
  BY DEF SettingsInv, Shapes, Created, Fresh
<1> QED
  BY <1>1, <1>2, <1>3, QuietStep

LEMMA CallInitStep ==
    ASSUME SettingsInv, NEW user \in UserConfigs \cup {LoadEnv(env)}, CallInit(user)
    PROVE  SettingsInv'
<1> USE DEF CallInit, runtimeVars
<1>1. Shapes'
  BY DEF SettingsInv, Shapes, Goto
<1>2. HandsCreated'
  BY DEF SettingsInv, HandsCreated, Created, Fresh
<1>3. WantedValid'
  BY DEF SettingsInv, WantedValid, Argument
<1>4. Configured'
  BY DEF SettingsInv, Configured, Argument, Created, Fresh
<1> QED
  BY <1>1, <1>2, <1>3, <1>4 DEF SettingsInv

LEMMA CreateStep ==
    ASSUME SettingsInv, Create
    PROVE  SettingsInv'
<1> DEFINE cfg == Resolve(Merged(wanted[1], env))
<1>1. PICK r \in Fresh :
          /\ status' = [status EXCEPT ![r] = "open"]
          /\ given' = [given EXCEPT ![r] = wanted[1]]
          /\ config' = [config EXCEPT ![r] = cfg]
          /\ mine' = [mine EXCEPT !["main"] = r]
          /\ Goto("main", IF cfg.intercept_console THEN "hook" ELSE "publish")
  BY DEF Create
<1>2. Argument(wanted[1]) /\ UNCHANGED <<env, global, wanted>>
  BY DEF SettingsInv, WantedValid, Create, At
<1> HIDE DEF cfg
<1>3. Created' = Created \cup {r}
  BY <1>1 DEF SettingsInv, Shapes, Created, Fresh
<1>4. Shapes'
  BY <1>1 DEF SettingsInv, Shapes, Goto
<1>5. HandsCreated'
  BY <1>1, <1>2, <1>3 DEF SettingsInv, Shapes, HandsCreated
<1>6. WantedValid'
  <2>1. pc'["main"] \notin {"previous", "create"}
    BY <1>1 DEF SettingsInv, Shapes, Goto, Threads
  <2> QED
    BY <1>2, <2>1 DEF SettingsInv, WantedValid, Argument
<1>7. Configured'
  <2>1. r \in Runtimes /\ r \notin Created
    BY DEF Created, Fresh
  <2>2. \A q \in Created' : /\ config'[q] = IF q = r THEN cfg ELSE config[q]
                            /\ given'[q] = IF q = r THEN wanted[1] ELSE given[q]
    BY <1>1, <2>1, <1>3 DEF SettingsInv, Shapes, Created
  <2> QED
    BY <1>2, <1>3, <2>2 DEF SettingsInv, Configured, Argument, cfg
<1> QED
  BY <1>4, <1>5, <1>6, <1>7 DEF SettingsInv

(* The steps of init. *)
LEMMA MainSteps ==
    ASSUME SettingsInv, Main
    PROVE  SettingsInv'
<1> USE DEF runtimeVars
<1>a. "main" \in Threads /\ global \in Created \cup {None} /\ None \in Created \cup {None}
  BY DEF Threads, SettingsInv, HandsCreated
<1>b. UNCHANGED status => Created' = Created /\ status' = [r \in Runtimes |-> status'[r]]
  BY DEF SettingsInv, Shapes, Created, Fresh
<1>1. CASE \E user \in UserConfigs : CallInit(user)
  BY <1>1, CallInitStep
<1>2. CASE AutoInit
  BY <1>2, CallInitStep DEF AutoInit
<1>3. CASE CallLoggerDestroy
  <2>1. PICK r \in Open : mine' = [mine EXCEPT !["main"] = r]
    BY <1>3 DEF CallLoggerDestroy
  <2>2. r \in Created
    BY DEF Open, Created, Fresh
  <2>3. Goto("main", "restore") /\ UNCHANGED <<env, global, config, given, status, wanted>>
    BY <1>3 DEF CallLoggerDestroy
  <2> QED
    BY <1>a, <1>b, <2>1, <2>2, <2>3, QuietStep
<1>4. CASE Previous
  <2>1. /\ UNCHANGED <<env, global, config, given, status, wanted>>
        /\ Goto("main", IF global = None THEN "create" ELSE "restore")
        /\ mine' = [mine EXCEPT !["main"] = global]
    BY <1>4 DEF Previous
  <2>2. wanted # <<>>
    BY <1>4 DEF Previous, At, SettingsInv, WantedValid
  <2> QED
    BY <1>a, <1>b, <2>1, <2>2, QuietStep
<1>5. CASE Create
  BY <1>5, CreateStep
<1>6. CASE CreateRaises
  <2>1. /\ Goto("main", "idle") /\ UNCHANGED <<env, global, config, given, status>>
        /\ wanted' = <<>> /\ mine' = [mine EXCEPT !["main"] = None]
    BY <1>6 DEF CreateRaises
  <2> QED
    BY <1>a, <1>b, <2>1, QuietStep
<1>7. CASE Hook
  <2>1. Goto("main", "handle") /\ UNCHANGED <<mine, env, global, config, given, status, wanted>>
    BY <1>7 DEF Hook
  <2> QED
    BY <1>a, <2>1, QuietStepSameHand
<1>8. CASE Handle
  <2>1. Goto("main", "publish") /\ UNCHANGED <<mine, env, global, config, given, status, wanted>>
    BY <1>8 DEF Handle
  <2> QED
    BY <1>a, <2>1, QuietStepSameHand
<1>9. CASE Publish
  <2>1. /\ Goto("main", "idle") /\ UNCHANGED <<env, config, given, status>> /\ wanted' = <<>>
        /\ mine' = [mine EXCEPT !["main"] = None] /\ global' = mine["main"]
    BY <1>9 DEF Publish
  <2>2. mine["main"] \in Created \cup {None}
    BY <1>a DEF SettingsInv, HandsCreated
  <2> QED
    BY <1>a, <1>b, <2>1, <2>2, QuietStep
<1> QED
  BY <1>1, <1>2, <1>3, <1>4, <1>5, <1>6, <1>7, <1>8, <1>9 DEF Main

(* The steps of destroy, of restore and of the logger's destroy. *)
LEMMA DestroySteps ==
    ASSUME SettingsInv, NEW th \in Threads,
           \/ CallDestroy(th) \/ Take(th) \/ Forget(th)
           \/ Restore(th) \/ Unhook(th) \/ Unhandle(th) \/ Close(th)
    PROVE  SettingsInv'
<1> USE DEF runtimeVars
<1>a. global \in Created \cup {None} /\ None \in Created \cup {None}
  BY DEF SettingsInv, HandsCreated
<1>1. CASE CallDestroy(th)
  <2>1. Goto(th, "take") /\ UNCHANGED <<mine, env, global, config, given, status, wanted>>
    BY <1>1 DEF CallDestroy
  <2> QED
    BY <1>a, <2>1, QuietStepSameHand
<1>2. CASE Take(th)
  <2>1. /\ Goto(th, "forget") /\ UNCHANGED <<env, global, config, given, status, wanted>>
        /\ mine' = [mine EXCEPT ![th] = global]
    BY <1>2 DEF Take
  <2>2. Created' = Created /\ status' = [r \in Runtimes |-> status'[r]]
    BY <2>1 DEF SettingsInv, Shapes, Created, Fresh
  <2> QED
    BY <1>a, <2>1, <2>2, QuietStep
<1>3. CASE Forget(th)
  <2>1. /\ Goto(th, IF mine[th] = None THEN "idle" ELSE "restore")
        /\ UNCHANGED <<mine, env, config, given, status, wanted>> /\ global' = None
    BY <1>3 DEF Forget
  <2> QED
    BY <1>a, <2>1, QuietStepSameHand
<1>4. CASE Restore(th)
  <2>1. /\ Goto(th, IF enabled[mine[th]] THEN "unhook" ELSE "close")
        /\ UNCHANGED <<mine, env, global, config, given, status, wanted>>
    BY <1>4 DEF Restore
  <2> QED
    BY <1>a, <2>1, QuietStepSameHand
<1>5. CASE Unhook(th)
  <2>1. Goto(th, "unhandle") /\ UNCHANGED <<mine, env, global, config, given, status, wanted>>
    BY <1>5 DEF Unhook
  <2> QED
    BY <1>a, <2>1, QuietStepSameHand
<1>6. CASE Unhandle(th)
  <2>1. Goto(th, "close") /\ UNCHANGED <<mine, env, global, config, given, status, wanted>>
    BY <1>6 DEF Unhandle
  <2> QED
    BY <1>a, <2>1, QuietStepSameHand
<1>7. CASE Close(th)
  <2>1. /\ Goto(th, IF th = "main" /\ wanted # <<>> THEN "create" ELSE "idle")
        /\ status' = [status EXCEPT ![mine[th]] = "destroyed"]
        /\ mine' = [mine EXCEPT ![th] = None]
        /\ UNCHANGED <<env, global, config, given, wanted>>
    BY <1>7 DEF Close
  <2>2. status' = [r \in Runtimes |-> status'[r]]
    BY <2>1 DEF SettingsInv, Shapes
  <2>3. Created' = Created
    <3>1. mine[th] \in Created \cup {None}
      BY DEF SettingsInv, HandsCreated
    <3> QED
      BY <2>1, <3>1, RuntimesAssumption DEF SettingsInv, Shapes, Created, Fresh
  <2> QED
    BY <1>a, <2>1, <2>2, <2>3, QuietStep
<1> QED
  BY <1>1, <1>2, <1>3, <1>4, <1>5, <1>6, <1>7

LEMMA Inductive == SettingsInv /\ [Next]_vars => SettingsInv'
<1> SUFFICES ASSUME SettingsInv, [Next]_vars PROVE SettingsInv'
  OBVIOUS
<1>1. CASE Main
  BY <1>1, MainSteps
<1>2. CASE \E th \in Threads :
              \/ CallDestroy(th) \/ Take(th) \/ Forget(th)
              \/ Restore(th) \/ Unhook(th) \/ Unhandle(th) \/ Close(th)
  BY <1>2, DestroySteps
<1>3. CASE OtherHooks \/ OtherUnhooks \/ UNCHANGED vars
  <2>1. UNCHANGED <<pc, mine, global, status, config, given, wanted, env>>
    BY <1>3 DEF OtherHooks, OtherUnhooks, vars, runtimeVars
  <2> QED
    BY <2>1 DEF SettingsInv, Shapes, HandsCreated, WantedValid, Configured, Argument,
                Created, Fresh
<1> QED
  BY <1>1, <1>2, <1>3 DEF Next

(* The settings keep their invariant in every reachable state. *)
THEOREM SettingsInvariant == Spec => []SettingsInv
<1> QED
  BY InitialState, Inductive, PTL DEF Spec

(* For every environment and every argument of init, each runtime that is  *)
(* created has settings in the ranges its components assume.               *)
THEOREM SettingsInRange == Spec => []ResolvedInRange
<1>1. SettingsInv => ResolvedInRange
  BY ValidResolves DEF SettingsInv, Configured, Argument, ResolvedInRange
<1> QED
  BY <1>1, SettingsInvariant, PTL

(* For every environment and every argument of init, each setting of each  *)
(* runtime comes from the argument, else from a usable variable, else from *)
(* the default: load_config_from_env, merge_configs, validate and resolve  *)
(* together do what the order of precedence says of one setting by itself. *)
THEOREM PrecedenceKept == Spec => []SettingsPrecedence
<1>1. SettingsInv => SettingsPrecedence
  BY Precedence DEF SettingsInv, Configured, Argument, SettingsPrecedence
<1> QED
  BY <1>1, SettingsInvariant, PTL

-----------------------------------------------------------------------------
(* Runtimes and hooks.  A signal handler runs to its end while the main    *)
(* thread stands between two of its steps, so what is true of the main     *)
(* thread's next step has to survive a whole destroy.                      *)

Restoring == {"restore", "unhook", "unhandle", "close"}
Creating == {"hook", "handle", "publish"}
Steps == {"idle", "previous", "create", "take", "forget"} \cup Restoring \cup Creating
AnyHook == Runtimes \cup {"builtin", "other"}
Asked(r) == config[r].intercept_console
Preserving(r) == config[r].preserve_original_console

(* Who stands where holds a runtime or none; only init creates. *)
Hands ==
    /\ \A th \in Threads :
          /\ pc[th] \in Steps
          /\ pc[th] \in {"idle", "previous", "take", "create"} => mine[th] = None
          /\ pc[th] \in Restoring \cup Creating => mine[th] # None
    /\ pc["signal"] \notin {"previous", "create"} \cup Creating
    /\ pc["signal"] = "forget" => mine["signal"] = global
    /\ pc["signal"] \in Restoring => global = None

(* The open runtime, if there is one, is where the main thread looks next: *)
(* there is none when it creates one, and the one it has created is in no  *)
(* other hand until it is published.                                       *)
OpenReached ==
    /\ pc["main"] \in {"idle", "previous", "take"} => Open \subseteq {global, mine["signal"]}
    /\ pc["main"] = "create" => Open = {}
    /\ pc["main"] \in Restoring \cup Creating \cup {"forget"} => Open \subseteq {mine["main"]}
    /\ pc["main"] \in Creating =>
          /\ mine["main"] \in Open
          /\ mine["main"] \notin {global, mine["signal"]}

(* The types of the hooks and of what is remembered about them. *)
HooksTyped ==
    /\ status \in [Runtimes -> {"new", "open", "destroyed"}]
    /\ enabled \in [Runtimes -> BOOLEAN]
    /\ original = [r \in Runtimes |-> original[r]]
    /\ handlers \subseteq Runtimes \cup {"app"}
    /\ savedHandlers \in [Runtimes -> SUBSET (Runtimes \cup {"app"})]
    /\ hook \in AnyHook
    /\ \A r \in Created : original[r] \in AnyHook
    /\ otherState \in {"unused", "active", "removed"}
    /\ otherState # "unused" => otherHook \in AnyHook

(* Only an open runtime that was asked to is hooked, and one that was      *)
(* asked to is, but between its creation and its hooking, and between its  *)
(* restoring and its closing, by whichever thread.                         *)
EnabledRight ==
    /\ \A r \in Enabled : r \in Open /\ Asked(r)
    /\ \A r \in Open : Asked(r) =>
          \/ enabled[r]
          \/ pc["main"] = "hook" /\ mine["main"] = r
          \/ \E th \in Threads : pc[th] = "close" /\ mine[th] = r
    /\ \A th \in Threads : pc[th] = "close" => ~enabled[mine[th]]
    /\ pc["main"] = "hook" => Asked(mine["main"]) /\ ~enabled[mine["main"]]
    /\ pc["main"] = "handle" => enabled[mine["main"]]
    /\ pc["signal"] \in {"unhook", "unhandle"} => enabled[mine["signal"]]

(* The root logger's handlers follow the hooked runtime, and the list that *)
(* a restore under way will put back is the application's.                 *)
HandlersRight ==
    /\ Enabled = {} => handlers = {"app"}
    /\ \A r \in Enabled :
          IF pc["main"] = "handle" THEN handlers = {"app"}
          ELSE IF Preserving(r) THEN handlers = {"app", r}
          ELSE handlers = {r} /\ savedHandlers[r] = {"app"}
    /\ \A th \in Threads :
          pc[th] \in {"unhook", "unhandle"} /\ ~Preserving(mine[th])
             => savedHandlers[mine[th]] = {"app"}

(* So does print, as long as no other code has replaced it.                *)
PrintRight ==
    otherState = "unused" =>
        /\ \A r \in Created : original[r] = "builtin"
        /\ Enabled = {} \/ (\E th \in Threads : pc[th] = "unhandle") => hook = "builtin"
        /\ \A r \in Enabled :
              hook = r \/ \E th \in Threads : pc[th] = "unhandle" /\ mine[th] = r

(* The invariant about runtimes and hooks. *)
HooksInv ==
    /\ Hands
    /\ OpenReached
    /\ HooksTyped
    /\ EnabledRight
    /\ HandlersRight
    /\ PrintRight

(* What Create does. *)
LEMMA Creates ==
    ASSUME SettingsInv, Create
    PROVE  \E r \in Fresh, step \in {"hook", "publish"} :
              /\ status' = [status EXCEPT ![r] = "open"]
              /\ mine' = [mine EXCEPT !["main"] = r]
              /\ original' = [original EXCEPT ![r] = hook]
              /\ pc' = [pc EXCEPT !["main"] = step]
<1>1. PICK r \in Fresh :
          LET cfg == Resolve(Merged(wanted[1], env)) IN
          /\ status' = [status EXCEPT ![r] = "open"]
          /\ mine' = [mine EXCEPT !["main"] = r]
          /\ original' = [original EXCEPT ![r] = hook]
          /\ pc' = [pc EXCEPT !["main"] = IF cfg.intercept_console THEN "hook" ELSE "publish"]
  BY DEF Create, Goto
<1> QED
  BY <1>1

(* What a thread holds at its next step. *)
LEMMA HandsStep ==
    ASSUME SettingsInv, SettingsInv', Hands, Next
    PROVE  Hands'
<1> USE RuntimesAssumption
    DEF SettingsInv, Shapes, runtimeVars, hookVars, otherVars, At, Goto, Threads,
           Restoring, Creating, Hands, Steps, Open
<1>1. ASSUME NEW user, CallInit(user) PROVE Hands'
  BY <1>1 DEF CallInit
<1>2. CASE Previous
  BY <1>2 DEF Previous
<1>3. CASE Create
  <2>1. PICK r \in Fresh, step \in {"hook", "publish"} :
           mine' = [mine EXCEPT !["main"] = r] /\ pc' = [pc EXCEPT !["main"] = step]
    BY <1>3, Creates
  <2>2. r # None
    BY <2>1 DEF Fresh
  <2>3. pc["signal"] = "idle" /\ global' = global
    BY <1>3 DEF Create
  <2> QED
    BY <2>1, <2>2, <2>3
<1>4. CASE CreateRaises
  BY <1>4 DEF CreateRaises
<1>5. CASE Hook
  BY <1>5 DEF Hook
<1>6. CASE Handle
  BY <1>6 DEF Handle
<1>7. CASE Publish
  BY <1>7 DEF Publish
<1>8. CASE CallLoggerDestroy
  BY <1>8 DEF CallLoggerDestroy
<1>9. ASSUME NEW th \in Threads, CallDestroy(th) PROVE Hands'
  BY <1>9 DEF CallDestroy
<1>10. ASSUME NEW th \in Threads, Take(th) PROVE Hands'
  BY <1>10 DEF Take
<1>11. ASSUME NEW th \in Threads, Forget(th) PROVE Hands'
  BY <1>11 DEF Forget
<1>12. ASSUME NEW th \in Threads, Restore(th) PROVE Hands'
  BY <1>12 DEF Restore
<1>13. ASSUME NEW th \in Threads, Unhook(th) PROVE Hands'
  BY <1>13 DEF Unhook
<1>14. ASSUME NEW th \in Threads, Unhandle(th) PROVE Hands'
  BY <1>14 DEF Unhandle
<1>15. ASSUME NEW th \in Threads, Close(th) PROVE Hands'
  BY <1>15 DEF Close
<1>16. CASE OtherHooks
  BY <1>16 DEF OtherHooks
<1>17. CASE OtherUnhooks
  BY <1>17 DEF OtherUnhooks
<1> HIDE DEF SettingsInv, Shapes, At, Goto, Threads, Restoring, Creating,
           Hands, Steps, Open
<1> QED
  BY <1>1, <1>2, <1>3, <1>4, <1>5, <1>6, <1>7, <1>8, <1>9, <1>10,
     <1>11, <1>12, <1>13, <1>14, <1>15, <1>16, <1>17
     DEF Next, Main, AutoInit

(* The open runtime stays in reach of the main thread. *)
LEMMA OpenReachedStep ==
    ASSUME SettingsInv, SettingsInv', Hands, OpenReached, Next
    PROVE  OpenReached'
<1> USE RuntimesAssumption
    DEF SettingsInv, Shapes, runtimeVars, hookVars, otherVars, At, Goto, Threads,
           Restoring, Creating, Hands, OpenReached, Open, Created, Fresh, HandsCreated
<1>1. ASSUME NEW user, CallInit(user) PROVE OpenReached'
  BY <1>1 DEF CallInit
<1>2. CASE Previous
  BY <1>2 DEF Previous
<1>3. CASE Create
  <2>1. PICK r \in Fresh, step \in {"hook", "publish"} :
           /\ status' = [status EXCEPT ![r] = "open"]
           /\ mine' = [mine EXCEPT !["main"] = r]
           /\ pc' = [pc EXCEPT !["main"] = step]
    BY <1>3, Creates
  <2>2. Open = {} /\ global' = global
    BY <1>3 DEF Create
  <2>3. Open' = {r}
    BY <2>1, <2>2
  <2>4. r # global /\ r # mine["signal"]
    BY <2>1
  <2> QED
    BY <2>1, <2>2, <2>3, <2>4
<1>4. CASE CreateRaises
  BY <1>4 DEF CreateRaises
<1>5. CASE Hook
  BY <1>5 DEF Hook
<1>6. CASE Handle
  BY <1>6 DEF Handle
<1>7. CASE Publish
  BY <1>7 DEF Publish
<1>8. CASE CallLoggerDestroy
  BY <1>8 DEF CallLoggerDestroy
<1>9. ASSUME NEW th \in Threads, CallDestroy(th) PROVE OpenReached'
  BY <1>9 DEF CallDestroy
<1>10. ASSUME NEW th \in Threads, Take(th) PROVE OpenReached'
  BY <1>10 DEF Take
<1>11. ASSUME NEW th \in Threads, Forget(th) PROVE OpenReached'
  BY <1>11 DEF Forget
<1>12. ASSUME NEW th \in Threads, Restore(th) PROVE OpenReached'
  BY <1>12 DEF Restore
<1>13. ASSUME NEW th \in Threads, Unhook(th) PROVE OpenReached'
  BY <1>13 DEF Unhook
<1>14. ASSUME NEW th \in Threads, Unhandle(th) PROVE OpenReached'
  BY <1>14 DEF Unhandle
<1>15. ASSUME NEW th \in Threads, Close(th) PROVE OpenReached'
  BY <1>15, SMTT(20) DEF Close
<1>16. CASE OtherHooks
  BY <1>16 DEF OtherHooks
<1>17. CASE OtherUnhooks
  BY <1>17 DEF OtherUnhooks
<1> HIDE DEF SettingsInv, Shapes, At, Goto, Threads, Restoring, Creating,
           Hands, OpenReached, Open, Created, Fresh, HandsCreated
<1> QED
  BY <1>1, <1>2, <1>3, <1>4, <1>5, <1>6, <1>7, <1>8, <1>9, <1>10,
     <1>11, <1>12, <1>13, <1>14, <1>15, <1>16, <1>17
     DEF Next, Main, AutoInit

(* The hooks keep their types. *)
LEMMA HooksTypedStep ==
    ASSUME SettingsInv, SettingsInv', Hands, HooksTyped, Next
    PROVE  HooksTyped'
<1> USE RuntimesAssumption
    DEF SettingsInv, Shapes, runtimeVars, hookVars, otherVars, At, Goto, Threads,
           Restoring, Creating, Hands, HooksTyped, AnyHook, HandsCreated, Created, Fresh
<1>1. ASSUME NEW user, CallInit(user) PROVE HooksTyped'
  BY <1>1 DEF CallInit
<1>2. CASE Previous
  BY <1>2 DEF Previous
<1>3. CASE Create
  <2>1. PICK r \in Fresh :
           /\ status' = [status EXCEPT ![r] = "open"]
           /\ original' = [original EXCEPT ![r] = hook]
    BY <1>3, Creates
  <2>2. Created' = Created \cup {r} /\ r \in Runtimes
    BY <2>1
  <2>3. \A q \in Created' : original'[q] \in AnyHook
    BY <2>1, <2>2
  <2>4. /\ original' = [q \in Runtimes |-> original'[q]]
        /\ UNCHANGED <<enabled, handlers, savedHandlers, hook, otherState, otherHook>>
    <3>1. UNCHANGED <<enabled, handlers, savedHandlers, hook, otherState, otherHook>>
      BY <1>3 DEF Create
    <3> QED
      BY <2>1, <3>1
  <2>5. status' \in [Runtimes -> {"new", "open", "destroyed"}]
    BY <2>1, <2>2
  <2> QED
    BY <2>3, <2>4, <2>5
<1>4. CASE CreateRaises
  BY <1>4 DEF CreateRaises
<1>5. CASE Hook
  BY <1>5 DEF Hook
<1>6. CASE Handle
  BY <1>6 DEF Handle
<1>7. CASE Publish
  BY <1>7 DEF Publish
<1>8. CASE CallLoggerDestroy
  BY <1>8 DEF CallLoggerDestroy
<1>9. ASSUME NEW th \in Threads, CallDestroy(th) PROVE HooksTyped'
  BY <1>9 DEF CallDestroy
<1>10. ASSUME NEW th \in Threads, Take(th) PROVE HooksTyped'
  BY <1>10 DEF Take
<1>11. ASSUME NEW th \in Threads, Forget(th) PROVE HooksTyped'
  BY <1>11 DEF Forget
<1>12. ASSUME NEW th \in Threads, Restore(th) PROVE HooksTyped'
  BY <1>12 DEF Restore
<1>13. ASSUME NEW th \in Threads, Unhook(th) PROVE HooksTyped'
  BY <1>13 DEF Unhook
<1>14. ASSUME NEW th \in Threads, Unhandle(th) PROVE HooksTyped'
  BY <1>14 DEF Unhandle
<1>15. ASSUME NEW th \in Threads, Close(th) PROVE HooksTyped'
  BY <1>15 DEF Close
<1>16. CASE OtherHooks
  BY <1>16 DEF OtherHooks
<1>17. CASE OtherUnhooks
  BY <1>17 DEF OtherUnhooks
<1> HIDE DEF SettingsInv, Shapes, At, Goto, Threads, Restoring, Creating,
           Hands, HooksTyped, AnyHook, HandsCreated, Created, Fresh
<1> QED
  BY <1>1, <1>2, <1>3, <1>4, <1>5, <1>6, <1>7, <1>8, <1>9, <1>10,
     <1>11, <1>12, <1>13, <1>14, <1>15, <1>16, <1>17
     DEF Next, Main, AutoInit

(* The hooked runtime is the open one. *)
LEMMA EnabledRightStep ==
    ASSUME SettingsInv, SettingsInv', Hands, OpenReached, HooksTyped, EnabledRight, Next
    PROVE  EnabledRight'
<1> USE RuntimesAssumption
    DEF SettingsInv, Shapes, runtimeVars, hookVars, otherVars, At, Goto, Threads,
           Restoring, Creating, Hands, OpenReached, HooksTyped, EnabledRight,
           Enabled, Asked, Open, Created, Fresh, HandsCreated
<1>1. ASSUME NEW user, CallInit(user) PROVE EnabledRight'
  BY <1>1 DEF CallInit
<1>2. CASE Previous
  BY <1>2 DEF Previous
<1>3. CASE Create
  BY <1>3 DEF Create
<1>4. CASE CreateRaises
  BY <1>4 DEF CreateRaises
<1>5. CASE Hook
  BY <1>5 DEF Hook
<1>6. CASE Handle
  BY <1>6 DEF Handle
<1>7. CASE Publish
  BY <1>7 DEF Publish
<1>8. CASE CallLoggerDestroy
  BY <1>8 DEF CallLoggerDestroy
<1>9. ASSUME NEW th \in Threads, CallDestroy(th) PROVE EnabledRight'
  BY <1>9 DEF CallDestroy
<1>10. ASSUME NEW th \in Threads, Take(th) PROVE EnabledRight'
  BY <1>10 DEF Take
<1>11. ASSUME NEW th \in Threads, Forget(th) PROVE EnabledRight'
  BY <1>11 DEF Forget
<1>12. ASSUME NEW th \in Threads, Restore(th) PROVE EnabledRight'
  <2>1. pc' = [pc EXCEPT ![th] = IF enabled[mine[th]] THEN "unhook" ELSE "close"]
    BY <1>12 DEF Restore
  <2>2. CASE enabled[mine[th]]
    BY <1>12, <2>1, <2>2 DEF Restore
  <2>3. CASE ~enabled[mine[th]]
    BY <1>12, <2>1, <2>3 DEF Restore
  <2> QED
    BY <2>2, <2>3
<1>13. ASSUME NEW th \in Threads, Unhook(th) PROVE EnabledRight'
  BY <1>13 DEF Unhook
<1>14. ASSUME NEW th \in Threads, Unhandle(th) PROVE EnabledRight'
  BY <1>14 DEF Unhandle
<1>15. ASSUME NEW th \in Threads, Close(th) PROVE EnabledRight'
  BY <1>15 DEF Close
<1>16. CASE OtherHooks
  BY <1>16 DEF OtherHooks
<1>17. CASE OtherUnhooks
  BY <1>17 DEF OtherUnhooks
<1> HIDE DEF SettingsInv, Shapes, At, Goto, Threads, Restoring, Creating,
           Hands, OpenReached, HooksTyped, EnabledRight,
           Enabled, Asked, Open, Created, Fresh, HandsCreated
<1> QED
  BY <1>1, <1>2, <1>3, <1>4, <1>5, <1>6, <1>7, <1>8, <1>9, <1>10,
     <1>11, <1>12, <1>13, <1>14, <1>15, <1>16, <1>17
     DEF Next, Main, AutoInit

(* At most one runtime is open. *)
LEMMA AtMostOneOpen ==
    ASSUME SettingsInv, Hands, OpenReached
    PROVE  \E r : Open \subseteq {r}
<1> USE DEF Hands, OpenReached, Threads, Steps, Restoring, Creating
<1>1. CASE pc["main"] \in {"idle", "previous", "take"}
  <2>1. CASE pc["signal"] \in {"idle", "take"}
    <3>1. None \notin Open
      BY RuntimesAssumption DEF Open
    <3>2. Open \subseteq {global}
      BY <1>1, <2>1, <3>1
    <3> QED
      BY <3>2
  <2>2. CASE pc["signal"] = "forget"
    <3>1. Open \subseteq {global}
      BY <1>1, <2>2
    <3> QED
      BY <3>1
  <2>3. CASE pc["signal"] \in Restoring
    <3>1. None \notin Open
      BY RuntimesAssumption DEF Open
    <3>2. Open \subseteq {mine["signal"]}
      BY <1>1, <2>3, <3>1
    <3> QED
      BY <3>2
  <2> QED
    BY <2>1, <2>2, <2>3
<1>2. CASE pc["main"] = "create"
  BY <1>2
<1>3. CASE pc["main"] \in {"forget"} \cup Restoring \cup Creating
  <2>1. Open \subseteq {mine["main"]}
    BY <1>3
  <2> QED
    BY <2>1
<1> QED
  BY <1>1, <1>2, <1>3

(* Whoever puts the handlers back holds the runtime that is hooked. *)
LEMMA UnhandledIsHooked ==
    ASSUME SettingsInv, Hands, OpenReached, HooksTyped, EnabledRight,
           NEW th \in Threads, pc[th] = "unhandle", th = "main" => pc["signal"] = "idle"
    PROVE  Enabled \subseteq {mine[th]}
<1>1. \A r \in Enabled : r \in Open
  BY DEF EnabledRight
<1>2. CASE th = "main"
  <2>1. Open \subseteq {mine["main"]}
    BY <1>2 DEF OpenReached, Restoring
  <2> QED
    BY <1>1, <1>2, <2>1
<1>3. CASE th = "signal"
  <2>1. mine[th] \in Runtimes /\ enabled[mine[th]]
    BY <1>3 DEF EnabledRight, Hands, Restoring, SettingsInv, HandsCreated, Created
  <2>2. mine[th] \in Open
    BY <1>1, <2>1 DEF Enabled
  <2> QED
    BY <1>1, <2>2, AtMostOneOpen
<1> QED
  BY <1>2, <1>3 DEF Threads

(* The handlers follow the hooked runtime. *)
LEMMA HandlersRightStep ==
    ASSUME SettingsInv, SettingsInv', Hands, OpenReached, HooksTyped,
           EnabledRight, HandlersRight, Next
    PROVE  HandlersRight'
<1> USE RuntimesAssumption
    DEF SettingsInv, Shapes, runtimeVars, hookVars, otherVars, At, Goto, Threads,
           Restoring, Creating, Hands, OpenReached, HooksTyped, EnabledRight,
           HandlersRight, Preserving, Enabled, Asked, Open, Created, Fresh, HandsCreated
<1>1. ASSUME NEW user, CallInit(user) PROVE HandlersRight'
  BY <1>1 DEF CallInit
<1>2. CASE Previous
  BY <1>2 DEF Previous
<1>3. CASE Create
  <2>1. PICK r \in Fresh, step \in {"hook", "publish"} :
           /\ status' = [status EXCEPT ![r] = "open"]
           /\ mine' = [mine EXCEPT !["main"] = r]
           /\ pc' = [pc EXCEPT !["main"] = step]
    BY <1>3, Creates
  <2>2. UNCHANGED <<enabled, handlers, savedHandlers>> /\ pc["signal"] = "idle" /\ Open = {}
    BY <1>3 DEF Create
  <2>3. Enabled = {} /\ Enabled' = {}
    <3>1. \A q \in Runtimes : ~enabled[q]
      BY <2>2
    <3> QED
      BY <2>2, <3>1
  <2>4. \A t \in Threads : pc'[t] \notin {"unhook", "unhandle"}
    BY <2>1, <2>2
  <2> QED
    BY <2>2, <2>3, <2>4
<1>4. CASE CreateRaises
  BY <1>4 DEF CreateRaises
<1>5. CASE Hook
  BY <1>5 DEF Hook
<1>6. CASE Handle
  BY <1>6 DEF Handle
<1>7. CASE Publish
  BY <1>7 DEF Publish
<1>8. CASE CallLoggerDestroy
  BY <1>8 DEF CallLoggerDestroy
<1>9. ASSUME NEW th \in Threads, CallDestroy(th) PROVE HandlersRight'
  BY <1>9 DEF CallDestroy
<1>10. ASSUME NEW th \in Threads, Take(th) PROVE HandlersRight'
  BY <1>10 DEF Take
<1>11. ASSUME NEW th \in Threads, Forget(th) PROVE HandlersRight'
  BY <1>11 DEF Forget
<1>12. ASSUME NEW th \in Threads, Restore(th) PROVE HandlersRight'
  BY <1>12 DEF Restore
<1>13. ASSUME NEW th \in Threads, Unhook(th) PROVE HandlersRight'
  BY <1>13 DEF Unhook
<1>14. ASSUME NEW th \in Threads, Unhandle(th) PROVE HandlersRight'
  <2> DEFINE r == mine[th]
  <2>1. /\ r \in Created /\ r \in Runtimes /\ r # "app"
        /\ pc[th] = "unhandle" /\ (th = "main" => pc["signal"] = "idle")
        /\ ~Preserving(r) => savedHandlers[r] = {"app"}
        /\ handlers' = IF Preserving(r) THEN handlers \ {r} ELSE savedHandlers[r]
        /\ enabled' = [enabled EXCEPT ![r] = FALSE]
        /\ pc' = [pc EXCEPT ![th] = "close"]
        /\ UNCHANGED <<config, savedHandlers, mine, status>>
    BY <1>14 DEF Unhandle
  <2>2. Enabled \subseteq {r}
    BY <2>1, UnhandledIsHooked
  <2>3. Enabled' = {}
    BY <2>1, <2>2
  <2>4. handlers \in {{"app"}, {"app", r}, {r}} /\ (Preserving(r) => handlers # {r})
    <3>1. CASE Enabled = {}
      BY <2>1, <3>1
    <3>2. CASE r \in Enabled
      <4>1. IF pc["main"] = "handle" THEN handlers = {"app"}
            ELSE IF Preserving(r) THEN handlers = {"app", r} ELSE handlers = {r}
        BY <3>2
      <4> QED
        BY <2>1, <4>1, SMTT(20)
    <3> QED
      BY <2>2, <3>1, <3>2
  <2>5. handlers' = {"app"}
    BY <2>1, <2>4
  <2> QED
    BY <2>1, <2>3, <2>5
<1>15. ASSUME NEW th \in Threads, Close(th) PROVE HandlersRight'
  BY <1>15 DEF Close
<1>16. CASE OtherHooks
  BY <1>16 DEF OtherHooks
<1>17. CASE OtherUnhooks
  BY <1>17 DEF OtherUnhooks
<1> HIDE DEF SettingsInv, Shapes, At, Goto, Threads, Restoring, Creating,
           Hands, OpenReached, HooksTyped, EnabledRight,
           HandlersRight, Preserving, Enabled, Asked, Open, Created, Fresh, HandsCreated
<1> QED
  BY <1>1, <1>2, <1>3, <1>4, <1>5, <1>6, <1>7, <1>8, <1>9, <1>10,
     <1>11, <1>12, <1>13, <1>14, <1>15, <1>16, <1>17
     DEF Next, Main, AutoInit

(* Print follows the hooked runtime. *)
LEMMA PrintRightStep ==
    ASSUME SettingsInv, SettingsInv', Hands, OpenReached, HooksTyped,
           EnabledRight, PrintRight, Next
    PROVE  PrintRight'
<1> USE RuntimesAssumption
    DEF SettingsInv, Shapes, runtimeVars, hookVars, otherVars, At, Goto, Threads,
           Restoring, Creating, Hands, OpenReached, HooksTyped, EnabledRight,
           PrintRight, Enabled, Asked, Open, Created, Fresh, HandsCreated
<1>1. ASSUME NEW user, CallInit(user) PROVE PrintRight'
  BY <1>1 DEF CallInit
<1>2. CASE Previous
  BY <1>2 DEF Previous
<1>3. CASE Create
  <2>1. PICK r \in Fresh, step \in {"hook", "publish"} :
           /\ status' = [status EXCEPT ![r] = "open"]
           /\ original' = [original EXCEPT ![r] = hook]
           /\ mine' = [mine EXCEPT !["main"] = r]
           /\ pc' = [pc EXCEPT !["main"] = step]
    BY <1>3, Creates
  <2>2. UNCHANGED <<enabled, hook, otherState>> /\ pc["signal"] = "idle" /\ Open = {}
    BY <1>3 DEF Create
  <2>3. Created' = Created \cup {r} /\ r \in Runtimes
    BY <2>1
  <2>4. Enabled = {} /\ Enabled' = {}
    <3>1. \A q \in Runtimes : ~enabled[q]
      BY <2>2
    <3> QED
      BY <2>2, <3>1
  <2>5. otherState = "unused" => hook = "builtin"
    BY <2>4
  <2>6. otherState = "unused" => \A q \in Created' : original'[q] = "builtin"
    BY <2>1, <2>3, <2>5
  <2>7. \A t \in Threads : pc'[t] # "unhandle"
    BY <2>1, <2>2
  <2> QED
    BY <2>2, <2>4, <2>5, <2>6
<1>4. CASE CreateRaises
  BY <1>4 DEF CreateRaises
<1>5. CASE Hook
  BY <1>5 DEF Hook
<1>6. CASE Handle
  BY <1>6 DEF Handle
<1>7. CASE Publish
  BY <1>7 DEF Publish
<1>8. CASE CallLoggerDestroy
  BY <1>8 DEF CallLoggerDestroy
<1>9. ASSUME NEW th \in Threads, CallDestroy(th) PROVE PrintRight'
  BY <1>9 DEF CallDestroy
<1>10. ASSUME NEW th \in Threads, Take(th) PROVE PrintRight'
  BY <1>10 DEF Take
<1>11. ASSUME NEW th \in Threads, Forget(th) PROVE PrintRight'
  BY <1>11 DEF Forget
<1>12. ASSUME NEW th \in Threads, Restore(th) PROVE PrintRight'
  BY <1>12 DEF Restore
<1>13. ASSUME NEW th \in Threads, Unhook(th) PROVE PrintRight'
  BY <1>13 DEF Unhook
<1>14. ASSUME NEW th \in Threads, Unhandle(th) PROVE PrintRight'
  BY <1>14 DEF Unhandle
<1>15. ASSUME NEW th \in Threads, Close(th) PROVE PrintRight'
  BY <1>15 DEF Close
<1>16. CASE OtherHooks
  BY <1>16 DEF OtherHooks
<1>17. CASE OtherUnhooks
  BY <1>17 DEF OtherUnhooks
<1> HIDE DEF SettingsInv, Shapes, At, Goto, Threads, Restoring, Creating,
           Hands, OpenReached, HooksTyped, EnabledRight,
           PrintRight, Enabled, Asked, Open, Created, Fresh, HandsCreated
<1> QED
  BY <1>1, <1>2, <1>3, <1>4, <1>5, <1>6, <1>7, <1>8, <1>9, <1>10,
     <1>11, <1>12, <1>13, <1>14, <1>15, <1>16, <1>17
     DEF Next, Main, AutoInit

LEMMA HooksInit == Init => HooksInv
<1> SUFFICES ASSUME Init PROVE HooksInv
  OBVIOUS
<1> USE DEF Init, Threads, Steps, Restoring, Creating, Open, Created, Fresh, Enabled, AnyHook
<1>1. Hands /\ OpenReached
  BY DEF Hands, OpenReached
<1>2. HooksTyped
  BY DEF HooksTyped
<1>3. EnabledRight /\ HandlersRight
  BY DEF EnabledRight, HandlersRight
<1>4. PrintRight
  BY DEF PrintRight
<1> QED
  BY <1>1, <1>2, <1>3, <1>4 DEF HooksInv

LEMMA HooksStep == SettingsInv /\ SettingsInv' /\ HooksInv /\ [Next]_vars => HooksInv'
<1> SUFFICES ASSUME SettingsInv, SettingsInv', HooksInv, [Next]_vars PROVE HooksInv'
  OBVIOUS
<1>1. CASE Next
  BY <1>1, HandsStep, OpenReachedStep, HooksTypedStep, EnabledRightStep,
     HandlersRightStep, PrintRightStep DEF HooksInv
<1>2. CASE UNCHANGED vars
  BY <1>2 DEF vars, runtimeVars, hookVars, otherVars, HooksInv, Hands, OpenReached,
     HooksTyped, EnabledRight, HandlersRight, PrintRight, Open, Created, Fresh,
     Enabled, Asked, Preserving, Threads
<1> QED
  BY <1>1, <1>2

(* The settings, the runtimes and the hooks keep their invariants in every *)
(* reachable state.                                                        *)
THEOREM Invariant == Spec => [](SettingsInv /\ HooksInv)
<1> QED
  BY InitialState, HooksInit, Inductive, HooksStep, PTL DEF Spec

(* The package's state, the settings of the runtimes and the interpreter's *)
(* hooks keep their types.                                                 *)
THEOREM TypeCorrect == Spec => []TypeOK
<1>1. SettingsInv /\ HooksInv => TypeOK
  <2> SUFFICES ASSUME SettingsInv, HooksInv PROVE TypeOK
    OBVIOUS
  <2>1. ASSUME NEW r \in Created
        PROVE  /\ \A f \in Numbers : config[r][f] \in Int
               /\ \A f \in Switches : config[r][f] \in BOOLEAN
               /\ config[r].levels \subseteq Levels
    <3>1. /\ env \in EnvVars
          /\ given[r] \in UserConfigs \cup {LoadEnv(env)}
          /\ \A f \in Fields : config[r][f] = Expected(given[r], env, f)
      BY Precedence DEF SettingsInv, WantedValid, Configured, Argument
    <3>2. Numbers \subseteq Fields /\ Switches \subseteq Fields /\ "levels" \in Fields
      BY DEF Fields
    <3> QED
      BY <3>1, <3>2, ExpectedTyped, Zenon
  <2>2. status \in [Runtimes -> {"new", "open", "destroyed"}]
    BY DEF HooksInv, HooksTyped
  <2>3. global \in Runtimes \cup {None} /\ mine \in [Threads -> Runtimes \cup {None}]
    BY DEF SettingsInv, Shapes, HandsCreated, Created
  <2> QED
    BY <2>1, <2>2, <2>3 DEF TypeOK, HooksInv, HooksTyped, AnyHook
<1> QED
  BY <1>1, Invariant, PTL

(* Whatever the threads do, no second logger is open, and none that        *)
(* nobody can reach any more.                                              *)
THEOREM OneOpen == Spec => []OneOpenRuntime
<1>1. SettingsInv /\ HooksInv => OneOpenRuntime
  <2> SUFFICES ASSUME SettingsInv, HooksInv PROVE OneOpenRuntime
    OBVIOUS
  <2>1. \A r \in Open : r = global \/ \E th \in Threads : r = mine[th]
    BY DEF HooksInv, OpenReached, Hands, Threads, Steps, Restoring, Creating
  <2>2. \E r : Open \subseteq {r}
    BY AtMostOneOpen DEF HooksInv
  <2>3. Cardinality(Open) <= 1
    <3>1. PICK r : Open \subseteq {r}
      BY <2>2
    <3>2. IsFiniteSet({r}) /\ Cardinality({r}) = 1
      BY FS_Singleton
    <3>3. Cardinality(Open) \in Nat /\ Cardinality(Open) <= Cardinality({r})
      BY <3>1, <3>2, FS_Subset, FS_CardinalityType
    <3> QED
      BY <3>2, <3>3
  <2> QED
    BY <2>1, <2>3 DEF OneOpenRuntime
<1> QED
  BY <1>1, Invariant, PTL

(* Between the calls, exactly what the open logger asked for is hooked. *)
THEOREM HooksFollow == Spec => []HooksFollowRuntime
<1>1. SettingsInv /\ HooksInv => HooksFollowRuntime
  <2> SUFFICES ASSUME SettingsInv, HooksInv, AtRest PROVE HooksFollowRuntime
    BY DEF HooksFollowRuntime
  <2>1. Enabled = {r \in Open : config[r].intercept_console}
    BY DEF AtRest, HooksInv, EnabledRight, Asked, Threads, Open, Enabled
  <2>2. \E r : Enabled \subseteq {r}
    BY AtMostOneOpen DEF HooksInv, EnabledRight
  <2>3. handlers = Enabled \cup
          {h \in {"app"} : \A r \in Enabled : config[r].preserve_original_console}
    BY <2>2 DEF AtRest, HooksInv, HandlersRight, Preserving, Threads
  <2>4. otherState = "unused" => hook \in IF Enabled = {} THEN {"builtin"} ELSE Enabled
    BY <2>2 DEF AtRest, HooksInv, PrintRight, Threads
  <2> QED
    BY <2>1, <2>3, <2>4 DEF HooksFollowRuntime
<1> QED
  BY <1>1, Invariant, PTL

-----------------------------------------------------------------------------
(* What a call of print runs through.                                      *)

(* What a hook calls was there before it: no hook comes back to itself.    *)
Descends(rank) ==
    /\ rank \in [AnyHook -> Nat]
    /\ \A r \in Created : rank[original[r]] < rank[r]
    /\ otherState # "unused" => rank[otherHook] < rank["other"]

(* All links lead to hooks that have been put on, and end. *)
Linked ==
    /\ hook \in HookValues
    /\ \A r \in Created : original[r] \in HookValues
    /\ IF otherState # "unused" THEN otherHook \in HookValues
       ELSE hook # "other" /\ \A r \in Created : original[r] # "other"
    /\ \E rank : Descends(rank)

(* A step that sets no link leaves them as they are. *)
LEMMA SameLinks ==
    ASSUME Linked, UNCHANGED <<original, otherHook, otherState>>, Created' = Created,
           hook' \in HookValues, otherState = "unused" => hook' # "other"
    PROVE  Linked'
<1>1. HookValues' = HookValues
  BY DEF HookValues
<1> HIDE DEF HookValues
<1> QED
  BY <1>1 DEF Linked, Descends

(* A new link goes from a hook that nobody calls to the current one. *)
LEMMA LinkedStep ==
    ASSUME SettingsInv, SettingsInv', HooksInv, Linked, Next
    PROVE  Linked'
<1>1. HooksTyped /\ \A th \in Threads : mine[th] \in Created \cup {None}
  BY DEF HooksInv, SettingsInv, HandsCreated
<1>2. /\ hook \in HookValues /\ \A q \in Created : original[q] \in HookValues
      /\ otherState # "unused" => otherHook \in HookValues
      /\ otherState = "unused" => hook # "other" /\ \A q \in Created : original[q] # "other"
  BY DEF Linked
<1>3. PICK rank : Descends(rank)
  BY DEF Linked
<1>4. /\ "builtin" \notin Runtimes /\ "other" \notin Runtimes
      /\ Created \subseteq Runtimes /\ HookValues \subseteq AnyHook
  BY RuntimesAssumption DEF Created, HookValues, AnyHook
<1>5. CASE Create
  <2>1. PICK r \in Fresh :
           /\ status' = [status EXCEPT ![r] = "open"]
           /\ original' = [original EXCEPT ![r] = hook]
    BY <1>5, Creates
  <2>2. r \in Runtimes /\ r \notin HookValues /\ Created' = Created \cup {r}
    BY <1>1, <1>4, <2>1 DEF HooksTyped, HookValues, Created, Fresh
  <2>3. UNCHANGED <<hook, otherHook, otherState>>
    BY <1>5 DEF Create, otherVars
  <2>4. original'[r] = hook /\ \A q \in Created : original'[q] = original[q]
    BY <1>1, <2>1, <2>2 DEF HooksTyped, HookValues
  <2>5. HookValues' = HookValues \cup {r}
    BY <2>2 DEF HookValues
  <2>6. PICK next \in [AnyHook -> Nat] :
           /\ next[r] = rank[hook] + 1
           /\ \A h \in HookValues : next[h] = rank[h] /\ rank[h] \in Nat
    <3> DEFINE next == [rank EXCEPT ![r] = rank[hook] + 1]
    <3>1. /\ next \in [AnyHook -> Nat] /\ next[r] = rank[hook] + 1
          /\ \A h \in HookValues : next[h] = rank[h] /\ rank[h] \in Nat
      BY <1>2, <1>3, <1>4, <2>2 DEF Descends, AnyHook
    <3> QED
      BY <3>1
  <2>7. Created \subseteq HookValues /\ "other" \in HookValues
    BY DEF HookValues
  <2> HIDE DEF HookValues, Created
  <2>8. Descends(next)'
    BY <1>2, <1>3, <2>2, <2>3, <2>4, <2>6, <2>7 DEF Descends
  <2> QED
    BY <1>2, <2>2, <2>3, <2>4, <2>5, <2>7, <2>8 DEF Linked
<1>6. CASE OtherHooks
  <2>1. /\ otherState = "unused" /\ otherState' = "active" /\ otherHook' = hook
        /\ hook' = "other" /\ original' = original /\ Created' = Created
    BY <1>6 DEF OtherHooks, runtimeVars, Created, Fresh
  <2>2. PICK next \in [AnyHook -> Nat] :
           /\ next["other"] = rank[hook] + 1
           /\ \A h \in HookValues \ {"other"} : next[h] = rank[h] /\ rank[h] \in Nat
    <3> DEFINE next == [rank EXCEPT !["other"] = rank[hook] + 1]
    <3>1. /\ next \in [AnyHook -> Nat] /\ next["other"] = rank[hook] + 1
          /\ \A h \in HookValues \ {"other"} : next[h] = rank[h] /\ rank[h] \in Nat
      BY <1>2, <1>3, <1>4 DEF Descends, AnyHook
    <3> QED
      BY <3>1
  <2>3. Created \subseteq HookValues \ {"other"} /\ "other" \in HookValues
    BY <1>4 DEF HookValues
  <2>4. HookValues' = HookValues
    BY <2>1 DEF HookValues
  <2> HIDE DEF HookValues, Created
  <2>5. Descends(next)'
    BY <1>2, <1>3, <2>1, <2>2, <2>3 DEF Descends
  <2> QED
    BY <1>2, <2>1, <2>3, <2>4, <2>5 DEF Linked
<1>7. CASE OtherUnhooks
  <2>1. Created' = Created
    BY <1>7 DEF OtherUnhooks, runtimeVars, Created, Fresh
  <2>2. /\ hook' = otherHook /\ otherHook' = otherHook /\ original' = original
        /\ otherState = "active" /\ otherState' = "removed"
    BY <1>7 DEF OtherUnhooks
  <2>3. HookValues' = HookValues
    BY <2>1 DEF HookValues
  <2> HIDE DEF HookValues, Created
  <2>4. Descends(rank)'
    BY <1>3, <2>1, <2>2 DEF Descends
  <2> QED
    BY <1>2, <2>1, <2>2, <2>3, <2>4 DEF Linked
<1>8. CASE Hook
  <2>1. mine["main"] \in Created
    BY <1>1, <1>8 DEF Hook, At, HooksInv, Hands, Creating, Threads
  <2>2. /\ hook' = mine["main"] /\ Created' = Created
        /\ UNCHANGED <<original, otherHook, otherState>>
    BY <1>8 DEF Hook, runtimeVars, otherVars, Created, Fresh
  <2>3. hook' \in HookValues /\ hook' # "other"
    BY <1>4, <2>1, <2>2 DEF HookValues
  <2> QED
    BY <2>2, <2>3, SameLinks
<1>9. ASSUME NEW th \in Threads, Unhook(th) PROVE Linked'
  <2>1. mine[th] \in Created
    BY <1>1, <1>9 DEF Unhook, At, HooksInv, Hands, Restoring
  <2>2. /\ hook' = original[mine[th]] /\ Created' = Created
        /\ UNCHANGED <<original, otherHook, otherState>>
    BY <1>9 DEF Unhook, runtimeVars, otherVars, Created, Fresh
  <2> QED
    BY <1>2, <2>1, <2>2, SameLinks
<1>10. ASSUME NEW th \in Threads, Close(th) PROVE Linked'
  <2>1. mine[th] \in Created
    BY <1>1, <1>10 DEF Close, At, HooksInv, Hands, Restoring
  <2>2. Created' = Created
    BY <1>1, <1>10, <2>1 DEF Close, HooksTyped, Created, Fresh
  <2>3. UNCHANGED <<hook, original, otherHook, otherState>>
    BY <1>10 DEF Close, hookVars, otherVars
  <2> QED
    BY <1>2, <2>2, <2>3, SameLinks
<1>11. ASSUME UNCHANGED <<status, hook, original, otherVars>> PROVE Linked'
  <2>1. Created' = Created /\ UNCHANGED <<hook, original, otherHook, otherState>>
    BY <1>11 DEF otherVars, Created, Fresh
  <2> QED
    BY <1>2, <2>1, SameLinks
<1>12. CASE \/ \E user : CallInit(user)
            \/ CallLoggerDestroy \/ Previous \/ CreateRaises \/ Handle \/ Publish
            \/ \E th \in Threads : \/ CallDestroy(th) \/ Take(th) \/ Forget(th)
                                   \/ Restore(th) \/ Unhandle(th)
  BY <1>11, <1>12 DEF CallInit, CallLoggerDestroy, Previous, CreateRaises, Handle, Publish,
     CallDestroy, Take, Forget, Restore, Unhandle, runtimeVars, hookVars
<1> QED
  BY <1>5, <1>6, <1>7, <1>8, <1>9, <1>10, <1>12 DEF Next, Main, AutoInit

(* Links that never come back end at the interpreter's print, or at a      *)
(* runtime that was told not to go on: the lowest hook of the chain can    *)
(* only be one of these, and there is a lowest one.                        *)
LEMMA LinkedReaches ==
    ASSUME Linked PROVE PrintReachesConsole
<1>2. PICK rank : Descends(rank)
  BY DEF Linked
<1>3. "builtin" \notin Runtimes /\ "other" \notin Runtimes /\ Created \subseteq Runtimes
  BY RuntimesAssumption DEF Created
<1>4. hook \in Chain /\ Chain \subseteq HookValues
  BY DEF Chain, Linked
<1>5. ASSUME NEW h \in Chain, NEW x \in CalledBy(h), x \in HookValues
      PROVE  x \in Chain
  BY <1>5 DEF Chain
<1> DEFINE ranks == {rank[h] : h \in Chain}
<1>6. ranks \subseteq Nat /\ ranks # {}
  <2>1. \A h \in Chain : rank[h] \in Nat
    BY <1>2, <1>3, <1>4 DEF Descends, HookValues, AnyHook
  <2> QED
    BY <1>4, <2>1
<1>7. PICK h \in Chain : \A x \in Chain : ~(rank[x] < rank[h])
  <2>1. PICK m \in ranks : \A y \in ranks : ~(<<y, m>> \in OpToRel(<, Nat))
    <3> HIDE DEF ranks
    <3> QED
      BY <1>6, NatLessThanWellFounded, WFMin
  <2>2. \A y \in ranks : ~(y < m)
    BY <1>6, <2>1 DEF OpToRel
  <2> QED
    BY <2>2
<1>8. CASE h = "builtin"
  BY <1>8 DEF PrintReachesConsole
<1>9. CASE h = "other"
  <2>1. otherState # "unused"
    <3>1. SUFFICES ASSUME otherState = "unused" PROVE FALSE
      OBVIOUS
    <3> DEFINE S == Created \cup {"builtin"}
    <3>2. hook \in S /\ \A r \in Created : original[r] \in S
      BY <3>1 DEF HookValues, Linked
    <3>3. \A x \in S : CalledBy(x) \subseteq S
      BY <1>3, <3>2 DEF CalledBy
    <3>4. S \in SUBSET HookValues /\ "other" \notin S
      BY <1>3 DEF HookValues
    <3> HIDE DEF S
    <3> QED
      BY <1>9, <3>2, <3>3, <3>4 DEF Chain
  <2>2. otherHook \in CalledBy(h) /\ otherHook \in HookValues
    BY <1>9, <2>1 DEF CalledBy, Linked
  <2>3. otherHook \in Chain /\ rank[otherHook] < rank[h]
    BY <1>2, <1>5, <1>9, <2>1, <2>2 DEF Descends
  <2> QED
    BY <1>7, <2>3
<1>10. CASE h \in Created
  <2>1. CASE ~config[h].preserve_original_console
    BY <1>3, <1>10, <2>1 DEF PrintReachesConsole
  <2>2. CASE config[h].preserve_original_console
    <3>1. original[h] \in CalledBy(h) /\ original[h] \in HookValues
      BY <1>3, <1>10, <2>2 DEF CalledBy, Linked
    <3>2. original[h] \in Chain /\ rank[original[h]] < rank[h]
      BY <1>2, <1>5, <1>10, <3>1 DEF Descends
    <3> QED
      BY <1>7, <3>2
  <2> QED
    BY <2>1, <2>2
<1> QED
  BY <1>4, <1>8, <1>9, <1>10 DEF HookValues

(* In whatever order hooks are put on one another and taken off again,     *)
(* print reaches the interpreter's, unless a runtime on the way was told   *)
(* not to preserve it.                                                     *)
THEOREM ConsoleReached == Spec => []PrintReachesConsole
<1>1. Init => Linked
  <2> SUFFICES ASSUME Init PROVE Linked
    OBVIOUS
  <2>1. Created = {} /\ otherState = "unused" /\ hook = "builtin"
    BY DEF Init, Created, Fresh
  <2>2. Descends([h \in AnyHook |-> 0])
    BY <2>1 DEF Descends
  <2> QED
    BY <2>1, <2>2 DEF Linked, HookValues
<1>2. SettingsInv /\ SettingsInv' /\ HooksInv /\ Linked /\ [Next]_vars => Linked'
  <2>1. ASSUME UNCHANGED vars, Linked PROVE Linked'
    <3>1. Created' = Created /\ UNCHANGED <<hook, original, otherHook, otherState>>
      BY <2>1 DEF vars, runtimeVars, hookVars, otherVars, Created, Fresh
    <3>2. hook \in HookValues /\ (otherState = "unused" => hook # "other")
      BY <2>1 DEF Linked
    <3> QED
      BY <2>1, <3>1, <3>2, SameLinks
  <2> QED
    BY <2>1, LinkedStep
<1>3. Linked => PrintReachesConsole
  BY LinkedReaches
<1> QED
  BY <1>1, <1>2, <1>3, Invariant, PTL DEF Spec

-----------------------------------------------------------------------------
(* Calls through the module-level logger.  A runtime is going when it is   *)
(* destroyed or a thread that took it is on the way to destroy it; the     *)
(* main thread's hand does not count while it holds the new runtime.       *)
Going(r) ==
    \/ status[r] = "destroyed"
    \/ \E th \in Threads : pc[th] \notin Creating /\ mine[th] = r

(* What destroy forgets, it has taken. *)
ForgetsGlobal == pc["main"] = "forget" => global \in {mine["main"], None}

(* What the test of a call has seen is still there, or going. *)
CallFollows ==
    /\ call \in [at : {"idle", "tested", "lost"}, from : Runtimes \cup {None}]
    /\ call.at # "idle" => call.from \in Created /\ (call.from = global \/ Going(call.from))
    /\ call.at = "lost" => Going(call.from)

ProxyInv == SettingsInv /\ HooksInv /\ ForgetsGlobal /\ CallFollows

(* A runtime that is going is going for good. *)
LEMMA GoingStep ==
    ASSUME SettingsInv, SettingsInv', HooksInv, NEW r \in Created, Going(r), Next
    PROVE  Going(r)'
<1> USE RuntimesAssumption
    DEF Going, SettingsInv, Shapes, runtimeVars, HooksInv, Hands, OpenReached,
           HooksTyped, At, Goto,
           Threads, Steps, Restoring, Creating, HandsCreated, Created, Fresh, Open
<1>1. ASSUME NEW user, CallInit(user) PROVE Going(r)'
  BY <1>1 DEF CallInit
<1>2. CASE Previous
  BY <1>2 DEF Previous
<1>3. CASE Create
  <2>1. PICK q \in Fresh, step \in {"hook", "publish"} :
           /\ status' = [status EXCEPT ![q] = "open"]
           /\ mine' = [mine EXCEPT !["main"] = q]
           /\ pc' = [pc EXCEPT !["main"] = step]
    BY <1>3, Creates
  <2>2. pc["main"] = "create" /\ r # q /\ r \in Runtimes
    BY <1>3 DEF Create
  <2>3. CASE status[r] = "destroyed"
    BY <2>1, <2>2, <2>3
  <2>4. CASE \E th \in Threads : pc[th] \notin Creating /\ mine[th] = r
    <3>1. pc["signal"] \notin Creating /\ mine["signal"] = r
      BY <2>2, <2>4
    <3> QED
      BY <2>1, <3>1
  <2> QED
    BY <2>3, <2>4
<1>4. CASE CreateRaises
  BY <1>4 DEF CreateRaises
<1>5. CASE Hook
  BY <1>5 DEF Hook
<1>6. CASE Handle
  BY <1>6 DEF Handle
<1>7. CASE Publish
  BY <1>7 DEF Publish
<1>8. CASE CallLoggerDestroy
  BY <1>8 DEF CallLoggerDestroy
<1>9. ASSUME NEW th \in Threads, CallDestroy(th) PROVE Going(r)'
  BY <1>9 DEF CallDestroy
<1>10. ASSUME NEW th \in Threads, Take(th) PROVE Going(r)'
  BY <1>10 DEF Take
<1>11. ASSUME NEW th \in Threads, Forget(th) PROVE Going(r)'
  BY <1>11 DEF Forget
<1>12. ASSUME NEW th \in Threads, Restore(th) PROVE Going(r)'
  BY <1>12 DEF Restore
<1>13. ASSUME NEW th \in Threads, Unhook(th) PROVE Going(r)'
  BY <1>13 DEF Unhook
<1>14. ASSUME NEW th \in Threads, Unhandle(th) PROVE Going(r)'
  BY <1>14 DEF Unhandle
<1>15. ASSUME NEW th \in Threads, Close(th) PROVE Going(r)'
  BY <1>15 DEF Close
<1>16. CASE OtherHooks
  BY <1>16 DEF OtherHooks
<1>17. CASE OtherUnhooks
  BY <1>17 DEF OtherUnhooks
<1> HIDE DEF Going, SettingsInv, Shapes, runtimeVars, HooksInv, Hands,
           OpenReached, HooksTyped, At, Goto,
           Threads, Steps, Restoring, Creating, HandsCreated, Created, Fresh, Open
<1> QED
  BY <1>1, <1>2, <1>3, <1>4, <1>5, <1>6, <1>7, <1>8, <1>9, <1>10,
     <1>11, <1>12, <1>13, <1>14, <1>15, <1>16, <1>17
     DEF Next, Main, AutoInit

(* The runtime in _global_runtime stays there, or is going. *)
LEMMA GlobalStep ==
    ASSUME SettingsInv, SettingsInv', HooksInv, ForgetsGlobal,
           NEW r \in Created, r = global, Next
    PROVE  r = global' \/ Going(r)'
<1> USE RuntimesAssumption
    DEF Going, ForgetsGlobal, SettingsInv, Shapes, runtimeVars, HooksInv, Hands,
           OpenReached, HooksTyped, At, Goto,
           Threads, Steps, Restoring, Creating, HandsCreated, Created, Fresh, Open
<1>1. ASSUME NEW user, CallInit(user) PROVE r = global' \/ Going(r)'
  BY <1>1 DEF CallInit
<1>2. CASE Previous
  BY <1>2 DEF Previous
<1>3. CASE Create
  BY <1>3 DEF Create
<1>4. CASE CreateRaises
  BY <1>4 DEF CreateRaises
<1>5. CASE Hook
  BY <1>5 DEF Hook
<1>6. CASE Handle
  BY <1>6 DEF Handle
<1>7. CASE Publish
  <2>1. status[r] = "destroyed" /\ UNCHANGED status
    BY <1>7 DEF Publish
  <2> QED
    BY <2>1
<1>8. CASE CallLoggerDestroy
  BY <1>8 DEF CallLoggerDestroy
<1>9. ASSUME NEW th \in Threads, CallDestroy(th) PROVE r = global' \/ Going(r)'
  BY <1>9 DEF CallDestroy
<1>10. ASSUME NEW th \in Threads, Take(th) PROVE r = global' \/ Going(r)'
  BY <1>10 DEF Take
<1>11. ASSUME NEW th \in Threads, Forget(th) PROVE r = global' \/ Going(r)'
  <2>1. mine[th] = r /\ r # None
    BY <1>11 DEF Forget
  <2>2. pc'[th] = "restore" /\ mine' = mine
    BY <1>11, <2>1 DEF Forget
  <2> QED
    BY <2>1, <2>2
<1>12. ASSUME NEW th \in Threads, Restore(th) PROVE r = global' \/ Going(r)'
  BY <1>12 DEF Restore
<1>13. ASSUME NEW th \in Threads, Unhook(th) PROVE r = global' \/ Going(r)'
  BY <1>13 DEF Unhook
<1>14. ASSUME NEW th \in Threads, Unhandle(th) PROVE r = global' \/ Going(r)'
  BY <1>14 DEF Unhandle
<1>15. ASSUME NEW th \in Threads, Close(th) PROVE r = global' \/ Going(r)'
  BY <1>15 DEF Close
<1>16. CASE OtherHooks
  BY <1>16 DEF OtherHooks
<1>17. CASE OtherUnhooks
  BY <1>17 DEF OtherUnhooks
<1> HIDE DEF Going, ForgetsGlobal, SettingsInv, Shapes, runtimeVars, HooksInv,
           Hands, OpenReached, HooksTyped, At, Goto,
           Threads, Steps, Restoring, Creating, HandsCreated, Created, Fresh, Open
<1> QED
  BY <1>1, <1>2, <1>3, <1>4, <1>5, <1>6, <1>7, <1>8, <1>9, <1>10,
     <1>11, <1>12, <1>13, <1>14, <1>15, <1>16, <1>17
     DEF Next, Main, AutoInit

(* Between the two statements of destroy, only the runtime taken can go. *)
LEMMA ForgetsStep ==
    ASSUME SettingsInv, SettingsInv', HooksInv, ForgetsGlobal, Next
    PROVE  ForgetsGlobal'
<1> USE RuntimesAssumption
    DEF ForgetsGlobal, SettingsInv, Shapes, runtimeVars, HooksInv, Hands,
           OpenReached, HooksTyped, At, Goto,
           Threads, Steps, Restoring, Creating, HandsCreated, Created, Fresh, Open
<1>1. ASSUME NEW user, CallInit(user) PROVE ForgetsGlobal'
  BY <1>1 DEF CallInit
<1>2. CASE Previous
  BY <1>2 DEF Previous
<1>3. CASE Create
  BY <1>3 DEF Create
<1>4. CASE CreateRaises
  BY <1>4 DEF CreateRaises
<1>5. CASE Hook
  BY <1>5 DEF Hook
<1>6. CASE Handle
  BY <1>6 DEF Handle
<1>7. CASE Publish
  BY <1>7 DEF Publish
<1>8. CASE CallLoggerDestroy
  BY <1>8 DEF CallLoggerDestroy
<1>9. ASSUME NEW th \in Threads, CallDestroy(th) PROVE ForgetsGlobal'
  BY <1>9 DEF CallDestroy
<1>10. ASSUME NEW th \in Threads, Take(th) PROVE ForgetsGlobal'
  BY <1>10 DEF Take
<1>11. ASSUME NEW th \in Threads, Forget(th) PROVE ForgetsGlobal'
  BY <1>11 DEF Forget
<1>12. ASSUME NEW th \in Threads, Restore(th) PROVE ForgetsGlobal'
  BY <1>12 DEF Restore
<1>13. ASSUME NEW th \in Threads, Unhook(th) PROVE ForgetsGlobal'
  BY <1>13 DEF Unhook
<1>14. ASSUME NEW th \in Threads, Unhandle(th) PROVE ForgetsGlobal'
  BY <1>14 DEF Unhandle
<1>15. ASSUME NEW th \in Threads, Close(th) PROVE ForgetsGlobal'
  BY <1>15 DEF Close
<1>16. CASE OtherHooks
  BY <1>16 DEF OtherHooks
<1>17. CASE OtherUnhooks
  BY <1>17 DEF OtherUnhooks
<1> HIDE DEF ForgetsGlobal, SettingsInv, Shapes, runtimeVars, HooksInv, Hands,
           OpenReached, HooksTyped, At, Goto,
           Threads, Steps, Restoring, Creating, HandsCreated, Created, Fresh, Open
<1> QED
  BY <1>1, <1>2, <1>3, <1>4, <1>5, <1>6, <1>7, <1>8, <1>9, <1>10,
     <1>11, <1>12, <1>13, <1>14, <1>15, <1>16, <1>17
     DEF Next, Main, AutoInit

(* What has been created stays created. *)
LEMMA CreatedStep ==
    ASSUME SettingsInv, HooksInv, Next
    PROVE  Created \subseteq Created'
<1> USE RuntimesAssumption
    DEF SettingsInv, Shapes, runtimeVars, HooksInv, Hands, OpenReached,
           HooksTyped, At, Goto,
           Threads, Steps, Restoring, Creating, HandsCreated, Created, Fresh, Open
<1>1. ASSUME NEW user, CallInit(user) PROVE Created \subseteq Created'
  BY <1>1 DEF CallInit
<1>2. CASE Previous
  BY <1>2 DEF Previous
<1>3. CASE Create
  BY <1>3 DEF Create
<1>4. CASE CreateRaises
  BY <1>4 DEF CreateRaises
<1>5. CASE Hook
  BY <1>5 DEF Hook
<1>6. CASE Handle
  BY <1>6 DEF Handle
<1>7. CASE Publish
  BY <1>7 DEF Publish
<1>8. CASE CallLoggerDestroy
  BY <1>8 DEF CallLoggerDestroy
<1>9. ASSUME NEW th \in Threads, CallDestroy(th) PROVE Created \subseteq Created'
  BY <1>9 DEF CallDestroy
<1>10. ASSUME NEW th \in Threads, Take(th) PROVE Created \subseteq Created'
  BY <1>10 DEF Take
<1>11. ASSUME NEW th \in Threads, Forget(th) PROVE Created \subseteq Created'
  BY <1>11 DEF Forget
<1>12. ASSUME NEW th \in Threads, Restore(th) PROVE Created \subseteq Created'
  BY <1>12 DEF Restore
<1>13. ASSUME NEW th \in Threads, Unhook(th) PROVE Created \subseteq Created'
  BY <1>13 DEF Unhook
<1>14. ASSUME NEW th \in Threads, Unhandle(th) PROVE Created \subseteq Created'
  BY <1>14 DEF Unhandle
<1>15. ASSUME NEW th \in Threads, Close(th) PROVE Created \subseteq Created'
  BY <1>15 DEF Close
<1>16. CASE OtherHooks
  BY <1>16 DEF OtherHooks
<1>17. CASE OtherUnhooks
  BY <1>17 DEF OtherUnhooks
<1> HIDE DEF SettingsInv, Shapes, runtimeVars, HooksInv, Hands, OpenReached,
           HooksTyped, At, Goto,
           Threads, Steps, Restoring, Creating, HandsCreated, Created, Fresh, Open
<1> QED
  BY <1>1, <1>2, <1>3, <1>4, <1>5, <1>6, <1>7, <1>8, <1>9, <1>10,
     <1>11, <1>12, <1>13, <1>14, <1>15, <1>16, <1>17
     DEF Next, Main, AutoInit

(* A step of init or destroy leaves the call under way what it had seen. *)
LEMMA CallStep ==
    ASSUME SettingsInv, SettingsInv', HooksInv, ForgetsGlobal, CallFollows,
           Next, UNCHANGED call
    PROVE  CallFollows'
<1>1. ASSUME NEW r \in Created PROVE r \in Created'
  BY CreatedStep
<1>2. ASSUME NEW r \in Created, Going(r) PROVE Going(r)'
  BY <1>2, GoingStep
<1>3. ASSUME NEW r \in Created, r = global PROVE r = global' \/ Going(r)'
  BY <1>3, GlobalStep
<1> QED
  BY <1>1, <1>2, <1>3 DEF CallFollows

LEMMA ProxyStart == ProxyInit => ProxyInv
<1> SUFFICES ASSUME ProxyInit PROVE ProxyInv
  OBVIOUS
<1>1. SettingsInv /\ HooksInv
  BY InitialState, HooksInit DEF ProxyInit
<1>2. ForgetsGlobal
  BY DEF ProxyInit, Init, ForgetsGlobal, Threads
<1>3. CallFollows
  BY DEF ProxyInit, NoCall, CallFollows
<1> QED
  BY <1>1, <1>2, <1>3 DEF ProxyInv

LEMMA ProxyInductive == ProxyInv /\ [ProxyNext]_<<vars, call>> => ProxyInv'
<1> SUFFICES ASSUME ProxyInv, [ProxyNext]_<<vars, call>> PROVE ProxyInv'
  OBVIOUS
<1>1. CASE Next /\ UNCHANGED call
  <2>1. SettingsInv' /\ HooksInv'
    BY <1>1, Inductive, HooksStep DEF ProxyInv
  <2> QED
    BY <1>1, <2>1, ForgetsStep, CallStep DEF ProxyInv
<1>2. CASE UNCHANGED vars
  <2>1. SettingsInv' /\ HooksInv'
    BY <1>2, Inductive, HooksStep DEF ProxyInv
  <2>2. UNCHANGED <<pc, mine, global, status>>
    BY <1>2 DEF vars, runtimeVars
  <2>3. ForgetsGlobal'
    BY <2>2 DEF ProxyInv, ForgetsGlobal
  <2>4. \A r : Going(r)' <=> Going(r)
    BY <2>2 DEF Going
  <2>5. Created' = Created /\ Open' = Open
    BY <2>2 DEF Created, Fresh, Open
  <2>6. CallFollows'
    <3> USE DEF ProxyInv, CallFollows
    <3>1. CASE TestGlobal
      <4>1. global \in Created \cap Runtimes
        BY <3>1 DEF TestGlobal, SettingsInv, HandsCreated, Created
      <4>2. call' = [at |-> "tested", from |-> global]
        BY <3>1 DEF TestGlobal
      <4> QED
        BY <2>2, <2>5, <4>1, <4>2
    <3>2. CASE UseGlobal
      <4>1. CASE global \in Open
        BY <3>2, <4>1 DEF UseGlobal, NoCall
      <4>2. CASE global \notin Open
        <5>1. call' = [call EXCEPT !.at = "lost"] /\ call.at = "tested"
          BY <3>2, <4>2 DEF UseGlobal
        <5>2. call.from \in Created
          BY <5>1
        <5>3. CASE call.from = global
          <6>1. status[global] = "destroyed"
            BY <4>2, <5>2, <5>3 DEF HooksInv, HooksTyped, Open, Created, Fresh
          <6>2. Going(call.from)
            BY <5>3, <6>1 DEF Going
          <6> QED
            BY <2>4, <2>5, <5>1, <5>2, <6>2
        <5>4. CASE Going(call.from)
          BY <2>4, <2>5, <5>1, <5>2, <5>4
        <5> QED
          BY <5>1, <5>3, <5>4
      <4> QED
        BY <4>1, <4>2
    <3>3. CASE LostCallReturns
      BY <3>3 DEF LostCallReturns, NoCall
    <3>4. CASE UNCHANGED call
      BY <2>2, <2>4, <2>5, <3>4
    <3> QED
      BY <3>1, <3>2, <3>3, <3>4 DEF ProxyNext
  <2> QED
    BY <2>1, <2>3, <2>6 DEF ProxyInv
<1> QED
  BY <1>1, <1>2 DEF ProxyNext, TestGlobal, UseGlobal, LostCallReturns

(* A call through the module-level logger is lost only when the logger     *)
(* that was there at its beginning has been closed, or somebody is on the  *)
(* way to close it, whatever init and destroy do in between.               *)
THEOREM CallsFollow == ProxySpec => []LostOnlyToDestroy
<1>1. ProxyInv => LostOnlyToDestroy
  BY DEF ProxyInv, CallFollows, LostOnlyToDestroy, Going
<1> QED
  BY <1>1, ProxyStart, ProxyInductive, PTL DEF ProxySpec

-----------------------------------------------------------------------------
(* The sanitizer.  Its stack holds only places in sight of the dicts that  *)
(* it has entered, none of them twice, and each other place in sight of    *)
(* them is kept, whole or marked as its value asks for; once the stack is  *)
(* empty these dicts are closed under what is in sight of them.  It does   *)
(* become empty: each step takes a place from the stack or turns a dict    *)
(* that has not been entered into its places.                              *)

Heap == [Objects -> [kind : {"dict", "list", "tuple"}, items : Seq(Items)]]

Spots(h) == {p \in Objects \X Nat \X Nat : IsPlace(h, p)}

(* What stands in a context. *)
LEMMA ItemTypes ==
    ASSUME NEW h \in Heap, NEW o \in Objects
    PROVE  /\ h[o] \in [kind : {"dict", "list", "tuple"}, items : Seq(Items)]
           /\ h[o].items \in Seq(Items)
           /\ DOMAIN h[o].items \subseteq Nat
           /\ \A i \in DOMAIN h[o].items :
                 h[o].items[i].value \in Objects \cup {"text", "secret"}
<1>1. h[o] \in [kind : {"dict", "list", "tuple"}, items : Seq(Items)]
  BY DEF Heap
<1>2. h[o].items \in Seq(Items)
  BY <1>1
<1> DEFINE s == h[o].items
<1> HIDE DEF s
<1>3. s \in Seq(Items)
  BY <1>2 DEF s
<1>4. DOMAIN s \subseteq Nat /\ \A i \in DOMAIN s : s[i] \in Items
  BY <1>3
<1>5. \A i \in DOMAIN s : s[i].value \in Objects \cup {"text", "secret"}
  BY <1>4 DEF Items
<1> QED
  BY <1>1, <1>2, <1>4, <1>5 DEF s

(* A place is a triple, and its value is an object or one of the two texts. *)
LEMMA SpotTypes ==
    ASSUME NEW h \in Heap, NEW p \in Spots(h)
    PROVE  /\ p \in Objects \X Nat \X Nat /\ p = <<p[1], p[2], p[3]>>
           /\ p[1] \in Objects /\ p[2] \in DOMAIN h[p[1]].items
           /\ ValueAt(h, p) \in Objects \cup {"text", "secret"}
<1>1. /\ p \in Objects \X Nat \X Nat /\ p = <<p[1], p[2], p[3]>> /\ p[1] \in Objects
      /\ IsPlace(h, p)
  BY DEF Spots
<1>2. p[2] \in DOMAIN h[p[1]].items
  BY <1>1 DEF IsPlace
<1>3. ItemAt(h, p).value \in Objects \cup {"text", "secret"}
  BY <1>1, <1>2, ItemTypes DEF ItemAt
<1>4. ValueAt(h, p) \in Objects \cup {"text", "secret"}
  <2>1. CASE p[3] = 0
    BY <1>3, <2>1 DEF ValueAt
  <2>2. CASE p[3] # 0
    <3> DEFINE v == ItemAt(h, p).value
    <3>1. v \in Objects /\ p[3] \in DOMAIN h[v].items
      BY <1>1, <2>2 DEF IsPlace, ListAt, IsObject
    <3>2. ValueAt(h, p) = h[v].items[p[3]].value
      BY <2>2 DEF ValueAt
    <3> HIDE DEF v
    <3> QED
      BY <3>1, <3>2, ItemTypes
  <2> QED
    BY <2>1, <2>2
<1> QED
  BY <1>1, <1>2, <1>4

(* What is in sight of some dicts, without the bounds on the indices. *)
LEMMA InSightIs ==
    ASSUME NEW h \in Heap, NEW D \in SUBSET Objects
    PROVE  InSight(h, D) = {p \in Spots(h) : p[1] \in D /\ ItemAt(h, p).key # "password"}
<1> DEFINE indices == {0} \cup UNION {DOMAIN h[o].items : o \in Objects}
<1>1. InSight(h, D) =
         {p \in D \X indices \X indices : IsPlace(h, p) /\ ItemAt(h, p).key # "password"}
  BY DEF InSight
<1>2. indices \subseteq Nat
  BY ItemTypes
<1>3. 0 \in indices /\ \A o \in Objects : DOMAIN h[o].items \subseteq indices
  OBVIOUS
<1> HIDE DEF indices
<1>4. ASSUME NEW p \in D \X indices \X indices, IsPlace(h, p)
      PROVE  p \in Spots(h) /\ p[1] \in D
  <2>1. p \in Objects \X Nat \X Nat /\ p[1] \in D
    BY <1>2
  <2> QED
    BY <1>4, <2>1 DEF Spots
<1>5. ASSUME NEW p \in Spots(h), p[1] \in D
      PROVE  p \in D \X indices \X indices /\ IsPlace(h, p)
  <2>1. p = <<p[1], p[2], p[3]>> /\ p[1] \in Objects /\ p[2] \in DOMAIN h[p[1]].items
    BY SpotTypes
  <2>2. IsPlace(h, p)
    BY DEF Spots
  <2>3. p[2] \in indices
    BY <1>3, <2>1
  <2>4. p[3] \in indices
    <3>1. CASE ListAt(h, p)
      BY <1>3, <2>2, <3>1 DEF IsPlace, ListAt, IsObject
    <3>2. CASE ~ListAt(h, p)
      BY <1>3, <2>2, <3>2 DEF IsPlace
    <3> QED
      BY <3>1, <3>2
  <2> QED
    BY <1>5, <2>1, <2>2, <2>3, <2>4
<1>6. \A p : p \in InSight(h, D) <=> p \in Spots(h) /\ p[1] \in D /\ ItemAt(h, p).key # "password"
  BY <1>1, <1>4, <1>5
<1> QED
  BY <1>6

(* What is in sight of more dicts is more, and of another dict other places. *)
LEMMA InSightOfUnion ==
    ASSUME NEW h \in Heap, NEW D \in SUBSET Objects, NEW E \in SUBSET Objects
    PROVE  /\ InSight(h, D) \subseteq Spots(h)
           /\ InSight(h, D \cup E) = InSight(h, D) \cup InSight(h, E)
           /\ D \cap E = {} => InSight(h, D) \cap InSight(h, E) = {}
<1>1. D \cup E \in SUBSET Objects
  OBVIOUS
<1>2. \A F \in SUBSET Objects : \A p : p \in InSight(h, F) <=>
         p \in Spots(h) /\ p[1] \in F /\ ItemAt(h, p).key # "password"
  BY InSightIs
<1>3. \A p : p \in InSight(h, D \cup E) <=> p \in InSight(h, D) \/ p \in InSight(h, E)
  BY <1>1, <1>2
<1>4. \A p : p \in InSight(h, D) /\ p \in InSight(h, E) => p[1] \in D \cap E
  BY <1>2
<1> QED
  BY <1>2, <1>3, <1>4

(* The places that the sanitizer goes through for a dict are those in      *)
(* sight of it, each of them once.                                         *)
LEMMA PartsInSight ==
    ASSUME NEW h \in Heap, NEW o \in Objects
    PROVE  /\ Parts(h, o) \in Seq(Spots(h)) /\ Distinct(Parts(h, o))
           /\ Seqs!ToSet(Parts(h, o)) = InSight(h, {o})
<1> DEFINE spread(i) ==
               LET v == h[o].items[i].value IN
               IF Sensitive(h[o].items[i].key) THEN <<>>
               ELSE IF IsObject(v) /\ h[v].kind = "list"
                    THEN [j \in DOMAIN h[v].items |-> <<o, i, j>>]
               ELSE <<<<o, i, 0>>>>
           seqs == [i \in DOMAIN h[o].items |-> spread(i)]
           Of(i, p) == p \in Spots(h) /\ p[1] = o /\ p[2] = i /\ ItemAt(h, p).key # "password"
<1>1. Parts(h, o) = Seqs!FlattenSeq(seqs)
  BY DEF Parts
<1>2. /\ h[o].items \in Seq(Items) /\ DOMAIN h[o].items \subseteq Nat
      /\ \A v \in Objects : h[v].items \in Seq(Items) /\ DOMAIN h[v].items \subseteq Nat
  BY ItemTypes
<1>3. ASSUME NEW i \in DOMAIN h[o].items
      PROVE  /\ spread(i) \in Seq(Spots(h)) /\ Distinct(spread(i))
             /\ \A p : p \in Seqs!ToSet(spread(i)) <=> Of(i, p)
  <2> DEFINE v == h[o].items[i].value
             t == spread(i)
  <2>0. \A p : p[1] = o /\ p[2] = i => ItemAt(h, p) = h[o].items[i]
    BY DEF ItemAt
  <2>1. CASE Sensitive(h[o].items[i].key)
    <3>1. t = <<>>
      BY <2>1
    <3>2. \A p : ~Of(i, p)
      BY <2>0, <2>1 DEF Sensitive
    <3>3. <<>> \in Seq(Spots(h)) /\ Distinct(<<>>) /\ \A p : p \notin Seqs!ToSet(<<>>)
      BY DEF Seqs!ToSet, Distinct
    <3> HIDE DEF t, Of
    <3> QED
      BY <3>1, <3>2, <3>3 DEF t
  <2>2. CASE ~Sensitive(h[o].items[i].key) /\ v \in Objects /\ h[v].kind = "list"
    <3>1. t = [j \in DOMAIN h[v].items |-> <<o, i, j>>]
      BY <2>2 DEF IsObject
    <3> HIDE DEF t
    <3>2. ASSUME NEW p
          PROVE  Of(i, p) <=> p \in Objects \X Nat \X Nat /\ p[1] = o /\ p[2] = i /\ p[3] \in DOMAIN h[v].items
      <4>1. p[1] = o /\ p[2] = i => (IsPlace(h, p) <=> p[3] \in DOMAIN h[v].items)
        BY <2>0, <2>2 DEF IsPlace, ListAt, IsObject
      <4>2. p[1] = o /\ p[2] = i => ItemAt(h, p).key # "password"
        BY <2>0, <2>2 DEF Sensitive
      <4> QED
        BY <4>1, <4>2 DEF Spots
    <3>3. h[v].items \in Seq(Items)
      BY <1>2, <2>2
    <3>4. PICK m \in Nat : DOMAIN h[v].items = 1..m
      BY <3>3
    <3> HIDE DEF v, Of
    <3>5. \A j \in 1..m : <<o, i, j>> \in Objects \X Nat \X Nat
      BY <1>2
    <3>6. \A j \in 1..m : Of(i, <<o, i, j>>)
      BY <3>2, <3>4, <3>5
    <3>7. DOMAIN t = 1..m /\ \A j \in 1..m : t[j] = <<o, i, j>>
      BY <3>1, <3>4
    <3>8. t \in Seq(Spots(h))
      <4>1. \A j \in 1..m : <<o, i, j>> \in Spots(h)
        BY <3>6 DEF Of
      <4> QED
        BY <3>1, <3>4, <4>1
    <3>9. Distinct(t)
      BY <3>7 DEF Distinct
    <3>10. \A p : p \in Seqs!ToSet(t) <=> \E j \in 1..m : p = <<o, i, j>>
      BY <3>7 DEF Seqs!ToSet
    <3>11. \A p : Of(i, p) => p = <<o, i, p[3]>> /\ p[3] \in 1..m
      BY <3>2, <3>4
    <3>12. \A p : p \in Seqs!ToSet(t) <=> Of(i, p)
      BY <3>6, <3>10, <3>11
    <3> QED
      BY <3>8, <3>9, <3>12 DEF t
  <2>3. CASE ~Sensitive(h[o].items[i].key) /\ ~(v \in Objects /\ h[v].kind = "list")
    <3>1. t = <<<<o, i, 0>>>>
      BY <2>3 DEF IsObject
    <3> HIDE DEF t
    <3>2. ASSUME NEW p
          PROVE  Of(i, p) <=> p \in Objects \X Nat \X Nat /\ p[1] = o /\ p[2] = i /\ p[3] = 0
      <4>1. p[1] = o /\ p[2] = i => (IsPlace(h, p) <=> p[3] = 0)
        BY <2>0, <2>3 DEF IsPlace, ListAt, IsObject
      <4>2. p[1] = o /\ p[2] = i => ItemAt(h, p).key # "password"
        BY <2>0, <2>3 DEF Sensitive
      <4> QED
        BY <4>1, <4>2 DEF Spots
    <3> HIDE DEF Of
    <3>3. <<o, i, 0>> \in Objects \X Nat \X Nat
      BY <1>2
    <3>4. \A p : Of(i, p) <=> p = <<o, i, 0>>
      BY <3>2, <3>3
    <3>5. <<o, i, 0>> \in Spots(h)
      BY <3>4 DEF Of
    <3>6. /\ t \in Seq(Spots(h)) /\ DOMAIN t = {1} /\ t[1] = <<o, i, 0>>
      BY <3>1, <3>5
    <3>7. Distinct(t) /\ \A p : p \in Seqs!ToSet(t) <=> p = <<o, i, 0>>
      BY <3>6 DEF Distinct, Seqs!ToSet
    <3> QED
      BY <3>4, <3>6, <3>7 DEF t
  <2> QED
    BY <2>1, <2>2, <2>3
<1> HIDE DEF spread
<1>4. seqs \in Seq(Seq(Spots(h))) /\ DOMAIN seqs = DOMAIN h[o].items
  BY <1>2, <1>3
<1>5. \A i \in DOMAIN h[o].items : seqs[i] = spread(i)
  OBVIOUS
<1> HIDE DEF seqs
<1>6. /\ Seqs!FlattenSeq(seqs) \in Seq(Spots(h))
      /\ Seqs!ToSet(Seqs!FlattenSeq(seqs)) = UNION {Seqs!ToSet(seqs[i]) : i \in DOMAIN seqs}
      /\ Apart(seqs) => Distinct(Seqs!FlattenSeq(seqs))
  BY <1>4, FlattenElements
<1>7. Apart(seqs)
  <2>1. \A i, p : Of(i, p) => p[2] = i
    OBVIOUS
  <2> HIDE DEF Of
  <2>2. \A i, j \in DOMAIN seqs : \A p : p \in Seqs!ToSet(seqs[i]) /\ p \in Seqs!ToSet(seqs[j]) => i = j
    BY <1>3, <1>4, <1>5, <2>1, ZenonT(30)
  <2>3. \A i \in DOMAIN seqs : Distinct(seqs[i])
    BY <1>3, <1>4, <1>5
  <2> QED
    BY <2>2, <2>3 DEF Apart
<1>8. \A p : p \in Seqs!ToSet(Parts(h, o)) <=> \E i \in DOMAIN h[o].items : p \in Seqs!ToSet(seqs[i])
  BY <1>1, <1>4, <1>6
<1>9. \A p : p \in Seqs!ToSet(Parts(h, o)) <=> \E i \in DOMAIN h[o].items : Of(i, p)
  <2> HIDE DEF Of
  <2> QED
    BY <1>3, <1>5, <1>8
<1>10. ASSUME NEW p
       PROVE  p \in InSight(h, {o}) <=> \E i \in DOMAIN h[o].items : Of(i, p)
  <2>1. p \in InSight(h, {o}) <=> p \in Spots(h) /\ p[1] = o /\ ItemAt(h, p).key # "password"
    <3>1. InSight(h, {o}) = {q \in Spots(h) : q[1] \in {o} /\ ItemAt(h, q).key # "password"}
      BY InSightIs
    <3> QED
      BY <3>1
  <2>2. p \in Spots(h) /\ p[1] = o => p[2] \in DOMAIN h[o].items
    BY SpotTypes
  <2> QED
    BY <2>1, <2>2
<1>11. \A p : p \in Seqs!ToSet(Parts(h, o)) <=> p \in InSight(h, {o})
  <2> HIDE DEF Of
  <2> QED
    BY <1>9, <1>10
<1> QED
  BY <1>1, <1>6, <1>7, <1>11

(* What a sanitizer can hold. *)
Holdings(h) ==
    [todo : Seq(Spots(h)), seen : SUBSET Objects, kept : SUBSET Spots(h),
     whole : SUBSET Spots(h), marked : SUBSET Spots(h), raised : BOOLEAN]

(* The one that holds this. *)
Held(t, s, k, w, m, q) ==
    [todo |-> t, seen |-> s, kept |-> k, whole |-> w, marked |-> m, raised |-> q]

Start == Held(<<>>, {}, {}, {}, {}, FALSE)
Weights(h) == [o \in Objects |-> Len(Parts(h, o))]
Looks(h) == TotalOf(Weights(h), Objects)

(* A sanitizer has its six fields. *)
LEMMA HoldingsFields ==
    ASSUME NEW h, NEW r \in Holdings(h)
    PROVE  /\ r = Held(r.todo, r.seen, r.kept, r.whole, r.marked, r.raised)
           /\ r.todo \in Seq(Spots(h)) /\ r.seen \in SUBSET Objects
           /\ r.kept \in SUBSET Spots(h) /\ r.whole \in SUBSET Spots(h)
           /\ r.marked \in SUBSET Spots(h) /\ r.raised \in BOOLEAN
BY DEF Holdings, Held

(* And any such fields make one. *)
LEMMA HeldFields ==
    ASSUME NEW h, NEW t \in Seq(Spots(h)), NEW s \in SUBSET Objects, NEW k \in SUBSET Spots(h),
           NEW w \in SUBSET Spots(h), NEW m \in SUBSET Spots(h), NEW q \in BOOLEAN
    PROVE  LET r == Held(t, s, k, w, m, q)
           IN  /\ r \in Holdings(h)
               /\ r.todo = t /\ r.seen = s /\ r.kept = k /\ r.whole = w /\ r.marked = m
               /\ r.raised = q
BY DEF Holdings, Held

(* Entering a dict, field by field. *)
LEMMA EnterDoes ==
    ASSUME NEW h \in Heap, NEW r \in Holdings(h), NEW o \in Objects
    PROVE  /\ Enter(h, r, o) \in Holdings(h)
           /\ Enter(h, r, o).todo = Parts(h, o) \o r.todo
           /\ Enter(h, r, o).seen = r.seen \cup {o}
           /\ Enter(h, r, o).kept = r.kept /\ Enter(h, r, o).whole = r.whole
           /\ Enter(h, r, o).marked = r.marked
           /\ Enter(h, r, o).raised = (r.raised \/ RaisesOn(h, o))
<1> DEFINE t == Parts(h, o) \o r.todo
           q == (r.raised \/ RaisesOn(h, o))
<1>1. /\ t \in Seq(Spots(h)) /\ q \in BOOLEAN
      /\ r.seen \cup {o} \in SUBSET Objects /\ r.kept \in SUBSET Spots(h)
      /\ r.whole \in SUBSET Spots(h) /\ r.marked \in SUBSET Spots(h)
  <2>1. RaisesOn(h, o) \in BOOLEAN
    BY DEF RaisesOn
  <2>2. Parts(h, o) \o r.todo \in Seq(Spots(h))
    BY PartsInSight, HoldingsFields, ConcatElements
  <2> QED
    BY <2>1, <2>2, HoldingsFields
<1>2. Enter(h, r, o) = Held(t, r.seen \cup {o}, r.kept, r.whole, r.marked, q)
  BY DEF Enter, Held
<1> HIDE DEF t, q
<1>3. LET e == Held(t, r.seen \cup {o}, r.kept, r.whole, r.marked, q)
      IN  /\ e \in Holdings(h)
          /\ e.todo = t /\ e.seen = r.seen \cup {o} /\ e.kept = r.kept /\ e.whole = r.whole
          /\ e.marked = r.marked /\ e.raised = q
  BY <1>1, HeldFields
<1> QED
  BY <1>2, <1>3 DEF t, q

(* A look at the next place, case by case. *)
LEMMA LookDoes ==
    ASSUME NEW h \in Heap, NEW r \in Holdings(h), r.todo # <<>>
    PROVE  LET p == Head(r.todo)
               t == Tail(r.todo)
               v == ValueAt(h, p)
           IN  /\ p \in Spots(h) /\ t \in Seq(Spots(h))
               /\ \/ /\ v = "secret"
                     /\ Look(h, r) = Held(t, r.seen, r.kept, r.whole, r.marked, r.raised)
                  \/ /\ v # "secret" /\ ~IsDict(h, v)
                     /\ Look(h, r) = Held(t, r.seen, r.kept \cup {p}, r.whole, r.marked, r.raised)
                  \/ /\ IsDict(h, v) /\ v \in r.seen
                     /\ Look(h, r) = Held(t, r.seen, r.kept, r.whole, r.marked \cup {p}, r.raised)
                  \/ /\ IsDict(h, v) /\ v \notin r.seen
                     /\ Look(h, r) = Enter(h, Held(t, r.seen, r.kept, r.whole \cup {p}, r.marked,
                                                   r.raised), v)
<1> DEFINE p == Head(r.todo)
           t == Tail(r.todo)
           v == ValueAt(h, p)
           rest == Held(t, r.seen, r.kept, r.whole, r.marked, r.raised)
<1>1. /\ r = Held(r.todo, r.seen, r.kept, r.whole, r.marked, r.raised)
      /\ r.todo \in Seq(Spots(h))
  BY HoldingsFields
<1>2. p \in Spots(h) /\ t \in Seq(Spots(h))
  BY <1>1
<1>3. [r EXCEPT !.todo = t] = rest
  <2> DEFINE u == r.todo
  <2>1. r = [todo |-> u, seen |-> r.seen, kept |-> r.kept, whole |-> r.whole,
             marked |-> r.marked, raised |-> r.raised]
    BY <1>1 DEF Held
  <2> HIDE DEF t, u
  <2>2. [r EXCEPT !.todo = t] = [todo |-> t, seen |-> r.seen, kept |-> r.kept, whole |-> r.whole,
                                 marked |-> r.marked, raised |-> r.raised]
    BY <2>1
  <2> QED
    BY <2>2 DEF Held
<1>4. Look(h, r) =
         IF v = "secret" THEN rest
         ELSE IF ~IsDict(h, v) THEN [rest EXCEPT !.kept = r.kept \cup {p}]
         ELSE IF v \in r.seen THEN [rest EXCEPT !.marked = r.marked \cup {p}]
         ELSE Enter(h, [rest EXCEPT !.whole = r.whole \cup {p}], v)
  <2> DEFINE u == [r EXCEPT !.todo = t]
  <2>1. Look(h, r) =
           IF v = "secret" THEN u
           ELSE IF ~IsDict(h, v) THEN [u EXCEPT !.kept = r.kept \cup {p}]
           ELSE IF v \in r.seen THEN [u EXCEPT !.marked = r.marked \cup {p}]
           ELSE Enter(h, [u EXCEPT !.whole = r.whole \cup {p}], v)
    BY DEF Look
  <2>2. u = rest
    BY <1>3
  <2> HIDE DEF u, rest, v, p, t
  <2> QED
    BY <2>1, <2>2
<1> HIDE DEF p, t, v
<1>5. ASSUME NEW x
      PROVE  /\ [rest EXCEPT !.kept = x] = Held(t, r.seen, x, r.whole, r.marked, r.raised)
             /\ [rest EXCEPT !.whole = x] = Held(t, r.seen, r.kept, x, r.marked, r.raised)
             /\ [rest EXCEPT !.marked = x] = Held(t, r.seen, r.kept, r.whole, x, r.raised)
  BY DEF Held
<1> QED
  BY <1>2, <1>4, <1>5 DEF p, t, v

(* A look leaves a sanitizer. *)
LEMMA LookType ==
    ASSUME NEW h \in Heap, NEW r \in Holdings(h)
    PROVE  Look(h, r) \in Holdings(h)
<1>1. CASE r.todo = <<>>
  BY <1>1 DEF Look
<1>2. CASE r.todo # <<>>
  <2> DEFINE p == Head(r.todo)
             t == Tail(r.todo)
             v == ValueAt(h, p)
             next == Held(t, r.seen, r.kept, r.whole \cup {p}, r.marked, r.raised)
  <2>1. /\ p \in Spots(h) /\ t \in Seq(Spots(h))
        /\ \/ Look(h, r) = Held(t, r.seen, r.kept, r.whole, r.marked, r.raised)
           \/ Look(h, r) = Held(t, r.seen, r.kept \cup {p}, r.whole, r.marked, r.raised)
           \/ Look(h, r) = Held(t, r.seen, r.kept, r.whole, r.marked \cup {p}, r.raised)
           \/ IsDict(h, v) /\ Look(h, r) = Enter(h, next, v)
    BY <1>2, LookDoes
  <2> HIDE DEF p, t, v
  <2>2. /\ r.seen \in SUBSET Objects /\ r.raised \in BOOLEAN
        /\ r.kept \in SUBSET Spots(h) /\ r.kept \cup {p} \in SUBSET Spots(h)
        /\ r.whole \in SUBSET Spots(h) /\ r.whole \cup {p} \in SUBSET Spots(h)
        /\ r.marked \in SUBSET Spots(h) /\ r.marked \cup {p} \in SUBSET Spots(h)
    BY <2>1, HoldingsFields
  <2>3. CASE Look(h, r) = Held(t, r.seen, r.kept, r.whole, r.marked, r.raised)
    BY <2>1, <2>2, <2>3, HeldFields
  <2>4. CASE Look(h, r) = Held(t, r.seen, r.kept \cup {p}, r.whole, r.marked, r.raised)
    BY <2>1, <2>2, <2>4, HeldFields
  <2>5. CASE Look(h, r) = Held(t, r.seen, r.kept, r.whole, r.marked \cup {p}, r.raised)
    BY <2>1, <2>2, <2>5, HeldFields
  <2>6. CASE IsDict(h, v) /\ Look(h, r) = Enter(h, next, v)
    <3>1. next \in Holdings(h)
      BY <2>1, <2>2, HeldFields
    <3>2. v \in Objects
      BY <2>6 DEF IsDict, IsObject
    <3> HIDE DEF next
    <3> QED
      BY <2>6, <3>1, <3>2, EnterDoes
  <2> QED
    BY <2>1, <2>3, <2>4, <2>5, <2>6
<1> QED
  BY <1>1, <1>2

(* The weights are numbers. *)
LEMMA WeightsType ==
    ASSUME NEW h \in Heap
    PROVE  /\ \A o \in Objects : Weights(h)[o] = Len(Parts(h, o)) /\ Weights(h)[o] \in Nat
           /\ Looks(h) \in Nat
<1>1. \A o \in Objects : Parts(h, o) \in Seq(Spots(h))
  BY PartsInSight
<1>2. \A o \in Objects : Weights(h)[o] = Len(Parts(h, o)) /\ Weights(h)[o] \in Nat
  BY <1>1 DEF Weights
<1> QED
  BY <1>2, ObjectsAssumption, TotalType DEF Looks

(* The first sanitizer holds nothing. *)
LEMMA StartHolds ==
    ASSUME NEW h
    PROVE  /\ Start \in Holdings(h)
           /\ Start.todo = <<>> /\ Start.seen = {} /\ Start.kept = {} /\ Start.whole = {}
           /\ Start.marked = {} /\ Start.raised = FALSE
<1>1. <<>> \in Seq(Spots(h))
  OBVIOUS
<1> QED
  BY <1>1 DEF Start, Held, Holdings

(* The recursion of sanitize_data is an iteration of Look. *)
LEMMA SanitizeIterates ==
    ASSUME NEW h \in Heap, Root \in Objects
    PROVE  \E f \in [Nat -> Holdings(h)] :
              /\ f[0] = Enter(h, Start, Root)
              /\ \A n \in Nat : f[n + 1] = Look(h, f[n])
              /\ Sanitize(h) = f[Looks(h)]
<1> DEFINE first == Enter(h, Start, Root)
           Rec(f) == f = [n \in Nat |-> IF n = 0 THEN first ELSE Look(h, f[n - 1])]
           after == CHOOSE f : Rec(f)
           R == Holdings(h)
           next == [p \in Nat \X R |-> Look(h, p[2])]
<1>1. Sanitize(h) = after[Looks(h)]
  BY DEF Sanitize, Start, Held, Looks, Weights
<1>2. first \in R
  <2>1. Start \in Holdings(h)
    BY StartHolds
  <2> QED
    BY <2>1, EnterDoes
<1>3. \A r \in R : Look(h, r) \in R
  BY LookType
<1> HIDE DEF first, R
<1>4. next \in [Nat \X R -> R]
  BY <1>3
<1>5. \A n \in Nat : \A r \in R : next[<<n, r>>] = Look(h, r)
  OBVIOUS
<1> HIDE DEF next
<1>6. PICK f \in [Nat -> R] : Iterates(f, first, next)
  <2>1. \E f \in [Nat -> R] : Iterates(f, first, next)
    BY <1>2, <1>4, IterationExists
  <2> QED
    BY <2>1
<1>7. f[0] = first /\ \A n \in Nat : f[n + 1] = Look(h, f[n])
  <2>1. \A n \in Nat : f[n] \in R /\ n + 1 \in Nat
    BY <1>6
  <2> QED
    BY <1>5, <1>6, <2>1 DEF Iterates
<1>8. Rec(f)
  <2>1. ASSUME NEW n \in Nat PROVE f[n] = IF n = 0 THEN first ELSE Look(h, f[n - 1])
    <3>1. CASE n = 0
      BY <1>7, <3>1
    <3>2. CASE n # 0
      <4>1. n - 1 \in Nat /\ (n - 1) + 1 = n
        BY <3>2
      <4>2. f[(n - 1) + 1] = Look(h, f[n - 1])
        BY <1>7, <4>1
      <4> QED
        BY <3>2, <4>1, <4>2
    <3> QED
      BY <3>1, <3>2
  <2> QED
    BY <1>6, <2>1
<1>9. Rec(after)
  BY <1>8
<1> HIDE DEF after
<1>10. /\ after[0] = first
       /\ \A n \in Nat : after[n + 1] = Look(h, after[n])
  <2>1. after[0] = first
    BY <1>9
  <2>2. ASSUME NEW n \in Nat PROVE after[n + 1] = Look(h, after[n])
    <3>1. n + 1 \in Nat /\ n + 1 # 0 /\ (n + 1) - 1 = n
      OBVIOUS
    <3> QED
      BY <1>9, <3>1
  <2> QED
    BY <2>1, <2>2
<1>11. after \in [Nat -> R]
  <2> DEFINE T == {n \in Nat : after[n] \in R}
  <2>1. 0 \in T /\ \A n \in T : n + 1 \in T
    BY <1>2, <1>3, <1>10
  <2>2. T \subseteq Nat
    OBVIOUS
  <2> HIDE DEF T
  <2>3. T = Nat
    BY <2>1, <2>2, NumbersInductive
  <2>4. \A n \in Nat : after[n] \in R
    BY <2>3 DEF T
  <2>5. after = [n \in Nat |-> after[n]]
    BY <1>9
  <2> QED
    BY <2>4, <2>5
<1> QED
  BY <1>1, <1>10, <1>11 DEF first, R

(* The objects entered contain the root and the dicts in sight of them,    *)
(* and nothing that is not forced by that.                                 *)
LEMMA EnteredClosed ==
    ASSUME NEW h \in Heap, Root \in Objects
    PROVE  /\ Root \in Entered(h) /\ Entered(h) \subseteq Objects
           /\ \A D \in SUBSET Entered(h) : \A p \in InSight(h, D) :
                 IsDict(h, ValueAt(h, p)) => ValueAt(h, p) \in Entered(h)
           /\ \A D \in SUBSET Objects :
                 /\ Root \in D
                 /\ \A p \in InSight(h, D) : IsDict(h, ValueAt(h, p)) => ValueAt(h, p) \in D
                 => Entered(h) \subseteq D
<1> DEFINE Closed(D) == \A p \in DictsInSight(h, D) : ValueAt(h, p) \in D
<1>1. \A o : o \in Entered(h) <=>
         o \in Objects /\ \A D \in SUBSET Objects : Root \in D /\ Closed(D) => o \in D
  BY DEF Entered
<1>2. \A D : Closed(D) <=>
         \A p \in InSight(h, D) : IsDict(h, ValueAt(h, p)) => ValueAt(h, p) \in D
  BY DEF DictsInSight
<1> HIDE DEF Closed
<1>3. Root \in Entered(h) /\ Entered(h) \subseteq Objects
  BY <1>1
<1>4. ASSUME NEW D \in SUBSET Entered(h), NEW p \in InSight(h, D), IsDict(h, ValueAt(h, p))
      PROVE  ValueAt(h, p) \in Entered(h)
  <2>1. ASSUME NEW E \in SUBSET Objects, Root \in E, Closed(E)
        PROVE  ValueAt(h, p) \in E
    <3>1. D \subseteq E /\ D \in SUBSET Objects /\ D \cup E = E
      BY <1>1, <2>1
    <3>2. p \in InSight(h, E)
      <4>1. InSight(h, D \cup E) = InSight(h, D) \cup InSight(h, E)
        BY <3>1, InSightOfUnion
      <4> QED
        BY <3>1, <4>1
    <3> QED
      BY <1>2, <1>4, <2>1, <3>2
  <2>2. ValueAt(h, p) \in Objects
    BY <1>4 DEF IsDict, IsObject
  <2> QED
    BY <1>1, <2>1, <2>2
<1>5. ASSUME NEW D \in SUBSET Objects, Root \in D, Closed(D)
      PROVE  Entered(h) \subseteq D
  BY <1>1, <1>5
<1> QED
  BY <1>2, <1>3, <1>4, <1>5

(* Place p is in sight and has been looked at. *)
Done(h, r, p) == p \in InSight(h, r.seen) /\ p \notin Seqs!ToSet(r.todo)

(* Each dict of D but Root stands at one place of W, and no other does. *)
Standing(h, W, D) ==
    /\ \A p \in W : ValueAt(h, p) \in D /\ ValueAt(h, p) # Root
    /\ \A o \in D \ {Root} : \E p \in W : ValueAt(h, p) = o
    /\ \A p, q \in W : ValueAt(h, p) = ValueAt(h, q) => p = q

(* What the sanitizer holds is right, when the dicts of D stand in full or *)
(* are about to.                                                           *)
RightFor(h, r, D) ==
    /\ r \in Holdings(h)
    /\ Root \in D
    /\ \A d \in r.seen : d \in Entered(h) /\ h[d].kind = "dict"
    /\ Distinct(r.todo)
    /\ Seqs!ToSet(r.todo) \subseteq InSight(h, r.seen)
    /\ \A p : p \in r.kept <=>
          Done(h, r, p) /\ ValueAt(h, p) # "secret" /\ ~IsDict(h, ValueAt(h, p))
    /\ \A p : p \in r.whole \/ p \in r.marked <=> Done(h, r, p) /\ IsDict(h, ValueAt(h, p))
    /\ \A p : ~(p \in r.whole /\ p \in r.marked)
    /\ \A p \in r.marked : ValueAt(h, p) \in r.seen
    /\ Standing(h, r.whole, D)
    /\ r.raised = \E d \in r.seen : RaisesOn(h, d)

Right(h, r) == RightFor(h, r, r.seen)

(* An upper bound of the looks from the start to the end, after n of them. *)
LooksAfter(h, r, n) == n + Len(r.todo) + TotalOf(Weights(h), Objects \ r.seen)

LEMMA EnterKeepsRight ==
    ASSUME NEW h \in Heap, Root \in Objects, NEW r, NEW o \in Objects, o \notin r.seen,
           o \in Entered(h), h[o].kind = "dict", RightFor(h, r, r.seen \cup {o})
    PROVE  /\ Right(h, Enter(h, r, o))
           /\ \A n \in Nat : LooksAfter(h, Enter(h, r, o), n) = LooksAfter(h, r, n)
<1> DEFINE e == Enter(h, r, o)
           I == InSight(h, r.seen)
           P == InSight(h, {o})
<1>1. /\ r \in Holdings(h) /\ r.todo \in Seq(Spots(h)) /\ r.seen \in SUBSET Objects
      /\ r.raised \in BOOLEAN
  BY HoldingsFields DEF RightFor
<1>2. /\ e \in Holdings(h) /\ e.todo = Parts(h, o) \o r.todo /\ e.seen = r.seen \cup {o}
      /\ e.kept = r.kept /\ e.whole = r.whole /\ e.marked = r.marked
      /\ e.raised = (r.raised \/ RaisesOn(h, o))
  BY <1>1, EnterDoes
<1>3. /\ Parts(h, o) \in Seq(Spots(h)) /\ Seqs!ToSet(Parts(h, o)) = P /\ Distinct(Parts(h, o))
  BY PartsInSight
<1>4. /\ Seqs!ToSet(e.todo) = P \cup Seqs!ToSet(r.todo)
      /\ Len(e.todo) = Len(Parts(h, o)) + Len(r.todo)
  BY <1>1, <1>2, <1>3, ConcatElements
<1>5. InSight(h, e.seen) = I \cup P /\ I \cap P = {}
  <2>1. {o} \in SUBSET Objects /\ r.seen \cap {o} = {}
    OBVIOUS
  <2>2. InSight(h, r.seen \cup {o}) = I \cup P /\ I \cap P = {}
    BY <1>1, <2>1, InSightOfUnion
  <2> QED
    BY <1>2, <2>2
<1>6. /\ Root \in r.seen \cup {o}
      /\ \A d \in r.seen : d \in Entered(h) /\ h[d].kind = "dict"
      /\ Distinct(r.todo)
      /\ Seqs!ToSet(r.todo) \subseteq I
      /\ \A p : p \in r.kept <=>
            Done(h, r, p) /\ ValueAt(h, p) # "secret" /\ ~IsDict(h, ValueAt(h, p))
      /\ \A p : p \in r.whole \/ p \in r.marked <=> Done(h, r, p) /\ IsDict(h, ValueAt(h, p))
      /\ \A p : ~(p \in r.whole /\ p \in r.marked)
      /\ \A p \in r.marked : ValueAt(h, p) \in r.seen
      /\ Standing(h, r.whole, r.seen \cup {o})
      /\ r.raised = \E d \in r.seen : RaisesOn(h, d)
  BY DEF RightFor
<1>7. \A p : Done(h, e, p) <=> Done(h, r, p)
  <2> HIDE DEF e
  <2>1. \A p : p \in I => p \notin P
    BY <1>5
  <2>2. \A p : Done(h, r, p) <=> p \in I /\ p \notin Seqs!ToSet(r.todo)
    BY DEF Done
  <2>3. \A p : Done(h, e, p) <=> (p \in I \/ p \in P) /\ ~(p \in P \/ p \in Seqs!ToSet(r.todo))
    BY <1>4, <1>5 DEF Done
  <2> HIDE DEF I, P
  <2> QED
    BY <2>1, <2>2, <2>3
<1> HIDE DEF e, I, P
<1>8. /\ Root \in e.seen
      /\ \A d \in e.seen : d \in Entered(h) /\ h[d].kind = "dict"
  BY <1>2, <1>6
<1>9. Distinct(e.todo)
  <2>1. Seqs!ToSet(Parts(h, o)) \cap Seqs!ToSet(r.todo) = {}
    BY <1>3, <1>5, <1>6
  <2> QED
    BY <1>1, <1>2, <1>3, <1>6, <2>1, ConcatDistinct
<1>10. Seqs!ToSet(e.todo) \subseteq InSight(h, e.seen)
  BY <1>4, <1>5, <1>6
<1>11. /\ \A p : p \in e.kept <=>
             Done(h, e, p) /\ ValueAt(h, p) # "secret" /\ ~IsDict(h, ValueAt(h, p))
       /\ \A p : p \in e.whole \/ p \in e.marked <=> Done(h, e, p) /\ IsDict(h, ValueAt(h, p))
       /\ \A p : ~(p \in e.whole /\ p \in e.marked)
       /\ \A p \in e.marked : ValueAt(h, p) \in e.seen
       /\ Standing(h, e.whole, e.seen)
  BY <1>2, <1>6, <1>7
<1>12. e.raised = \E d \in e.seen : RaisesOn(h, d)
  BY <1>1, <1>2, <1>6
<1>13. Right(h, e)
  BY <1>2, <1>8, <1>9, <1>10, <1>11, <1>12 DEF Right, RightFor
<1>14. TotalOf(Weights(h), Objects \ r.seen) =
          TotalOf(Weights(h), Objects \ e.seen) + Len(Parts(h, o))
  <2> DEFINE S == Objects \ e.seen
  <2>1. Objects \ r.seen = S \cup {o} /\ o \notin S
    BY <1>2
  <2>2. IsFiniteSet(S)
    BY ObjectsAssumption, FS_Subset
  <2>3. \A x \in S \cup {o} : Weights(h)[x] \in Nat
    BY WeightsType
  <2> HIDE DEF S
  <2>4. TotalOf(Weights(h), S \cup {o}) = TotalOf(Weights(h), S) + Weights(h)[o]
    BY <2>1, <2>2, <2>3, TotalOfAdded
  <2>5. Weights(h)[o] = Len(Parts(h, o))
    BY WeightsType
  <2> QED
    BY <2>1, <2>4, <2>5 DEF S
<1>15. TotalOf(Weights(h), Objects \ e.seen) \in Nat
  <2>1. IsFiniteSet(Objects \ e.seen) /\ \A x \in Objects \ e.seen : Weights(h)[x] \in Nat
    BY ObjectsAssumption, FS_Subset, WeightsType
  <2> QED
    BY <2>1, TotalType
<1>16. Len(Parts(h, o)) \in Nat /\ Len(r.todo) \in Nat
  BY <1>1, <1>3
<1>17. \A n \in Nat : LooksAfter(h, e, n) = LooksAfter(h, r, n)
  BY <1>4, <1>14, <1>15, <1>16 DEF LooksAfter
<1> QED
  BY <1>13, <1>17 DEF e

LEMMA LookKeepsRight ==
    ASSUME NEW h \in Heap, Root \in Objects, NEW r, Right(h, r), r.todo # <<>>
    PROVE  /\ Right(h, Look(h, r))
           /\ \A n \in Nat : LooksAfter(h, Look(h, r), n + 1) = LooksAfter(h, r, n)
<1> DEFINE p == Head(r.todo)
           t == Tail(r.todo)
           v == ValueAt(h, p)
           I == InSight(h, r.seen)
           next == Held(t, r.seen, r.kept, r.whole \cup {p}, r.marked, r.raised)
<1>1. /\ r \in Holdings(h) /\ r.todo \in Seq(Spots(h)) /\ r.seen \in SUBSET Objects
      /\ r.kept \in SUBSET Spots(h) /\ r.whole \in SUBSET Spots(h)
      /\ r.marked \in SUBSET Spots(h) /\ r.raised \in BOOLEAN
  BY HoldingsFields DEF Right, RightFor
<1>2. /\ p \in Spots(h) /\ t \in Seq(Spots(h))
      /\ \/ /\ v = "secret"
            /\ Look(h, r) = Held(t, r.seen, r.kept, r.whole, r.marked, r.raised)
         \/ /\ v # "secret" /\ ~IsDict(h, v)
            /\ Look(h, r) = Held(t, r.seen, r.kept \cup {p}, r.whole, r.marked, r.raised)
         \/ /\ IsDict(h, v) /\ v \in r.seen
            /\ Look(h, r) = Held(t, r.seen, r.kept, r.whole, r.marked \cup {p}, r.raised)
         \/ /\ IsDict(h, v) /\ v \notin r.seen
            /\ Look(h, r) = Enter(h, next, v)
  BY <1>1, LookDoes
<1>3. /\ Root \in r.seen
      /\ \A d \in r.seen : d \in Entered(h) /\ h[d].kind = "dict"
      /\ Distinct(r.todo)
      /\ Seqs!ToSet(r.todo) \subseteq I
      /\ \A q : q \in r.kept <=>
            Done(h, r, q) /\ ValueAt(h, q) # "secret" /\ ~IsDict(h, ValueAt(h, q))
      /\ \A q : q \in r.whole \/ q \in r.marked <=> Done(h, r, q) /\ IsDict(h, ValueAt(h, q))
      /\ \A q : ~(q \in r.whole /\ q \in r.marked)
      /\ \A q \in r.marked : ValueAt(h, q) \in r.seen
      /\ Standing(h, r.whole, r.seen)
      /\ r.raised = \E d \in r.seen : RaisesOn(h, d)
  BY DEF Right, RightFor
<1>4. /\ Seqs!ToSet(r.todo) = {p} \cup Seqs!ToSet(t) /\ Len(t) = Len(r.todo) - 1
      /\ Distinct(t) /\ p \notin Seqs!ToSet(t)
  BY <1>1, <1>3, TailElements, TailDistinct
<1>5. Look(h, r) \in Holdings(h)
  BY <1>1, LookType
<1>6. ValueAt(h, p) = v
  OBVIOUS
<1>7. Len(r.todo) \in Nat /\ TotalOf(Weights(h), Objects \ r.seen) \in Nat
  <2>1. IsFiniteSet(Objects \ r.seen) /\ \A x \in Objects \ r.seen : Weights(h)[x] \in Nat
    BY ObjectsAssumption, FS_Subset, WeightsType
  <2> QED
    BY <1>1, <2>1, TotalType
<1>8. v = "secret" => ~IsDict(h, v)
  BY ObjectsAssumption DEF IsDict, IsObject
<1> HIDE DEF p, t, v, I
<1>9. p \in I /\ ~Done(h, r, p)
  BY <1>3, <1>4 DEF Done
<1>10. \A e : e.todo = t /\ e.seen = r.seen =>
          /\ \A n \in Nat : LooksAfter(h, e, n + 1) = LooksAfter(h, r, n)
          /\ \A q : Done(h, e, q) <=> Done(h, r, q) \/ q = p
  <2>1. \A e : e.todo = t /\ e.seen = r.seen =>
           \A n \in Nat : LooksAfter(h, e, n + 1) = LooksAfter(h, r, n)
    BY <1>4, <1>7 DEF LooksAfter
  <2>2. \A e : e.todo = t /\ e.seen = r.seen =>
           \A q : Done(h, e, q) <=> Done(h, r, q) \/ q = p
    BY <1>4, <1>9 DEF Done, I
  <2> QED
    BY <2>1, <2>2
<1>11. ASSUME NEW e \in Holdings(h), NEW D, e.todo = t, e.seen = r.seen, e.raised = r.raised,
              Root \in D,
              \A q : q \in e.kept <=> q \in r.kept \/ (q = p /\ v # "secret" /\ ~IsDict(h, v)),
              \A q : q \in e.whole \/ q \in e.marked <=>
                        q \in r.whole \/ q \in r.marked \/ (q = p /\ IsDict(h, v)),
              \A q : ~(q \in e.whole /\ q \in e.marked),
              \A q \in e.marked : ValueAt(h, q) \in r.seen,
              Standing(h, e.whole, D)
       PROVE  RightFor(h, e, D)
  <2>1. \A q : Done(h, e, q) <=> Done(h, r, q) \/ q = p
    BY <1>10, <1>11
  <2>2. \A q : q \in e.kept <=>
           Done(h, e, q) /\ ValueAt(h, q) # "secret" /\ ~IsDict(h, ValueAt(h, q))
    BY <1>3, <1>6, <1>11, <2>1
  <2>3. \A q : q \in e.whole \/ q \in e.marked <=> Done(h, e, q) /\ IsDict(h, ValueAt(h, q))
    BY <1>3, <1>6, <1>11, <2>1
  <2>4. Seqs!ToSet(e.todo) \subseteq InSight(h, e.seen)
    BY <1>3, <1>4, <1>11 DEF I
  <2>5. Distinct(e.todo)
    BY <1>4, <1>11
  <2>6. e.raised = \E d \in e.seen : RaisesOn(h, d)
    BY <1>3, <1>11
  <2>7. \A d \in e.seen : d \in Entered(h) /\ h[d].kind = "dict"
    BY <1>3, <1>11
  <2>8. \A q \in e.marked : ValueAt(h, q) \in e.seen
    BY <1>11
  <2> QED
    BY <1>11, <2>2, <2>3, <2>4, <2>5, <2>6, <2>7, <2>8 DEF RightFor
<1>12. CASE v = "secret" /\ Look(h, r) = Held(t, r.seen, r.kept, r.whole, r.marked, r.raised)
  <2>1. PICK e \in Holdings(h) : e = Look(h, r)
    BY <1>5
  <2>2. /\ e.todo = t /\ e.seen = r.seen /\ e.kept = r.kept /\ e.whole = r.whole
        /\ e.marked = r.marked /\ e.raised = r.raised
    BY <1>1, <1>2, <1>12, <2>1, HeldFields
  <2>3. RightFor(h, e, r.seen)
    BY <1>3, <1>8, <1>11, <1>12, <2>2
  <2> QED
    BY <1>10, <2>1, <2>2, <2>3 DEF Right
<1>13. CASE /\ v # "secret" /\ ~IsDict(h, v)
            /\ Look(h, r) = Held(t, r.seen, r.kept \cup {p}, r.whole, r.marked, r.raised)
  <2>1. PICK e \in Holdings(h) : e = Look(h, r)
    BY <1>5
  <2>2. /\ e.todo = t /\ e.seen = r.seen /\ e.kept = r.kept \cup {p} /\ e.whole = r.whole
        /\ e.marked = r.marked /\ e.raised = r.raised
    <3>1. r.kept \cup {p} \in SUBSET Spots(h)
      BY <1>1, <1>2
    <3> QED
      BY <1>1, <1>2, <1>13, <2>1, <3>1, HeldFields
  <2>3. RightFor(h, e, r.seen)
    BY <1>3, <1>11, <1>13, <2>2
  <2> QED
    BY <1>10, <2>1, <2>2, <2>3 DEF Right
<1>14. CASE /\ IsDict(h, v) /\ v \in r.seen
            /\ Look(h, r) = Held(t, r.seen, r.kept, r.whole, r.marked \cup {p}, r.raised)
  <2>1. PICK e \in Holdings(h) : e = Look(h, r)
    BY <1>5
  <2>2. /\ e.todo = t /\ e.seen = r.seen /\ e.kept = r.kept /\ e.whole = r.whole
        /\ e.marked = r.marked \cup {p} /\ e.raised = r.raised
    <3>1. r.marked \cup {p} \in SUBSET Spots(h)
      BY <1>1, <1>2
    <3> QED
      BY <1>1, <1>2, <1>14, <2>1, <3>1, HeldFields
  <2>3. \A q : ~(q \in e.whole /\ q \in e.marked)
    BY <1>3, <1>9, <2>2
  <2>4. \A q \in e.marked : ValueAt(h, q) \in r.seen
    BY <1>3, <1>6, <1>14, <2>2
  <2>5. RightFor(h, e, r.seen)
    BY <1>3, <1>11, <1>14, <2>2, <2>3, <2>4
  <2> QED
    BY <1>10, <2>1, <2>2, <2>5 DEF Right
<1>15. CASE IsDict(h, v) /\ v \notin r.seen /\ Look(h, r) = Enter(h, next, v)
  <2>1. /\ next \in Holdings(h)
        /\ next.todo = t /\ next.seen = r.seen /\ next.kept = r.kept
        /\ next.whole = r.whole \cup {p} /\ next.marked = r.marked /\ next.raised = r.raised
    <3>1. r.whole \cup {p} \in SUBSET Spots(h)
      BY <1>1, <1>2
    <3> QED
      BY <1>1, <1>2, <3>1, HeldFields
  <2> HIDE DEF next
  <2>2. PICK e \in Holdings(h) : e = next
    BY <2>1
  <2>3. /\ e.todo = t /\ e.seen = r.seen /\ e.kept = r.kept /\ e.whole = r.whole \cup {p}
        /\ e.marked = r.marked /\ e.raised = r.raised
    BY <2>1, <2>2
  <2>4. v \in Objects /\ h[v].kind = "dict" /\ v # Root
    BY <1>3, <1>15 DEF IsDict, IsObject
  <2>5. Standing(h, e.whole, r.seen \cup {v})
    <3>1. \A q \in r.whole : ValueAt(h, q) \in r.seen /\ ValueAt(h, q) # Root /\ ValueAt(h, q) # v
      BY <1>3, <1>15 DEF Standing
    <3>2. \A q \in e.whole : q \in r.whole \/ q = p
      BY <2>3
    <3>3. p \in e.whole /\ \A q \in r.whole : q \in e.whole
      BY <2>3
    <3>4. \A q \in e.whole : ValueAt(h, q) \in r.seen \cup {v} /\ ValueAt(h, q) # Root
      BY <1>6, <2>4, <3>1, <3>2
    <3>5. ASSUME NEW o \in (r.seen \cup {v}) \ {Root}
          PROVE  \E q \in e.whole : ValueAt(h, q) = o
      <4>1. CASE o = v
        BY <1>6, <3>3, <4>1
      <4>2. CASE o # v
        <5>1. \E q \in r.whole : ValueAt(h, q) = o
          BY <1>3, <4>2 DEF Standing
        <5> QED
          BY <3>3, <5>1
      <4> QED
        BY <4>1, <4>2
    <3>6. ASSUME NEW q \in e.whole, NEW q2 \in e.whole, ValueAt(h, q) = ValueAt(h, q2)
          PROVE  q = q2
      <4>1. q \in r.whole /\ q2 \in r.whole => q = q2
        BY <1>3, <3>6 DEF Standing
      <4> QED
        BY <1>6, <3>1, <3>2, <3>6, <4>1
    <3> QED
      BY <3>4, <3>5, <3>6 DEF Standing
  <2>6. \A q : ~(q \in e.whole /\ q \in e.marked)
    BY <1>3, <1>9, <2>3
  <2>7. \A q : q \in e.whole \/ q \in e.marked <=>
               q \in r.whole \/ q \in r.marked \/ (q = p /\ IsDict(h, v))
    BY <1>15, <2>3
  <2>8. \A q : q \in e.kept <=> q \in r.kept \/ (q = p /\ v # "secret" /\ ~IsDict(h, v))
    BY <1>15, <2>3
  <2>9. RightFor(h, e, r.seen \cup {v})
    <3>1. Root \in r.seen \cup {v} /\ \A q \in e.marked : ValueAt(h, q) \in r.seen
      BY <1>3, <2>3
    <3> QED
      BY <1>11, <2>3, <2>5, <2>6, <2>7, <2>8, <3>1
  <2>10. v \in Entered(h)
    <3>1. r.seen \in SUBSET Entered(h)
      BY <1>3
    <3> QED
      BY <1>6, <1>9, <1>15, <3>1, EnteredClosed DEF I
  <2>11. v \notin e.seen /\ RightFor(h, e, e.seen \cup {v})
    BY <1>15, <2>3, <2>9
  <2>12. /\ Right(h, Enter(h, e, v))
         /\ \A n \in Nat : LooksAfter(h, Enter(h, e, v), n) = LooksAfter(h, e, n)
    BY <2>4, <2>10, <2>11, EnterKeepsRight
  <2>13. \A n \in Nat : LooksAfter(h, e, n + 1) = LooksAfter(h, r, n)
    BY <1>10, <2>3
  <2>14. Look(h, r) = Enter(h, e, v)
    BY <1>15, <2>2
  <2> QED
    BY <2>12, <2>13, <2>14
<1> QED
  BY <1>2, <1>12, <1>13, <1>14, <1>15

(* A dict that was entered stays entered. *)
LEMMA LookKeepsSeen ==
    ASSUME NEW h \in Heap, NEW r \in Holdings(h)
    PROVE  r.seen \subseteq Look(h, r).seen
<1>1. CASE r.todo = <<>>
  BY <1>1 DEF Look
<1>2. CASE r.todo # <<>>
  <2> DEFINE p == Head(r.todo)
             t == Tail(r.todo)
             v == ValueAt(h, p)
             next == Held(t, r.seen, r.kept, r.whole \cup {p}, r.marked, r.raised)
  <2>1. /\ p \in Spots(h) /\ t \in Seq(Spots(h))
        /\ \/ Look(h, r) = Held(t, r.seen, r.kept, r.whole, r.marked, r.raised)
           \/ Look(h, r) = Held(t, r.seen, r.kept \cup {p}, r.whole, r.marked, r.raised)
           \/ Look(h, r) = Held(t, r.seen, r.kept, r.whole, r.marked \cup {p}, r.raised)
           \/ IsDict(h, v) /\ Look(h, r) = Enter(h, next, v)
    BY <1>2, LookDoes
  <2> HIDE DEF p, t, v
  <2>2. CASE IsDict(h, v) /\ Look(h, r) = Enter(h, next, v)
    <3>1. r.whole \cup {p} \in SUBSET Spots(h) /\ v \in Objects
      BY <2>1, <2>2, HoldingsFields DEF IsDict, IsObject
    <3>2. next \in Holdings(h) /\ next.seen = r.seen
      BY <2>1, <3>1, HoldingsFields, HeldFields
    <3> HIDE DEF next
    <3> QED
      BY <2>2, <3>1, <3>2, EnterDoes
  <2>3. CASE ~(IsDict(h, v) /\ Look(h, r) = Enter(h, next, v))
    BY <2>1, <2>3 DEF Held
  <2> QED
    BY <2>2, <2>3
<1> QED
  BY <1>1, <1>2

(* At the end nothing is left to look at. *)
LEMMA SanitizeRight ==
    ASSUME NEW h \in Heap, Root \in Objects, h[Root].kind = "dict"
    PROVE  /\ Right(h, Sanitize(h)) /\ Root \in Sanitize(h).seen
           /\ Sanitize(h).todo = <<>>
<1>1. PICK f \in [Nat -> Holdings(h)] :
         /\ f[0] = Enter(h, Start, Root)
         /\ \A n \in Nat : f[n + 1] = Look(h, f[n])
         /\ Sanitize(h) = f[Looks(h)]
  BY SanitizeIterates
<1> DEFINE T == {n \in Nat : /\ Right(h, f[n]) /\ Root \in f[n].seen
                             /\ f[n].todo = <<>> \/ LooksAfter(h, f[n], n) <= Looks(h)}
<1>2. 0 \in T
  <2>1. Start \in Holdings(h)
    BY StartHolds
  <2>2. /\ Start.todo = <<>> /\ Start.seen = {} /\ Start.kept = {} /\ Start.whole = {}
        /\ Start.marked = {} /\ Start.raised = FALSE
    BY StartHolds
  <2>3. InSight(h, Start.seen) = {}
    <3>1. \A D \in SUBSET Objects : InSight(h, D) =
             {p \in Spots(h) : p[1] \in D /\ ItemAt(h, p).key # "password"}
      BY InSightIs
    <3> QED
      BY <2>2, <3>1
  <2>4. Seqs!ToSet(Start.todo) = {} /\ Distinct(Start.todo)
    BY <2>2 DEF Seqs!ToSet, Distinct
  <2>5. RightFor(h, Start, Start.seen \cup {Root})
    <3>1. Start.seen \cup {Root} = {Root}
      BY <2>2
    <3>2. Standing(h, Start.whole, {Root})
      BY <2>2 DEF Standing
    <3>3. RightFor(h, Start, {Root})
      BY <2>1, <2>2, <2>3, <2>4, <3>2 DEF RightFor, Done
    <3> QED
      BY <3>1, <3>3
  <2>6. Root \in Entered(h)
    BY EnteredClosed
  <2>7. Right(h, f[0]) /\ LooksAfter(h, f[0], 0) = LooksAfter(h, Start, 0)
    BY <1>1, <2>2, <2>5, <2>6, EnterKeepsRight
  <2>8. Root \in f[0].seen
    BY <1>1, <2>1, EnterDoes
  <2>9. LooksAfter(h, Start, 0) = Looks(h)
    <3> DEFINE D == Objects \ Start.seen
    <3>1. D = Objects
      BY <2>2
    <3>2. Len(Start.todo) = 0
      BY <2>2
    <3>3. LooksAfter(h, Start, 0) = 0 + 0 + TotalOf(Weights(h), D)
      BY <3>2 DEF LooksAfter
    <3> HIDE DEF D
    <3>4. TotalOf(Weights(h), D) = Looks(h)
      BY <3>1, Zenon DEF Looks
    <3> QED
      BY <3>3, <3>4, WeightsType
  <2> QED
    BY <2>7, <2>8, <2>9, WeightsType
<1>3. ASSUME NEW n \in T PROVE n + 1 \in T
  <2>1. /\ n \in Nat /\ Right(h, f[n]) /\ Root \in f[n].seen
        /\ f[n].todo = <<>> \/ LooksAfter(h, f[n], n) <= Looks(h)
    OBVIOUS
  <2>2. f[n] \in Holdings(h) /\ f[n + 1] = Look(h, f[n])
    BY <1>1, <2>1
  <2>3. Root \in f[n + 1].seen
    BY <2>1, <2>2, LookKeepsSeen
  <2>4. CASE f[n].todo = <<>>
    <3>1. f[n + 1] = f[n]
      BY <2>2, <2>4 DEF Look
    <3> QED
      BY <2>1, <2>4, <3>1
  <2>5. CASE f[n].todo # <<>>
    <3>1. Right(h, f[n + 1]) /\ LooksAfter(h, f[n + 1], n + 1) = LooksAfter(h, f[n], n)
      BY <2>1, <2>2, <2>5, LookKeepsRight
    <3> QED
      BY <2>1, <2>3, <2>5, <3>1
  <2> QED
    BY <2>4, <2>5
<1>4. T = Nat
  <2>1. T \subseteq Nat
    OBVIOUS
  <2> HIDE DEF T
  <2> QED
    BY <1>2, <1>3, <2>1, NumbersInductive
<1>5. Looks(h) \in Nat
  BY WeightsType
<1> DEFINE r == f[Looks(h)]
<1>6. Right(h, r) /\ Root \in r.seen /\ (r.todo = <<>> \/ LooksAfter(h, r, Looks(h)) <= Looks(h))
  BY <1>4, <1>5
<1>7. r.todo = <<>>
  <2>1. SUFFICES ASSUME r.todo # <<>> PROVE FALSE
    OBVIOUS
  <2> HIDE DEF r
  <2>2. r.todo \in Seq(Spots(h))
    BY <1>6, HoldingsFields DEF Right, RightFor
  <2>3. Len(r.todo) \in Nat /\ Len(r.todo) # 0
    BY <2>1, <2>2
  <2>4. TotalOf(Weights(h), Objects \ r.seen) \in Nat
    <3>1. IsFiniteSet(Objects \ r.seen) /\ \A x \in Objects \ r.seen : Weights(h)[x] \in Nat
      BY ObjectsAssumption, FS_Subset, WeightsType
    <3> QED
      BY <3>1, TotalType
  <2> QED
    BY <1>5, <1>6, <2>1, <2>3, <2>4 DEF LooksAfter
<1> QED
  BY <1>1, <1>6, <1>7

(* However the objects of a context are shared, nested or cyclic, and      *)
(* however many there are: of the places in sight of the dicts that can be *)
(* reached, each text is handed on and no secret, a dict stands in full at *)
(* one of its places and is marked at the others, and what is handed on    *)
(* unseen is what the sanitizer does not look into (utils.py:180-226).     *)
THEOREM SanitizesSoundly == SanitizerSound
<1>1. ASSUME NEW h \in Contexts
      PROVE  LET s == Sanitize(h)
                 sight == InSight(h, Entered(h))
             IN  /\ s.raised = \E o \in Entered(h) : RaisesOn(h, o)
                 /\ s.kept = {p \in sight : ValueAt(h, p) # "secret" /\ ~IsDict(h, ValueAt(h, p))}
                 /\ s.whole \cup s.marked = DictsInSight(h, Entered(h))
                 /\ s.whole \cap s.marked = {}
                 /\ \A p \in s.whole : ValueAt(h, p) # Root
                 /\ \A o \in Entered(h) \ {Root} :
                       \E p \in s.whole : {q \in s.whole : ValueAt(h, q) = o} = {p}
  <2> DEFINE s == Sanitize(h)
             I == InSight(h, s.seen)
  <2>1. h \in Heap /\ Root \in Objects /\ h[Root].kind = "dict"
    BY ContextsAssumption DEF Heap
  <2>2. Right(h, s) /\ Root \in s.seen /\ s.todo = <<>>
    BY <2>1, SanitizeRight
  <2> HIDE DEF s
  <2>3. /\ s.seen \in SUBSET Objects /\ s.raised \in BOOLEAN
    BY <2>2, HoldingsFields DEF Right, RightFor
  <2>4. Seqs!ToSet(s.todo) = {}
    BY <2>2 DEF Seqs!ToSet
  <2>5. \A p : Done(h, s, p) <=> p \in I
    BY <2>4 DEF Done
  <2>6. /\ \A d \in s.seen : d \in Entered(h) /\ h[d].kind = "dict"
        /\ \A p : p \in s.kept <=> p \in I /\ ValueAt(h, p) # "secret" /\ ~IsDict(h, ValueAt(h, p))
        /\ \A p : p \in s.whole \/ p \in s.marked <=> p \in I /\ IsDict(h, ValueAt(h, p))
        /\ \A p : ~(p \in s.whole /\ p \in s.marked)
        /\ \A p \in s.marked : ValueAt(h, p) \in s.seen
        /\ Standing(h, s.whole, s.seen)
        /\ s.raised = \E d \in s.seen : RaisesOn(h, d)
    BY <2>2, <2>5 DEF Right, RightFor
  <2> HIDE DEF I
  <2>7. \A p \in I : IsDict(h, ValueAt(h, p)) => ValueAt(h, p) \in s.seen
    BY <2>6 DEF Standing
  <2>8. Entered(h) = s.seen
    <3> DEFINE D == s.seen
    <3>1. /\ D \in SUBSET Objects /\ Root \in D
          /\ \A p \in InSight(h, D) : IsDict(h, ValueAt(h, p)) => ValueAt(h, p) \in D
      BY <2>2, <2>3, <2>7 DEF I
    <3> HIDE DEF D
    <3>2. Entered(h) \subseteq D
      BY <2>1, <3>1, EnteredClosed
    <3>3. Entered(h) \subseteq s.seen
      BY <3>2 DEF D
    <3> QED
      BY <2>6, <3>3
  <2>9. I = InSight(h, Entered(h))
    BY <2>8 DEF I
  <2>10. s.kept = {p \in I : ValueAt(h, p) # "secret" /\ ~IsDict(h, ValueAt(h, p))}
    BY <2>6
  <2>11. s.whole \cup s.marked = DictsInSight(h, Entered(h)) /\ s.whole \cap s.marked = {}
    BY <2>6, <2>9 DEF DictsInSight
  <2>12. \A p \in s.whole : ValueAt(h, p) # Root
    BY <2>6 DEF Standing
  <2>13. ASSUME NEW o \in Entered(h) \ {Root}
         PROVE  \E p \in s.whole : {q \in s.whole : ValueAt(h, q) = o} = {p}
    <3>1. PICK p \in s.whole : ValueAt(h, p) = o
      BY <2>6, <2>8 DEF Standing
    <3>2. \A q \in s.whole : ValueAt(h, q) = o <=> q = p
      BY <2>6, <3>1 DEF Standing
    <3>3. {q \in s.whole : ValueAt(h, q) = o} = {p}
      BY <3>2
    <3> QED
      BY <3>3
  <2>14. s.raised = \E o \in Entered(h) : RaisesOn(h, o)
    BY <2>6, <2>8
  <2> QED
    BY <2>9, <2>10, <2>11, <2>12, <2>13, <2>14 DEF s
<1>2. \A where \in {"within", "across", "beyond", "none"} : "whole" \notin FilteredMessage(where)
  <2>1. FilteredMessage("within") = {"nothing"}
    BY DEF FilteredMessage, Truncated, Detected
  <2>2. \A where \in {"across", "beyond", "none"} : Truncated(where) # "whole"
    BY DEF Truncated
  <2> QED
    BY <2>1, <2>2 DEF FilteredMessage
<1> QED
  BY <1>1, <1>2 DEF SanitizerSound

(* A runtime whose sanitize setting is on, wherever that comes from, lets  *)
(* no secret in sight of a context leave, and every text in sight, each    *)
(* dict once.                                                              *)
THEOREM SanitizesExactly == ProxySpec => []SanitizerExact
<1>1. SanitizerExact
  BY SanitizesSoundly DEF SanitizerExact
<1> QED
  BY <1>1, PTL
=============================================================================
