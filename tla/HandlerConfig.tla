---------------------------- MODULE HandlerConfig ----------------------------
(***************************************************************************)
(* How a handlerConfig comes to be: New's defaults and the With* options   *)
(* applied in order (src/cache.go), or loadHandlerConfig reading seven     *)
(* environment variables one after the other, returning at the first     *)
(* error (src/config.go).                                                  *)
(*                                                                         *)
(* Numbers are kept in hundredths (a float64 of 0.2 is 20), which is the  *)
(* precision of the inputs enumerated.  A duration is kept as a count of  *)
(* its field's unit (minutes for defaultTTL, hours for staleDataTTL,       *)
(* seconds for the others): the properties only tell its sign apart.      *)
(***************************************************************************)
EXTENDS Integers, Sequences

CONSTANTS
    EnvValues,      \* what os.Getenv returns that ParseFloat reads, in hundredths
    Missing,        \* os.Getenv returned ""
    Junk,           \* a value strconv.ParseFloat rejects
    DurationArgs,   \* time.Duration arguments of the With* options
    FloatArgs,      \* float64 arguments of the With* options, in hundredths
    MaxOptions,     \* bound on the number of options passed to New
    DotEnvFaults    \* may godotenv.Load fail with an error other than "not found"?

ASSUME ConfigAssumption ==
    /\ EnvValues \subseteq Int
    /\ Missing \notin Int /\ Junk \notin Int /\ Missing # Junk
    /\ DurationArgs \subseteq Int
    /\ FloatArgs \subseteq Int
    /\ MaxOptions \in Nat
    /\ DotEnvFaults \in BOOLEAN

VARIABLES
    via,     \* "New" or "env": the constructor in use
    phase,   \* "options", "dotenv", "load", "done" or "failed"
    idx,     \* the index in Order of the variable loadHandlerConfig reads next
    cfg,     \* the handlerConfig built so far
    env,     \* the process environment
    nopts    \* options applied so far

vars == <<via, phase, idx, cfg, env, nopts>>

\* The seven variables loadHandlerConfig reads, in its order, with the
\* field each one sets.
Order == <<"defaultTTL", "bgRefreshTimeout", "staleDataTTL", "refreshCooldown",
           "cooperativeTimeout", "refreshAheadThreshold", "probabilisticBeta">>
Durations == {"defaultTTL", "bgRefreshTimeout", "staleDataTTL",
              "refreshCooldown", "cooperativeTimeout"}

\* The fallback constants; only the cooldown may be zero.
Fallback ==
    [defaultTTL |-> 5, bgRefreshTimeout |-> 5, staleDataTTL |-> 24,
     refreshCooldown |-> 0, cooperativeTimeout |-> 10,
     refreshAheadThreshold |-> 20, probabilisticBeta |-> 100]
AllowZero(f) == f = "refreshCooldown"

\* New's defaults (5 minutes, 5 s, 24 h, 0, 10 s, 0.2, 1.0).
Defaults == Fallback

\* parseEnvFloat and parseEnvDuration: the value and whether err is set.
\* time.Duration(value) * unit truncates the value to whole units before
\* the unit is applied.
ParseEnv(f, s) ==
    CASE s = Missing -> [val |-> Fallback[f], err |-> FALSE]
      [] s = Junk    -> [val |-> Fallback[f], err |-> TRUE]
      [] s < 0 \/ (~AllowZero(f) /\ s = 0)
                     -> [val |-> Fallback[f], err |-> TRUE]
      [] OTHER       -> [val |-> IF f \in Durations THEN s \div 100 ELSE s,
                         err |-> FALSE]

-----------------------------------------------------------------------------

Init ==
    /\ nopts = 0
    /\ idx = 1
    /\ cfg = Defaults
    /\ \/ via = "New" /\ phase = "options"
          /\ env = [f \in DOMAIN Fallback |-> Missing]
       \/ via = "env" /\ phase = "dotenv"
          /\ env \in [DOMAIN Fallback -> EnvValues \cup {Missing, Junk}]

\* One option of New's loop; the two float options keep the old value
\* when the argument is out of range.
ApplyOption ==
    /\ phase = "options"
    /\ nopts < MaxOptions
    /\ nopts' = nopts + 1
    /\ \/ \E f \in Durations, d \in DurationArgs : cfg' = [cfg EXCEPT ![f] = d]
       \/ \E x \in FloatArgs :
             cfg' = IF x >= 0 /\ x <= 100
                    THEN [cfg EXCEPT !.refreshAheadThreshold = x] ELSE cfg
       \/ \E x \in FloatArgs :
             cfg' = IF x > 0 THEN [cfg EXCEPT !.probabilisticBeta = x] ELSE cfg
    /\ UNCHANGED <<via, phase, idx, env>>

NewReturns ==
    /\ phase = "options"
    /\ phase' = "done"
    /\ UNCHANGED <<via, idx, cfg, env, nopts>>

\* godotenv.Load: a missing .env file is not an error.
LoadDotEnv ==
    /\ phase = "dotenv"
    /\ \E ok \in IF DotEnvFaults THEN BOOLEAN ELSE {TRUE} :
          phase' = IF ok THEN "load" ELSE "failed"
    /\ UNCHANGED <<via, idx, cfg, env, nopts>>

\* Mutant: the error of the two float variables not checked.
LoadFieldIgnoresError ==
    /\ phase = "load"
    /\ LET f == Order[idx]
           r == ParseEnv(f, env[f])
       IN  /\ r.err /\ f \in Durations
              /\ phase' = "failed" /\ UNCHANGED <<idx, cfg>>
           \/ /\ ~r.err \/ f \notin Durations
              /\ cfg' = [cfg EXCEPT ![f] = r.val]
              /\ phase' = IF idx = Len(Order) THEN "done" ELSE "load"
              /\ idx' = IF idx = Len(Order) THEN idx ELSE idx + 1
    /\ UNCHANGED <<via, env, nopts>>

\* One parseEnv call of loadHandlerConfig and its "if err != nil" return.
LoadField ==
    /\ phase = "load"
    /\ LET f == Order[idx]
           r == ParseEnv(f, env[f])
       IN  \/ r.err /\ phase' = "failed" /\ UNCHANGED <<idx, cfg>>
           \/ /\ ~r.err
              /\ cfg' = [cfg EXCEPT ![f] = r.val]
              /\ phase' = IF idx = Len(Order) THEN "done" ELSE "load"
              /\ idx' = IF idx = Len(Order) THEN idx ELSE idx + 1
    /\ UNCHANGED <<via, env, nopts>>

\* A constructor has returned.
Returned == phase \in {"done", "failed"} /\ UNCHANGED vars

Next == ApplyOption \/ NewReturns \/ LoadDotEnv \/ LoadField \/ Returned

Spec == Init /\ [][Next]_vars

-----------------------------------------------------------------------------
(* Properties.                                                             *)

TypeOK ==
    /\ via \in {"New", "env"}
    /\ phase \in {"options", "dotenv", "load", "done", "failed"}
    /\ idx \in 1..Len(Order)
    /\ cfg \in [DOMAIN Fallback -> Int]
    /\ env \in [DOMAIN Fallback -> EnvValues \cup {Missing, Junk}]
    /\ nopts \in 0..MaxOptions

\* The variable is unset or holds a number its parser accepts.
Acceptable(f) == ~ParseEnv(f, env[f]).err

(* loadHandlerConfig is all or nothing: it returns a config only when     *)
(* every one of the seven variables is unset or acceptable, each field    *)
(* then holds its parsed value, and any unacceptable variable makes it    *)
(* fail (the "if err != nil { return nil, err }" after every parse).      *)
EnvLoadAllOrNothing ==
    via = "env" =>
        /\ phase = "done" =>
              \A f \in DOMAIN Fallback :
                  Acceptable(f) /\ cfg[f] = ParseEnv(f, env[f]).val
        /\ (\E f \in DOMAIN Fallback : ~Acceptable(f)) => phase # "done"

\* The field was read from an acceptable variable and holds its value.
Loaded(f) == Acceptable(f) /\ cfg[f] = ParseEnv(f, env[f]).val

(* The inductive form of EnvLoadAllOrNothing proved in                    *)
(* HandlerConfigProofs: loadHandlerConfig has read the variables before   *)
(* idx, each one acceptable and stored, and has read all of them once it  *)
(* returns a config.                                                       *)
EnvProgress ==
    via = "env" =>
        /\ phase # "options"
        /\ phase = "dotenv" => idx = 1
        /\ phase = "load" => \A i \in 1..(idx - 1) : Loaded(Order[i])
        /\ phase = "done" => \A i \in 1..Len(Order) : Loaded(Order[i])

(* spec.md, configuration: defaultRefreshAheadThreshold is "validated to  *)
(* [0,1]"; WithRefreshAheadThreshold does so, and so should the           *)
(* environment: a config that loads holds a threshold in [0,1].           *)
ThresholdInRange ==
    phase = "done" => cfg.refreshAheadThreshold \in 0..100

(* config.go, parseEnvDuration: it "returns the fallback value if the     *)
(* variable is missing, invalid, or non-positive (unless allowZero)": a   *)
(* config loaded from the environment has positive durations, but for the *)
(* cooldown.                                                               *)
EnvDurationsPositive ==
    via = "env" /\ phase = "done" =>
        \A f \in Durations \ {"refreshCooldown"} : cfg[f] > 0

=============================================================================
