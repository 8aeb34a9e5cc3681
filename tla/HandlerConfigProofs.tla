------------------------- MODULE HandlerConfigProofs -------------------------
(* Proof that loadHandlerConfig is all or nothing, for every value of the  *)
(* constants, with the type invariant it rests on.                         *)
EXTENDS HandlerConfig, TLAPS

\* The seven fields, as loadHandlerConfig reads them.
LEMMA OrderFields ==
    /\ Len(Order) = 7
    /\ DOMAIN Fallback = {Order[i] : i \in 1..Len(Order)}
    /\ \A i, j \in 1..Len(Order) : i # j => Order[i] # Order[j]
  BY DEF Order, Fallback

\* What the parsers return is a number and an error flag.
LEMMA ParseEnvType ==
    ASSUME NEW f \in DOMAIN Fallback, NEW s \in EnvValues \cup {Missing, Junk}
    PROVE  ParseEnv(f, s).val \in Int /\ ParseEnv(f, s).err \in BOOLEAN
  BY ConfigAssumption DEF ParseEnv, Fallback, Durations, AllowZero

-----------------------------------------------------------------------------
(* Type correctness.                                                       *)

LEMMA TypeInit == Init => TypeOK
  BY ConfigAssumption DEF Init, TypeOK, Defaults, Fallback, Order

LEMMA ApplyOptionType ==
    ASSUME TypeOK, ApplyOption PROVE TypeOK'
  <1>1. nopts' \in 0..MaxOptions /\ UNCHANGED <<via, phase, idx, env>>
    BY ConfigAssumption DEF ApplyOption, TypeOK
  <1>2. cfg' \in [DOMAIN Fallback -> Int]
    <2>1. Durations \subseteq DOMAIN Fallback /\ "refreshAheadThreshold" \in DOMAIN Fallback
          /\ "probabilisticBeta" \in DOMAIN Fallback
      BY DEF Durations, Fallback
    <2>2. QED
      BY <2>1, ConfigAssumption DEF ApplyOption, TypeOK
  <1>3. QED
    BY <1>1, <1>2 DEF TypeOK

LEMMA LoadFieldType ==
    ASSUME TypeOK, LoadField PROVE TypeOK'
  <1> DEFINE f == Order[idx]
             r == ParseEnv(f, env[f])
  <1>1. f \in DOMAIN Fallback /\ idx \in 1..7
    BY OrderFields DEF TypeOK
  <1>2. r.val \in Int
    BY <1>1, ParseEnvType DEF TypeOK
  <1>3. QED
    BY <1>1, <1>2 DEF LoadField, TypeOK

LEMMA TypeStep == TypeOK /\ [Next]_vars => TypeOK'
  <1> SUFFICES ASSUME TypeOK, [Next]_vars PROVE TypeOK'
    OBVIOUS
  <1>1. CASE ApplyOption
    BY <1>1, ApplyOptionType
  <1>2. CASE LoadField
    BY <1>2, LoadFieldType
  <1>3. CASE NewReturns
    BY <1>3 DEF NewReturns, TypeOK
  <1>4. CASE LoadDotEnv
    <2>1. phase' \in {"load", "failed"} /\ UNCHANGED <<via, idx, cfg, env, nopts>>
      BY <1>4, ConfigAssumption DEF LoadDotEnv
    <2>2. QED
      BY <2>1 DEF TypeOK
  <1>5. CASE Returned \/ UNCHANGED vars
    BY <1>5 DEF Returned, vars, TypeOK
  <1>6. QED
    BY <1>1, <1>2, <1>3, <1>4, <1>5 DEF Next

-----------------------------------------------------------------------------
(* loadHandlerConfig is all or nothing.                                    *)

EnvInv == TypeOK /\ EnvProgress

LEMMA EnvInit == Init => EnvInv
  BY TypeInit DEF Init, EnvInv, EnvProgress

\* One parse: the field it stores is loaded, and the earlier ones stay so.
LEMMA LoadFieldProgress ==
    ASSUME EnvInv, LoadField, via = "env" PROVE EnvProgress'
  <1>0. PICK f \in DOMAIN Fallback : f = Order[idx]
    BY OrderFields DEF EnvInv, TypeOK
  <1> DEFINE r == ParseEnv(f, env[f])
  <1>1. idx \in 1..Len(Order) /\ cfg \in [DOMAIN Fallback -> Int]
    BY OrderFields DEF EnvInv, TypeOK
  <1>2. \A i \in 1..(idx - 1) : Loaded(Order[i])
    BY DEF LoadField, EnvInv, EnvProgress
  <1>3. UNCHANGED <<via, env>>
    BY DEF LoadField
  <1>4. CASE r.err /\ phase' = "failed"
    BY <1>3, <1>4 DEF EnvProgress
  <1>5. CASE /\ ~r.err
             /\ cfg' = [cfg EXCEPT ![f] = r.val]
             /\ phase' = IF idx = Len(Order) THEN "done" ELSE "load"
             /\ idx' = IF idx = Len(Order) THEN idx ELSE idx + 1
    <2>1. Loaded(f)'
      BY <1>1, <1>3, <1>5 DEF Loaded, Acceptable
    <2>2. \A i \in 1..(idx - 1) : Loaded(Order[i])'
      <3>1. \A i \in 1..(idx - 1) : Order[i] # f /\ Order[i] \in DOMAIN Fallback
        BY <1>0, <1>1, OrderFields
      <3>2. QED
        BY <1>1, <1>2, <1>3, <1>5, <3>1 DEF Loaded, Acceptable
    <2>3. \A i \in 1..idx : Loaded(Order[i])'
      <3> SUFFICES ASSUME NEW i \in 1..idx PROVE Loaded(Order[i])'
        OBVIOUS
      <3>1. CASE i = idx
        BY <1>0, <2>1, <3>1
      <3>2. CASE i # idx
        <4>1. i \in 1..(idx - 1)
          BY <1>1, <3>2
        <4>2. QED
          BY <2>2, <4>1
      <3>3. QED
        BY <3>1, <3>2
    <2>4. QED
      BY <1>1, <1>3, <1>5, <2>3, OrderFields DEF EnvProgress
  <1>6. QED
    BY <1>0, <1>4, <1>5 DEF LoadField

LEMMA EnvStep == EnvInv /\ [Next]_vars => EnvInv'
  <1> SUFFICES ASSUME EnvInv, [Next]_vars PROVE EnvInv'
    OBVIOUS
  <1>1. TypeOK'
    BY TypeStep DEF EnvInv
  <1>2. EnvProgress'
    <2>1. CASE ApplyOption \/ NewReturns
      BY <2>1 DEF ApplyOption, NewReturns, EnvInv, EnvProgress
    <2>2. CASE LoadDotEnv
      <3>1. phase' \in {"load", "failed"} /\ UNCHANGED <<via, idx, cfg, env>>
        BY <2>2, ConfigAssumption DEF LoadDotEnv
      <3>2. QED
        BY <2>2, <3>1 DEF LoadDotEnv, EnvInv, EnvProgress
    <2>3. CASE LoadField
      <3>1. CASE via = "env"
        BY <2>3, <3>1, LoadFieldProgress
      <3>2. CASE via # "env"
        BY <2>3, <3>2 DEF LoadField, EnvProgress
      <3>3. QED
        BY <3>1, <3>2
    <2>4. CASE Returned \/ UNCHANGED vars
      BY <2>4 DEF Returned, vars, EnvInv, EnvProgress, Loaded, Acceptable
    <2>5. QED
      BY <2>1, <2>2, <2>3, <2>4 DEF Next
  <1>3. QED
    BY <1>1, <1>2 DEF EnvInv

(* loadHandlerConfig returns a config only when every one of its seven    *)
(* variables is unset or acceptable, each field then holding its parsed   *)
(* value, and fails whenever one is not: no parse error is dropped on the *)
(* way, for every environment.                                             *)
THEOREM EnvLoadCorrect == Spec => []EnvLoadAllOrNothing
  <1>1. EnvInv => EnvLoadAllOrNothing
    <2> SUFFICES ASSUME EnvInv, via = "env", phase = "done"
                 PROVE  \A f \in DOMAIN Fallback : Loaded(f)
      BY DEF EnvLoadAllOrNothing, Loaded
    <2>1. \A i \in 1..Len(Order) : Loaded(Order[i])
      BY DEF EnvInv, EnvProgress
    <2>2. QED
      BY <2>1, OrderFields
  <1>2. QED
    BY <1>1, EnvInit, EnvStep, PTL DEF Spec

=============================================================================
