-------------------------- MODULE MCHandlerConfig --------------------------
(***************************************************************************)
(* Model-checking instance of HandlerConfig: the environment strings are  *)
(* model values or numbers in hundredths.                                  *)
(***************************************************************************)
EXTENDS HandlerConfig, TLC

\* A negative value, zero, a fraction below one unit, and a value above one
\* that is not a whole number of units.
MCEnvValues == {-50, 0, 50, 150}

MCDurationArgs == {-1, 0, 3}

MCFloatArgs == {-10, 0, 50, 150}

=============================================================================
