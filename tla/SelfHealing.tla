---------------------------- MODULE SelfHealing ----------------------------
(***************************************************************************)
(* SelfHealingExecutor.run and GlueCodePatcher of                          *)
(* src/invisible_config/self_healing.py: compile the glue code of one      *)
(* boundary between two languages, patch it, and try again.  Of the glue   *)
(* only the shims are kept that patches have put before it.                *)
(***************************************************************************)
EXTENDS Naturals

CONSTANTS
  MaxAttempts \* the values of max_attempts a caller may give

ASSUME HealingAssumption == MaxAttempts \subseteq Nat

\* The marker of a cast from _CAST_HINTS, and that of the generic shim.
Markers == {"AERO_COERCE", "AERO_AUTO_COERCE"}

\* What a compiler says: all is well, an error that is no type mismatch, a
\* mismatch of a pair of types the hints know, any other mismatch.
Diagnostics == {"ok", "logic error", "known pair", "other mismatch"}

is_type_mismatch(d) == d \in {"known pair", "other mismatch"}

VARIABLES
  max_attempts, \* of this executor
  glue,         \* current: the markers in it
  attempt,      \* attempts begun
  patches,      \* patches applied so far
  compiled,     \* history, for the properties only: the glue compiled last
  result        \* "running", "succeeded" or "failed"

heal_vars == <<max_attempts, glue, attempt, patches, compiled, result>>

Uncompiled == {"nothing"}

HealInit ==
  /\ max_attempts \in {IF n = 0 THEN 1 ELSE n : n \in MaxAttempts}
  /\ glue = {} /\ attempt = 1 /\ patches = 0
  /\ compiled = Uncompiled
  /\ result = "running"

\* The shim a patch inserts; a known pair is never given the generic one.
Marker(d) == IF d = "known pair" THEN "AERO_COERCE" ELSE "AERO_AUTO_COERCE"

\* A regression: a marker that is there already is not looked for.
AnyMismatch(d) == is_type_mismatch(d)

\* patch() returns None unless this holds.
Patchable(d) == is_type_mismatch(d) /\ Marker(d) \notin glue

Succeed(d) ==
  /\ d = "ok"
  /\ result' = "succeeded"
  /\ UNCHANGED <<glue, attempt, patches>>

GiveUp(d) ==
  /\ d # "ok" /\ ~Patchable(d)
  /\ result' = "failed"
  /\ UNCHANGED <<glue, attempt, patches>>

\* A regression: range(1, max_attempts).
OneAttemptLess == attempt + 1 < max_attempts

AttemptsLeft == attempt < max_attempts

\* The patch of the last attempt is made, too.
PatchAndRetry(d) ==
  /\ d # "ok" /\ Patchable(d)
  /\ glue' = glue \cup {Marker(d)}
  /\ patches' = patches + 1
  /\ IF AttemptsLeft
     THEN attempt' = attempt + 1 /\ UNCHANGED result
     ELSE result' = "failed" /\ UNCHANGED attempt

\* One attempt. No glue is compiled twice: what is tried again is patched.
Heal ==
  /\ result = "running"
  /\ compiled' = glue
  /\ \E d \in Diagnostics : Succeed(d) \/ GiveUp(d) \/ PatchAndRetry(d)
  /\ UNCHANGED max_attempts

HealSpec == HealInit /\ [][Heal]_heal_vars /\ WF_heal_vars(Heal)
-----------------------------------------------------------------------------
HealTypeOK ==
  /\ max_attempts \in Nat \ {0}
  /\ glue \subseteq Markers
  /\ attempt \in 1..max_attempts
  /\ patches \in Nat
  /\ compiled \in (SUBSET Markers) \cup {Uncompiled}
  /\ result \in {"running", "succeeded", "failed"}

\* With three attempts or more - the default, and what a build context asks
\* for - the glue that comes back is the glue compiled last, whether it
\* succeeded or not; with one or two it may be a patch nobody has compiled.
ReturnedWasCompiled ==
  result # "running" /\ max_attempts >= 3 => compiled = glue

\* Patching ends by itself: each shim is inserted once, so that no number of
\* attempts makes the executor compile more than three times, and a success
\* that counts as healed has a shim for every patch.
EachShimOnce ==
  /\ attempt <= 3
  /\ patches = (IF "AERO_COERCE" \in glue THEN 1 ELSE 0)
                 + (IF "AERO_AUTO_COERCE" \in glue THEN 1 ELSE 0)
=============================================================================
