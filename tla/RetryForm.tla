------------------------------ MODULE RetryForm ------------------------------
(***************************************************************************)
(* The retry policy dialog as a pure algorithm                             *)
(* (web/src/components/RetryPolicyDialog.tsx): how a policy becomes a form *)
(* and a form a policy, and what the server accepts                        *)
(* (internal/state/retry_policy.go).                                       *)
(*                                                                         *)
(* Times are counted in ticks, Second of them to a second (1000 in the     *)
(* code).  What an operator types into a field is a fraction, what a list  *)
(* offers is a number or a pair of numbers, and Custom stands for the      *)
(* entry that opens the field.  The state machine at the end is one dialog *)
(* from its opening on.                                                    *)
(***************************************************************************)
EXTENDS Integers, Sequences

CONSTANTS Second,       \* ticks to a second
          NoPolicy,     \* a request without a policy of its own
          OpenPolicies, \* policies a request may have when the dialog opens
          Typed,        \* fractions an operator types
          TypedAttempts,
          MaxEdits      \* bound: changes of the form

ASSUME SecondAssumption == Second \in Nat \ {0} /\ MaxEdits \in Nat

\* RetryPolicySpec: a schedule has the times of its mode.
RetrySchedules ==
    [mode : {"inherit", "immediate"}] \cup [mode : {"fixed"}, interval : Int]
        \cup [mode : {"random"}, minimum : Int, maximum : Int]
        \cup [mode : {"exponential"}, base : Int, maximum : Int]
RetryPolicies == [duration : Int, schedule : RetrySchedules, attempts : Int, honor : BOOLEAN]

\* A number as an operator types it.
Fraction == [num : Int, den : Nat \ {0}]

ASSUME FormAssumption ==
    OpenPolicies \subseteq RetryPolicies /\ Typed \subseteq Fraction /\ TypedAttempts \subseteq Int

VARIABLES opened, \* the policy of the first target when the dialog opened
          form,   \* the state of the form
          edits   \* how often it was changed

formVars == <<opened, form, edits>>

Minute == 60 * Second
Hour == 60 * Minute
Day == 24 * Hour

Custom == -1
CustomRange == <<Custom, Custom>>

Modes == {"inherit", "immediate", "fixed", "random", "exponential"}
durationChoices == {5 * Minute, 15 * Minute, 30 * Minute, Hour, 6 * Hour, Day}
fixedChoices == {5 * Second, 15 * Second, 30 * Second, Minute, 5 * Minute, 15 * Minute}
randomChoices == {<<5 * Second, 15 * Second>>, <<15 * Second, Minute>>,
                  <<Minute, 2 * Minute>>, <<Minute, 5 * Minute>>}
exponentialChoices == {<<5 * Second, Minute>>, <<15 * Second, 5 * Minute>>, <<Minute, 15 * Minute>>}
attemptChoices == {3, 5, 10, 20}

\* Math.round(parsed * unit), 0 for what is not a positive number.
durationValue(value, unit) ==
    IF value.num <= 0 THEN 0 ELSE (2 * value.num * unit + value.den) \div (2 * value.den)

Quotient(ticks, unit) ==
    IF ticks % unit = 0 THEN [num |-> ticks \div unit, den |-> 1] ELSE [num |-> ticks, den |-> unit]

\* The largest unit that divides all of the times, or the fallback.
UnitOf(times, fallback) ==
    LET fits == {u \in {Hour, Minute, Second} : \A t \in times : t % u = 0}
    IN  IF fits = {} THEN fallback ELSE CHOOSE u \in fits : \A v \in fits : v <= u

fromMilliseconds(ticks, fallback) ==
    LET unit == UnitOf({ticks}, fallback) IN [value |-> Quotient(ticks, unit), unit |-> unit]

rangeFromMilliseconds(minimum, maximum) ==
    LET unit == UnitOf({minimum, maximum}, Second)
    IN  [minimum |-> Quotient(minimum, unit), maximum |-> Quotient(maximum, unit), unit |-> unit]

choiceFor(value, choices) == IF value \in choices THEN value ELSE Custom
RangeFor(range, choices) == IF range \in choices THEN range ELSE CustomRange

Schedule(policy) == IF policy = NoPolicy THEN [mode |-> "random"] ELSE policy.schedule
FieldOr(record, field, default) == IF field \in DOMAIN record THEN record[field] ELSE default

AttemptsShown(attempts) ==
    IF attempts \in attemptChoices THEN attempts ELSE IF attempts > 0 THEN Custom ELSE 0

\* The form a dialog opens with: the policy of its first request, or defaults.
policyDefaults(policy) ==
    LET schedule == Schedule(policy)
        duration == IF policy = NoPolicy THEN Hour ELSE policy.duration
        attempts == IF policy = NoPolicy THEN 0 ELSE policy.attempts
        fixed    == FieldOr(schedule, "interval", 15 * Second)
        random   == <<FieldOr(schedule, "minimum", Minute), FieldOr(schedule, "maximum", 2 * Minute)>>
        exponential == <<FieldOr(schedule, "base", Minute), FieldOr(schedule, "maximum", 15 * Minute)>>
    IN  [preset            |-> IF policy = NoPolicy THEN "standard" ELSE "custom",
         durationChoice    |-> choiceFor(duration, durationChoices),
         customDuration    |-> fromMilliseconds(duration, Minute),
         mode              |-> schedule.mode,
         fixedChoice       |-> choiceFor(fixed, fixedChoices),
         customFixed       |-> fromMilliseconds(fixed, Second),
         randomChoice      |-> RangeFor(random, randomChoices),
         customRandom      |-> rangeFromMilliseconds(random[1], random[2]),
         exponentialChoice |-> RangeFor(exponential, exponentialChoices),
         customExponential |-> rangeFromMilliseconds(exponential[1], exponential[2]),
         maxAttemptsChoice |-> AttemptsShown(attempts),
         customMaxAttempts |-> IF attempts = 0 THEN 3 ELSE attempts,
         honorRetryAfter   |-> IF policy = NoPolicy THEN TRUE ELSE policy.honor,
         overwrite         |-> TRUE,
         retryWaitingNow   |-> FALSE]

\* What the form says, before any check.
FormDuration(f) ==
    IF f.durationChoice = Custom THEN durationValue(f.customDuration.value, f.customDuration.unit)
    ELSE f.durationChoice
FormInterval(f) ==
    IF f.fixedChoice = Custom THEN durationValue(f.customFixed.value, f.customFixed.unit)
    ELSE f.fixedChoice
FormRange(choice, custom) ==
    IF choice = CustomRange
    THEN <<durationValue(custom.minimum, custom.unit), durationValue(custom.maximum, custom.unit)>>
    ELSE choice
FormAttempts(f) == IF f.maxAttemptsChoice = Custom THEN f.customMaxAttempts ELSE f.maxAttemptsChoice

FormSchedule(f) ==
    LET random      == FormRange(f.randomChoice, f.customRandom)
        exponential == FormRange(f.exponentialChoice, f.customExponential)
    IN  CASE f.mode = "fixed"       -> [mode |-> "fixed", interval |-> FormInterval(f)]
          [] f.mode = "random"      -> [mode |-> "random", minimum |-> random[1], maximum |-> random[2]]
          [] f.mode = "exponential" -> [mode |-> "exponential", base |-> exponential[1],
                                           maximum |-> exponential[2]]
          [] OTHER                     -> [mode |-> f.mode]

\* The checks of the console.
IntervalError(schedule, duration) ==
    CASE schedule.mode = "fixed" ->
            schedule.interval < 5 * Second \/ schedule.interval >= duration \/ schedule.interval > Day
      [] schedule.mode = "random" ->
            \/ schedule.minimum < 5 * Second \/ schedule.maximum < schedule.minimum
            \/ schedule.maximum >= duration \/ schedule.maximum > Day
      [] schedule.mode = "exponential" ->
            \/ schedule.base < 5 * Second \/ schedule.maximum < schedule.base
            \/ schedule.maximum >= duration \/ schedule.maximum > Day
      [] OTHER -> FALSE
AttemptsErrorBounded(mode, attempts) == attempts < 0 \/ attempts > 1000
AttemptsError(mode, attempts) ==
    \/ attempts < 0 \/ attempts > 1000
    \/ mode = "immediate" /\ (attempts < 1 \/ attempts > 20)

FormPolicy(f) == [duration |-> FormDuration(f), schedule |-> FormSchedule(f),
                     attempts |-> FormAttempts(f), honor |-> f.honorRetryAfter]

\* buildPolicy: a policy, or an error for the operator.
buildPolicy(f) ==
    LET policy == FormPolicy(f)
    IN  IF \/ policy.duration < 5 * Second \/ policy.duration > Day
           \/ IntervalError(policy.schedule, policy.duration)
           \/ AttemptsError(f.mode, policy.attempts)
        THEN NoPolicy
        ELSE policy

applyPreset(f, preset) ==
    CASE preset = "standard" ->
            [f EXCEPT !.preset = preset, !.durationChoice = Hour, !.mode = "random",
                         !.randomChoice = <<Minute, 2 * Minute>>, !.maxAttemptsChoice = 0,
                         !.honorRetryAfter = TRUE]
      [] preset = "fast" ->
            [f EXCEPT !.preset = preset, !.durationChoice = 15 * Minute, !.mode = "fixed",
                         !.fixedChoice = 15 * Second, !.maxAttemptsChoice = 20,
                         !.honorRetryAfter = TRUE]
      [] preset = "conservative" ->
            [f EXCEPT !.preset = preset, !.durationChoice = 6 * Hour, !.mode = "exponential",
                         !.exponentialChoice = <<Minute, 15 * Minute>>, !.maxAttemptsChoice = 0,
                         !.honorRetryAfter = TRUE]

\* The list of modes: immediate retries need a limit.
chooseMode(f, mode) ==
    [f EXCEPT !.mode = mode, !.preset = "custom",
                 !.maxAttemptsChoice = IF mode = "immediate" /\ @ = 0 THEN 3 ELSE @]

\* quickPolicies of the requests view.
quickPolicies == [
    standard |-> [duration |-> Hour, attempts |-> 0, honor |-> TRUE,
                  schedule |-> [mode |-> "random", minimum |-> Minute, maximum |-> 2 * Minute]],
    fast |-> [duration |-> 15 * Minute, attempts |-> 20, honor |-> TRUE,
              schedule |-> [mode |-> "fixed", interval |-> 15 * Second]],
    conservative |-> [duration |-> 6 * Hour, attempts |-> 0, honor |-> TRUE,
                      schedule |-> [mode |-> "exponential", base |-> Minute, maximum |-> 15 * Minute]]]

\* RetryPolicySpec.Validate of the server.
validPolicyInterval(interval, duration) ==
    interval >= 5 * Second /\ interval <= Day /\ interval < duration
ValidRange(first, maximum, duration) ==
    /\ validPolicyInterval(first, duration)
    /\ maximum >= first /\ maximum < duration /\ maximum <= Day
Validate(policy) ==
    /\ policy.duration \in 5 * Second .. Day
    /\ policy.attempts \in 0 .. 1000
    /\ LET schedule == policy.schedule
       IN  CASE schedule.mode = "inherit"     -> TRUE
             [] schedule.mode = "immediate"   -> policy.attempts \in 1 .. 20
             [] schedule.mode = "fixed"       -> validPolicyInterval(schedule.interval, policy.duration)
             [] schedule.mode = "random"      -> ValidRange(schedule.minimum, schedule.maximum, policy.duration)
             [] schedule.mode = "exponential" -> ValidRange(schedule.base, schedule.maximum, policy.duration)

------------------------------------------------------------------------------
\* One dialog: opened for a request, then changed field by field.

Validated == {p \in OpenPolicies : Validate(p)}
FormInit ==
    /\ opened \in Validated \cup {NoPolicy}
    /\ form = policyDefaults(opened)
    /\ edits = 0

Edited(change) == edits < MaxEdits /\ edits' = edits + 1 /\ form' = change /\ UNCHANGED opened
Units == {Second, Minute, Hour}
TypedTimes  == [value : Typed, unit : Units]
TypedRanges == [minimum : Typed, maximum : Typed, unit : Units]

\* The lists of the dialog, and the fields that a list's last entry opens.
pickPreset == \E preset \in {"standard", "fast", "conservative"} : Edited(applyPreset(form, preset))
pickMode == \E mode \in Modes : Edited(chooseMode(form, mode))
pickDuration ==
    \/ \E choice \in durationChoices \cup {Custom} :
          Edited([form EXCEPT !.durationChoice = choice, !.preset = "custom"])
    \/ /\ form.durationChoice = Custom
       /\ \E time \in TypedTimes : Edited([form EXCEPT !.customDuration = time, !.preset = "custom"])
pickFixed ==
    /\ form.mode = "fixed"
    /\ \/ \E choice \in fixedChoices \cup {Custom} :
             Edited([form EXCEPT !.fixedChoice = choice, !.preset = "custom"])
       \/ /\ form.fixedChoice = Custom
          /\ \E time \in TypedTimes : Edited([form EXCEPT !.customFixed = time, !.preset = "custom"])
pickRandom ==
    /\ form.mode = "random"
    /\ \/ \E choice \in randomChoices \cup {CustomRange} :
             Edited([form EXCEPT !.randomChoice = choice, !.preset = "custom"])
       \/ /\ form.randomChoice = CustomRange
          /\ \E range \in TypedRanges : Edited([form EXCEPT !.customRandom = range, !.preset = "custom"])
pickExponential ==
    /\ form.mode = "exponential"
    /\ \/ \E choice \in exponentialChoices \cup {CustomRange} :
             Edited([form EXCEPT !.exponentialChoice = choice, !.preset = "custom"])
       \/ /\ form.exponentialChoice = CustomRange
          /\ \E range \in TypedRanges : Edited([form EXCEPT !.customExponential = range, !.preset = "custom"])
pickAttempts ==
    \/ \E choice \in attemptChoices \cup {0, Custom} :
          Edited([form EXCEPT !.maxAttemptsChoice = choice, !.preset = "custom"])
    \/ /\ form.maxAttemptsChoice = Custom
       /\ \E n \in TypedAttempts : Edited([form EXCEPT !.customMaxAttempts = n, !.preset = "custom"])
pickHonor == Edited([form EXCEPT !.honorRetryAfter = ~@, !.preset = "custom"])

FormNext ==
    \/ pickPreset
    \/ pickMode
    \/ pickDuration
    \/ pickFixed
    \/ pickRandom
    \/ pickExponential
    \/ pickAttempts
    \/ pickHonor
FormSpec == FormInit /\ [][FormNext]_formVars

\* Whatever is picked and typed, a policy the dialog lets through is one the
\* server accepts: buildPolicy of RetryPolicyDialog.tsx and Validate of
\* retry_policy.go draw the same limits, for every mode.
FormAccepted == buildPolicy(form) # NoPolicy => Validate(buildPolicy(form))

\* A dialog opened on a request with a policy and sent unchanged sends that
\* policy: no field is lost on the way through lists, units and text
\* (policyDefaults and buildPolicy of RetryPolicyDialog.tsx).
UntouchedKept == (edits = 0 /\ opened # NoPolicy) => buildPolicy(form) = opened

\* A quick policy of the requests view is what the dialog's preset of that name
\* builds, whatever was in the form before, and the server takes it
\* (quickPolicies of RequestsView.tsx, applyPreset of RetryPolicyDialog.tsx).
QuickAgree ==
    \A q \in DOMAIN quickPolicies :
        /\ buildPolicy(applyPreset(form, q)) = quickPolicies[q]
        /\ Validate(quickPolicies[q])

\* The dialog is faithful in both directions: from the server's policy to the
\* form and from the form to a policy the server takes; and so is the menu that
\* applies a policy without it.
FormFaithful == FormAccepted /\ UntouchedKept /\ QuickAgree
=============================================================================
