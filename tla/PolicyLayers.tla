---------------------------- MODULE PolicyLayers ----------------------------
(***************************************************************************)
(* The policy of one container (discover/policy.go, rules.go, labels.go,   *)
(* evaluate in select.go): the built-in defaults, then the defaults of the *)
(* rule file, then its matching rules in order, then the labels of the     *)
(* container.  A layer is a function on the settings that it mentions.     *)
(* The three settings here stand for the rest, which go the same way.      *)
(***************************************************************************)
EXTENDS Iteration, Sequences, SequencesExt

\* enable, monitor: whether the container is to be updated, or only looked at;
\* retain: the container's retention, "none" being one of 0 snapshots and 0
\* days.  "bad" is a label nobody can read.
Settings == {"enable", "monitor", "retain"}
Words == {"yes", "no", "bad", "some", "none"}
Values(setting) == IF setting = "retain" THEN {"some", "none"} ELSE {"yes", "no"}

Defaults == [enable |-> "no", monitor |-> "no", retain |-> "some"]
Layer == UNION {[said -> Words] : said \in SUBSET Settings}
Decision == [policy : [Settings -> Words], enabledBy : Nat]
DefaultDecision == [policy |-> Defaults, enabledBy |-> 0]

\* Rules set no value that cannot be read: the file is validated as a whole.
ApplySettings(decision, settings, n) ==
  [policy |-> [s \in Settings |-> IF s \in DOMAIN settings THEN settings[s] ELSE decision.policy[s]],
   enabledBy |-> IF "enable" \notin DOMAIN settings THEN decision.enabledBy
                 ELSE IF settings.enable = "yes" THEN n ELSE 0]

\* Mutant: a label that nobody can read counts as "no".
ApplyLabelsUnread(decision, labels, n) ==
  ApplySettings(decision, [s \in DOMAIN labels |-> IF labels[s] \in Values(s) THEN labels[s] ELSE "no"], n)

\* What a label gets wrong stays as it was: that is a problem to report.
ApplyLabels(decision, labels, n) ==
  ApplySettings(decision, Restrict(labels, {s \in DOMAIN labels : labels[s] \in Values(s)}), n)

\* evaluate: the first of the layers is the rule file's defaults, the last the
\* labels.
Evaluate(layers) ==
  LET rules == Len(layers) - 1
      step == [n \in 1 .. rules |-> [d \in Decision |-> ApplySettings(d, layers[n], n)]]
  IN  ApplyLabels(Iterate(step, DefaultDecision, rules), layers[Len(layers)], Len(layers))
=============================================================================
