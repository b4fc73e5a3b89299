----------------------------- MODULE MCReminders -----------------------------
(* Reminders for TLC: names for the model values.                          *)
EXTENDS Reminders
CONSTANTS s1, s2, k1, k2, c1, c2

(* With one step the selections {} and {k1} are the same.                  *)
NothingSelected == config.missing_items = {}
=============================================================================
