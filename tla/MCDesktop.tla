------------------------------ MODULE MCDesktop ------------------------------
(* Instances of Desktop for TLC.                                           *)
EXTENDS Desktop

LocaleAndDock == <<"Locale", "Dock">>
WithIntegration == <<"Locale", "Integration">>

Budget(c, m, r, show, active) ==
  [clicks |-> c, moves |-> m, records |-> r, show |-> show, active |-> active]

(* Much of one thing, or some of everything.                               *)
Some == {Budget(4, 0, 0, TRUE, FALSE), Budget(2, 1, 0, TRUE, TRUE),
         Budget(0, 3, 0, TRUE, TRUE), Budget(0, 3, 0, FALSE, TRUE),
         Budget(0, 2, 0, FALSE, FALSE), Budget(0, 1, 4, FALSE, TRUE)}

(* Runs outside the passing one.                                           *)
Clicks5 == {Budget(5, 0, 0, TRUE, FALSE)}
FailedRestore == {Budget(0, 1, 0, FALSE, TRUE)}
OneClick == {Budget(1, 0, 0, TRUE, FALSE)}
Burst == {Budget(0, 0, 3, FALSE, FALSE)}
OneSwitch == {Budget(1, 2, 0, TRUE, TRUE)}
=============================================================================
