---------------------------- MODULE MCSetupBoot ----------------------------
EXTENDS SetupBoot

\* Power losses in a row, or a power loss among operations that fail.
BudgetsDef == {[installs |-> 3, crashes |-> 2, fails |-> 0, edits |-> 1],
               [installs |-> 2, crashes |-> 1, fails |-> 2, edits |-> 1]}
============================================================================
