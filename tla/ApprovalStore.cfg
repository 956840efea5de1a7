SPECIFICATION Spec
CONSTANTS
  N = 2
  Calls = {c1, c2, c3}
SYMMETRY CallSymmetry
INVARIANTS LineOrder OutcomeHasItsDecisions HooksSeeTheOutcome SettledToldOnce QuietLedgerIsTidy
PROPERTIES TerminalIsFinal DecisionsAreFinal
