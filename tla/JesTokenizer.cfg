SPECIFICATION Spec
CONSTANTS
  Lax = {"minus_zero", "bare_dot", "control", "form_feed", "low_first", "nul_ends"}
  Known = {"number_prefix", "unread", "behind_end", "empty_value", "short_escape"}
INVARIANTS
  TokenizerTypeOK
  DeliversTokens
  TokenIsItsText
  RefusesNoToken
  PassesWhatIsReadBack
