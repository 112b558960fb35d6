CONSTANTS
  Standards = {"DDR3", "PCM", "DDR4", "GDDR5", "HBM", "LPDDR3", "LPDDR4", "WideIO", "WideIO2", "ALDRAM", "TLDRAM", "DSARP", "SALP_1", "SALP_2", "MASA"}
  Count <- MCCount
  RowIds = {0, 1}
  MaxCmds <- MCMaxCmds
SPECIFICATION MCSpec
INVARIANTS DataBusFree ActsInWindow RowsExclusive BankTimesKept RowsReachable HitsAgree
CHECK_DEADLOCK FALSE
