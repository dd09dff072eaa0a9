SPECIFICATION FairSpec
CONSTANTS
  Tasks = {t1, t2}
  Threads = {leader, other}
INVARIANTS NoTwoCopies CatalogWhole RegisterQuiet Outcome
PROPERTY Released
CHECK_DEADLOCK FALSE
