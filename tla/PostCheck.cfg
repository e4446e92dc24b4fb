CONSTANTS
  Results <- MCResults
  Indices = {"HSI.INDX"}
  YearOf <- MCYearOf
  Preludes <- MCPreludes
  Candidates <- MCCandidates
  Rewrites <- MCRewrites
  EpistemicLimit = 2
  MaxTurns = 3
SPECIFICATION Spec
INVARIANTS TypeOK MarkersExact NothingUnsafe OwnEvidence
 
CHECK_DEADLOCK FALSE
