------------------------ MODULE CompositionalProofs ------------------------
(***************************************************************************)
(* Proofs about Compositional, for every number of blocks, set of keys and *)
(* bound on the joint runs and the calls.                                  *)
(***************************************************************************)
EXTENDS Compositional, TLAPS

\* A block that is being optimised exists, and no counter has counted a block
\* after it; a pair that is being optimised exists.
Counts ==
  /\ pc # "idle" => calls >= 1
  /\ pc \in {"search", "gate", "deliver"} => at <= NBlocks
  /\ pc \in {"block", "search", "gate"} => hits < at
  /\ pc \in {"block", "search"} => misses < at
  /\ pc = "block" => fallbacks < at
  /\ pc \in {"search", "gate", "deliver"} => hits <= at /\ misses <= at /\ fallbacks <= at
  /\ pc = "joint" => at \in Pairs

\* Nothing is returned before the end of a call.
Unfinished == pc # "idle" => returned = Unreturned /\ e2e = "none"

\* Every replacement passed its own verification before it was installed.
Gates ==
  /\ \A b \in Blocks : replacements[b] # None => b \in gated
  /\ pc = "deliver" => at \in gated

\* Fused blocks are consumed, and the pairs ahead have not been visited.
Consumed ==
  /\ \A b \in Blocks : replacements[b] \in {"fused", "stub"} => b \in consumed
  /\ pc \in {"block", "search", "gate", "deliver"} =>
       consumed = {} /\ \A b \in Pairs : pair_status[b] = "none"
  /\ pc \in {"pair", "joint"} => \A b \in Pairs : b >= at => pair_status[b] = "none"
  /\ pc = "joint" => ~Skippable(at)

\* The report and the replacements agree on which pairs are fused.
Reported ==
  pc # "idle" =>
    \A b \in Pairs : pair_status[b] = "grafted" <=> replacements[b] = "fused"

\* The inductive invariant.
IInv ==
  /\ TypeOK /\ Counts /\ Unfinished /\ Gates /\ Consumed /\ Reported
  /\ ShipsOnlyVerified /\ PairsWhole /\ AuditSumsReplacements

-----------------------------------------------------------------------------
\* A step keeps the driver's own variables in their types.
LEMMA DriverTypeKept ==
  ASSUME DriverTypeOK, Counts, [Next]_vars
  PROVE  DriverTypeOK'
<1> USE SizesAreNat DEF Blocks, Pairs, DriverTypeOK, Counts
<1>1. CASE Call
  BY <1>1 DEF Call
<1>2. CASE Raise
  BY <1>2 DEF Raise, Skippable
<1>3. CASE SkipBlock
  BY <1>3 DEF SkipBlock
<1>4. CASE ExportFails
  BY <1>4 DEF ExportFails, Failed
<1>5. CASE CacheHit
  BY <1>5 DEF CacheHit
<1>6. CASE GoSearch
  BY <1>6 DEF GoSearch
<1>7. CASE SearchFails
  BY <1>7 DEF SearchFails, Failed
<1>8. CASE SearchDone
  BY <1>8 DEF SearchDone, Defaulted
<1>9. CASE GatePasses
  BY <1>9 DEF GatePasses
<1>10. CASE GateDeclines
  BY <1>10 DEF GateDeclines, Failed
<1>11. CASE Deliver
  BY <1>11 DEF Deliver
<1>12. CASE AuditFails
  BY <1>12 DEF AuditFails, Failed
<1>13. CASE BlocksDone
  BY <1>13 DEF BlocksDone
<1>14. CASE SkipPair
  BY <1>14 DEF SkipPair
<1>15. CASE TryPair
  BY <1>15 DEF TryPair, Skippable
<1>16. CASE DeclinePair
  BY <1>16 DEF DeclinePair
<1>17. CASE GraftPair
  BY <1>17 DEF GraftPair, Reaudited
<1>18. CASE PairsDone
  BY <1>18 DEF PairsDone
<1>19. CASE Clone
  BY <1>19 DEF Clone
<1>20. CASE CloneFails
  BY <1>20 DEF CloneFails
<1>21. CASE VerifyPasses
  BY <1>21 DEF VerifyPasses
<1>22. CASE VerifyFails
  BY <1>22 DEF VerifyFails, RolledBack
<1>23. CASE UNCHANGED vars
  BY <1>23 DEF vars
<1> QED
  BY <1>1, <1>2, <1>3, <1>4, <1>5, <1>6, <1>7, <1>8, <1>9, <1>10, <1>11, <1>12, <1>13, <1>14, <1>15, <1>16, <1>17, <1>18, <1>19, <1>20, <1>21, <1>22, <1>23 DEF Next, Driver, BlockStep, PairStep, ComposeStep

\* A step keeps the cache and its counters in their types: no block is counted
\* twice, so no counter passes the number of blocks.
LEMMA CacheTypeKept ==
  ASSUME DriverTypeOK, CacheTypeOK, Counts, [Next]_vars
  PROVE  CacheTypeOK'
<1> USE SizesAreNat DEF Blocks, cacheVars, DriverTypeOK, CacheTypeOK, Counts
<1>1. CASE Call
  BY <1>1 DEF Call
<1>2. CASE Raise
  BY <1>2 DEF Raise, Skippable
<1>3. CASE SkipBlock
  BY <1>3 DEF SkipBlock
<1>4. CASE ExportFails
  BY <1>4 DEF ExportFails, Failed
<1>5. CASE CacheHit
  BY <1>5 DEF CacheHit
<1>6. CASE GoSearch
  <2>1. at \in Blocks /\ fallbacks + 1 \in 0 .. NBlocks
    BY <1>6 DEF GoSearch
  <2>2. fallbacks' \in 0 .. NBlocks
    BY <1>6, <2>1 DEF GoSearch
  <2>3. PICK r \in {None, "hit", "miss", "replay_failed"} :
          rep_cache' = [rep_cache EXCEPT ![at] = r]
    BY <1>6 DEF GoSearch
  <2> QED
    BY <1>6, <2>2, <2>3 DEF GoSearch
<1>7. CASE SearchFails
  BY <1>7 DEF SearchFails, Failed
<1>8. CASE SearchDone
  <2>1. at \in Blocks /\ misses + 1 \in 0 .. NBlocks /\ calls \in 0 .. MaxCalls
    BY <1>8 DEF SearchDone
  <2>2. CASE caching
    <3>1. calls \in 1 .. MaxCalls
      BY <1>8 DEF SearchDone
    <3>2. cache' \in [Keys -> {None} \cup ((1 .. MaxCalls) \X Blocks)]
      BY <1>8, <2>1, <2>2, <3>1 DEF SearchDone, Defaulted
    <3> QED
      BY <1>8, <2>1, <2>2, <3>2 DEF SearchDone
  <2> QED
    BY <1>8, <2>1, <2>2 DEF SearchDone
<1>9. CASE GatePasses
  BY <1>9 DEF GatePasses
<1>10. CASE GateDeclines
  BY <1>10 DEF GateDeclines, Failed
<1>11. CASE Deliver
  BY <1>11 DEF Deliver
<1>12. CASE AuditFails
  BY <1>12 DEF AuditFails, Failed
<1>13. CASE BlocksDone
  BY <1>13 DEF BlocksDone
<1>14. CASE SkipPair
  BY <1>14 DEF SkipPair
<1>15. CASE TryPair
  BY <1>15 DEF TryPair, Skippable
<1>16. CASE DeclinePair
  BY <1>16 DEF DeclinePair
<1>17. CASE GraftPair
  BY <1>17 DEF GraftPair, Reaudited
<1>18. CASE PairsDone
  BY <1>18 DEF PairsDone
<1>19. CASE Clone
  BY <1>19 DEF Clone
<1>20. CASE CloneFails
  BY <1>20 DEF CloneFails
<1>21. CASE VerifyPasses
  BY <1>21 DEF VerifyPasses
<1>22. CASE VerifyFails
  BY <1>22 DEF VerifyFails, RolledBack
<1>23. CASE UNCHANGED vars
  BY <1>23 DEF vars
<1> QED
  BY <1>1, <1>2, <1>3, <1>4, <1>5, <1>6, <1>7, <1>8, <1>9, <1>10, <1>11, <1>12, <1>13, <1>14, <1>15, <1>16, <1>17, <1>18, <1>19, <1>20, <1>21, <1>22, <1>23 DEF Next, Driver, BlockStep, PairStep, ComposeStep

\* A step keeps the reports and the replacements in their types.
LEMMA BlockTypeKept ==
  ASSUME DriverTypeOK, BlockTypeOK, Counts, [Next]_vars
  PROVE  BlockTypeOK'
<1> USE SizesAreNat DEF Blocks, Pairs, NoGraft, blockVars, DriverTypeOK, BlockTypeOK, Counts
<1>1. CASE Call
  BY <1>1 DEF Call
<1>2. CASE Raise
  BY <1>2 DEF Raise, Skippable
<1>3. CASE SkipBlock
  BY <1>3 DEF SkipBlock
<1>4. CASE ExportFails
  BY <1>4 DEF ExportFails, Failed
<1>5. CASE CacheHit
  BY <1>5 DEF CacheHit
<1>6. CASE GoSearch
  BY <1>6 DEF GoSearch
<1>7. CASE SearchFails
  BY <1>7 DEF SearchFails, Failed
<1>8. CASE SearchDone
  BY <1>8 DEF SearchDone, Defaulted
<1>9. CASE GatePasses
  BY <1>9 DEF GatePasses
<1>10. CASE GateDeclines
  BY <1>10 DEF GateDeclines, Failed
<1>11. CASE Deliver
  BY <1>11 DEF Deliver
<1>12. CASE AuditFails
  BY <1>12 DEF AuditFails, Failed
<1>13. CASE BlocksDone
  BY <1>13 DEF BlocksDone
<1>14. CASE SkipPair
  BY <1>14 DEF SkipPair
<1>15. CASE TryPair
  BY <1>15 DEF TryPair, Skippable
<1>16. CASE DeclinePair
  BY <1>16 DEF DeclinePair
<1>17. CASE GraftPair
  BY <1>17 DEF GraftPair, Reaudited
<1>18. CASE PairsDone
  BY <1>18 DEF PairsDone
<1>19. CASE Clone
  BY <1>19 DEF Clone
<1>20. CASE CloneFails
  BY <1>20 DEF CloneFails
<1>21. CASE VerifyPasses
  BY <1>21 DEF VerifyPasses
<1>22. CASE VerifyFails
  BY <1>22 DEF VerifyFails, RolledBack
<1>23. CASE UNCHANGED vars
  BY <1>23 DEF vars
<1> QED
  BY <1>1, <1>2, <1>3, <1>4, <1>5, <1>6, <1>7, <1>8, <1>9, <1>10, <1>11, <1>12, <1>13, <1>14, <1>15, <1>16, <1>17, <1>18, <1>19, <1>20, <1>21, <1>22, <1>23 DEF Next, Driver, BlockStep, PairStep, ComposeStep

\* A step keeps the pair pass in its types: max_cross_pairs bounds its joint runs.
LEMMA PairTypeKept ==
  ASSUME DriverTypeOK, PairTypeOK, Counts, [Next]_vars
  PROVE  PairTypeOK'
<1> USE SizesAreNat DEF Blocks, Pairs, pairVars, DriverTypeOK, PairTypeOK, Counts
<1>1. CASE Call
  BY <1>1 DEF Call
<1>2. CASE Raise
  BY <1>2 DEF Raise, Skippable
<1>3. CASE SkipBlock
  BY <1>3 DEF SkipBlock
<1>4. CASE ExportFails
  BY <1>4 DEF ExportFails, Failed
<1>5. CASE CacheHit
  BY <1>5 DEF CacheHit
<1>6. CASE GoSearch
  BY <1>6 DEF GoSearch
<1>7. CASE SearchFails
  BY <1>7 DEF SearchFails, Failed
<1>8. CASE SearchDone
  BY <1>8 DEF SearchDone, Defaulted
<1>9. CASE GatePasses
  BY <1>9 DEF GatePasses
<1>10. CASE GateDeclines
  BY <1>10 DEF GateDeclines, Failed
<1>11. CASE Deliver
  BY <1>11 DEF Deliver
<1>12. CASE AuditFails
  BY <1>12 DEF AuditFails, Failed
<1>13. CASE BlocksDone
  BY <1>13 DEF BlocksDone
<1>14. CASE SkipPair
  BY <1>14 DEF SkipPair
<1>15. CASE TryPair
  BY <1>15 DEF TryPair, Skippable
<1>16. CASE DeclinePair
  BY <1>16 DEF DeclinePair
<1>17. CASE GraftPair
  BY <1>17 DEF GraftPair, Reaudited
<1>18. CASE PairsDone
  BY <1>18 DEF PairsDone
<1>19. CASE Clone
  BY <1>19 DEF Clone
<1>20. CASE CloneFails
  BY <1>20 DEF CloneFails
<1>21. CASE VerifyPasses
  BY <1>21 DEF VerifyPasses
<1>22. CASE VerifyFails
  BY <1>22 DEF VerifyFails, RolledBack
<1>23. CASE UNCHANGED vars
  BY <1>23 DEF vars
<1> QED
  BY <1>1, <1>2, <1>3, <1>4, <1>5, <1>6, <1>7, <1>8, <1>9, <1>10, <1>11, <1>12, <1>13, <1>14, <1>15, <1>16, <1>17, <1>18, <1>19, <1>20, <1>21, <1>22, <1>23 DEF Next, Driver, BlockStep, PairStep, ComposeStep

\* A step keeps the result in its type.
LEMMA ResultTypeKept ==
  ASSUME BlockTypeOK, ResultTypeOK, [Next]_vars
  PROVE  ResultTypeOK'
<1> USE SizesAreNat DEF Blocks, NoGraft, Unreturned, blockVars, resultVars, BlockTypeOK, ResultTypeOK
<1>1. CASE Call
  BY <1>1 DEF Call
<1>2. CASE Raise
  BY <1>2 DEF Raise, Skippable
<1>3. CASE SkipBlock
  BY <1>3 DEF SkipBlock
<1>4. CASE ExportFails
  BY <1>4 DEF ExportFails, Failed
<1>5. CASE CacheHit
  BY <1>5 DEF CacheHit
<1>6. CASE GoSearch
  BY <1>6 DEF GoSearch
<1>7. CASE SearchFails
  BY <1>7 DEF SearchFails, Failed
<1>8. CASE SearchDone
  BY <1>8 DEF SearchDone, Defaulted
<1>9. CASE GatePasses
  BY <1>9 DEF GatePasses
<1>10. CASE GateDeclines
  BY <1>10 DEF GateDeclines, Failed
<1>11. CASE Deliver
  BY <1>11 DEF Deliver
<1>12. CASE AuditFails
  BY <1>12 DEF AuditFails, Failed
<1>13. CASE BlocksDone
  BY <1>13 DEF BlocksDone
<1>14. CASE SkipPair
  BY <1>14 DEF SkipPair
<1>15. CASE TryPair
  BY <1>15 DEF TryPair, Skippable
<1>16. CASE DeclinePair
  BY <1>16 DEF DeclinePair
<1>17. CASE GraftPair
  BY <1>17 DEF GraftPair, Reaudited
<1>18. CASE PairsDone
  BY <1>18 DEF PairsDone
<1>19. CASE Clone
  BY <1>19 DEF Clone
<1>20. CASE CloneFails
  BY <1>20 DEF CloneFails
<1>21. CASE VerifyPasses
  BY <1>21 DEF VerifyPasses
<1>22. CASE VerifyFails
  BY <1>22 DEF VerifyFails, RolledBack
<1>23. CASE UNCHANGED vars
  BY <1>23 DEF vars
<1> QED
  BY <1>1, <1>2, <1>3, <1>4, <1>5, <1>6, <1>7, <1>8, <1>9, <1>10, <1>11, <1>12, <1>13, <1>14, <1>15, <1>16, <1>17, <1>18, <1>19, <1>20, <1>21, <1>22, <1>23 DEF Next, Driver, BlockStep, PairStep, ComposeStep

\* The counters stay behind the block the driver is at.
LEMMA CountsKept ==
  ASSUME DriverTypeOK, CacheTypeOK, Counts, [Next]_vars
  PROVE  Counts'
<1> USE SizesAreNat DEF Blocks, Pairs, cacheVars, DriverTypeOK, CacheTypeOK, Counts
<1>1. CASE Call
  BY <1>1 DEF Call
<1>2. CASE Raise
  BY <1>2 DEF Raise, Skippable
<1>3. CASE SkipBlock
  BY <1>3 DEF SkipBlock
<1>4. CASE ExportFails
  BY <1>4 DEF ExportFails, Failed
<1>5. CASE CacheHit
  BY <1>5 DEF CacheHit
<1>6. CASE GoSearch
  BY <1>6 DEF GoSearch
<1>7. CASE SearchFails
  BY <1>7 DEF SearchFails, Failed
<1>8. CASE SearchDone
  BY <1>8 DEF SearchDone, Defaulted
<1>9. CASE GatePasses
  BY <1>9 DEF GatePasses
<1>10. CASE GateDeclines
  BY <1>10 DEF GateDeclines, Failed
<1>11. CASE Deliver
  BY <1>11 DEF Deliver
<1>12. CASE AuditFails
  BY <1>12 DEF AuditFails, Failed
<1>13. CASE BlocksDone
  BY <1>13 DEF BlocksDone
<1>14. CASE SkipPair
  BY <1>14 DEF SkipPair
<1>15. CASE TryPair
  BY <1>15 DEF TryPair, Skippable
<1>16. CASE DeclinePair
  BY <1>16 DEF DeclinePair
<1>17. CASE GraftPair
  BY <1>17 DEF GraftPair, Reaudited
<1>18. CASE PairsDone
  BY <1>18 DEF PairsDone
<1>19. CASE Clone
  BY <1>19 DEF Clone
<1>20. CASE CloneFails
  BY <1>20 DEF CloneFails
<1>21. CASE VerifyPasses
  BY <1>21 DEF VerifyPasses
<1>22. CASE VerifyFails
  BY <1>22 DEF VerifyFails, RolledBack
<1>23. CASE UNCHANGED vars
  BY <1>23 DEF vars
<1> QED
  BY <1>1, <1>2, <1>3, <1>4, <1>5, <1>6, <1>7, <1>8, <1>9, <1>10, <1>11, <1>12, <1>13, <1>14, <1>15, <1>16, <1>17, <1>18, <1>19, <1>20, <1>21, <1>22, <1>23 DEF Next, Driver, BlockStep, PairStep, ComposeStep

\* Only the steps that end a call return something.
LEMMA UnfinishedKept ==
  ASSUME Unfinished, [Next]_vars
  PROVE  Unfinished'
<1> USE DEF Unreturned, resultVars, Unfinished
<1>1. CASE Call
  BY <1>1 DEF Call
<1>2. CASE Raise
  BY <1>2 DEF Raise, Skippable
<1>3. CASE SkipBlock
  BY <1>3 DEF SkipBlock
<1>4. CASE ExportFails
  BY <1>4 DEF ExportFails, Failed
<1>5. CASE CacheHit
  BY <1>5 DEF CacheHit
<1>6. CASE GoSearch
  BY <1>6 DEF GoSearch
<1>7. CASE SearchFails
  BY <1>7 DEF SearchFails, Failed
<1>8. CASE SearchDone
  BY <1>8 DEF SearchDone, Defaulted
<1>9. CASE GatePasses
  BY <1>9 DEF GatePasses
<1>10. CASE GateDeclines
  BY <1>10 DEF GateDeclines, Failed
<1>11. CASE Deliver
  BY <1>11 DEF Deliver
<1>12. CASE AuditFails
  BY <1>12 DEF AuditFails, Failed
<1>13. CASE BlocksDone
  BY <1>13 DEF BlocksDone
<1>14. CASE SkipPair
  BY <1>14 DEF SkipPair
<1>15. CASE TryPair
  BY <1>15 DEF TryPair, Skippable
<1>16. CASE DeclinePair
  BY <1>16 DEF DeclinePair
<1>17. CASE GraftPair
  BY <1>17 DEF GraftPair, Reaudited
<1>18. CASE PairsDone
  BY <1>18 DEF PairsDone
<1>19. CASE Clone
  BY <1>19 DEF Clone
<1>20. CASE CloneFails
  BY <1>20 DEF CloneFails
<1>21. CASE VerifyPasses
  BY <1>21 DEF VerifyPasses
<1>22. CASE VerifyFails
  BY <1>22 DEF VerifyFails, RolledBack
<1>23. CASE UNCHANGED vars
  BY <1>23 DEF vars
<1> QED
  BY <1>1, <1>2, <1>3, <1>4, <1>5, <1>6, <1>7, <1>8, <1>9, <1>10, <1>11, <1>12, <1>13, <1>14, <1>15, <1>16, <1>17, <1>18, <1>19, <1>20, <1>21, <1>22, <1>23 DEF Next, Driver, BlockStep, PairStep, ComposeStep

\* A replacement is installed only after it was verified.
LEMMA GatesKept ==
  ASSUME DriverTypeOK, BlockTypeOK, Counts, Gates, [Next]_vars
  PROVE  Gates'
<1> USE SizesAreNat, NoneIsNothing DEF Blocks, Pairs, NoGraft, blockVars, DriverTypeOK, BlockTypeOK, Counts, Gates
<1>1. CASE Call
  BY <1>1 DEF Call
<1>2. CASE Raise
  BY <1>2 DEF Raise, Skippable
<1>3. CASE SkipBlock
  BY <1>3 DEF SkipBlock
<1>4. CASE ExportFails
  BY <1>4 DEF ExportFails, Failed
<1>5. CASE CacheHit
  BY <1>5 DEF CacheHit
<1>6. CASE GoSearch
  BY <1>6 DEF GoSearch
<1>7. CASE SearchFails
  BY <1>7 DEF SearchFails, Failed
<1>8. CASE SearchDone
  BY <1>8 DEF SearchDone, Defaulted
<1>9. CASE GatePasses
  BY <1>9 DEF GatePasses
<1>10. CASE GateDeclines
  BY <1>10 DEF GateDeclines, Failed
<1>11. CASE Deliver
  BY <1>11 DEF Deliver
<1>12. CASE AuditFails
  BY <1>12 DEF AuditFails, Failed
<1>13. CASE BlocksDone
  BY <1>13 DEF BlocksDone
<1>14. CASE SkipPair
  BY <1>14 DEF SkipPair
<1>15. CASE TryPair
  BY <1>15 DEF TryPair, Skippable
<1>16. CASE DeclinePair
  BY <1>16 DEF DeclinePair
<1>17. CASE GraftPair
  BY <1>17 DEF GraftPair, Reaudited
<1>18. CASE PairsDone
  BY <1>18 DEF PairsDone
<1>19. CASE Clone
  BY <1>19 DEF Clone
<1>20. CASE CloneFails
  BY <1>20 DEF CloneFails
<1>21. CASE VerifyPasses
  BY <1>21 DEF VerifyPasses
<1>22. CASE VerifyFails
  BY <1>22 DEF VerifyFails, RolledBack
<1>23. CASE UNCHANGED vars
  BY <1>23 DEF vars
<1> QED
  BY <1>1, <1>2, <1>3, <1>4, <1>5, <1>6, <1>7, <1>8, <1>9, <1>10, <1>11, <1>12, <1>13, <1>14, <1>15, <1>16, <1>17, <1>18, <1>19, <1>20, <1>21, <1>22, <1>23 DEF Next, Driver, BlockStep, PairStep, ComposeStep

\* A fused block is consumed, and the pair pass only goes forward.
LEMMA ConsumedKept ==
  ASSUME TypeOK, Counts, Consumed, [Next]_vars
  PROVE  Consumed'
<1> USE SizesAreNat, NoneIsNothing DEF Blocks, Pairs, NoGraft, blockVars, pairVars, TypeOK, DriverTypeOK, BlockTypeOK, PairTypeOK, Counts, Consumed, Skippable
<1>1. CASE Call
  BY <1>1 DEF Call
<1>2. CASE Raise
  BY <1>2 DEF Raise, Skippable
<1>3. CASE SkipBlock
  BY <1>3 DEF SkipBlock
<1>4. CASE ExportFails
  BY <1>4 DEF ExportFails, Failed
<1>5. CASE CacheHit
  BY <1>5 DEF CacheHit
<1>6. CASE GoSearch
  BY <1>6 DEF GoSearch
<1>7. CASE SearchFails
  BY <1>7 DEF SearchFails, Failed
<1>8. CASE SearchDone
  BY <1>8 DEF SearchDone, Defaulted
<1>9. CASE GatePasses
  BY <1>9 DEF GatePasses
<1>10. CASE GateDeclines
  BY <1>10 DEF GateDeclines, Failed
<1>11. CASE Deliver
  BY <1>11 DEF Deliver
<1>12. CASE AuditFails
  BY <1>12 DEF AuditFails, Failed
<1>13. CASE BlocksDone
  BY <1>13 DEF BlocksDone
<1>14. CASE SkipPair
  BY <1>14 DEF SkipPair
<1>15. CASE TryPair
  BY <1>15 DEF TryPair, Skippable
<1>16. CASE DeclinePair
  BY <1>16 DEF DeclinePair
<1>17. CASE GraftPair
  BY <1>17 DEF GraftPair, Reaudited
<1>18. CASE PairsDone
  BY <1>18 DEF PairsDone
<1>19. CASE Clone
  BY <1>19 DEF Clone
<1>20. CASE CloneFails
  BY <1>20 DEF CloneFails
<1>21. CASE VerifyPasses
  BY <1>21 DEF VerifyPasses
<1>22. CASE VerifyFails
  BY <1>22 DEF VerifyFails, RolledBack
<1>23. CASE UNCHANGED vars
  BY <1>23 DEF vars
<1> QED
  BY <1>1, <1>2, <1>3, <1>4, <1>5, <1>6, <1>7, <1>8, <1>9, <1>10, <1>11, <1>12, <1>13, <1>14, <1>15, <1>16, <1>17, <1>18, <1>19, <1>20, <1>21, <1>22, <1>23 DEF Next, Driver, BlockStep, PairStep, ComposeStep

\* A pair is reported grafted when, and only when, its fusion is installed.
LEMMA ReportedKept ==
  ASSUME TypeOK, Counts, Consumed, Reported, [Next]_vars
  PROVE  Reported'
<1> USE SizesAreNat, NoneIsNothing DEF Blocks, Pairs, NoGraft, blockVars, pairVars, TypeOK, DriverTypeOK, BlockTypeOK, PairTypeOK, Counts, Consumed, Skippable, Reported
<1>1. CASE Call
  BY <1>1 DEF Call
<1>2. CASE Raise
  BY <1>2 DEF Raise, Skippable
<1>3. CASE SkipBlock
  BY <1>3 DEF SkipBlock
<1>4. CASE ExportFails
  BY <1>4 DEF ExportFails, Failed
<1>5. CASE CacheHit
  BY <1>5 DEF CacheHit
<1>6. CASE GoSearch
  BY <1>6 DEF GoSearch
<1>7. CASE SearchFails
  BY <1>7 DEF SearchFails, Failed
<1>8. CASE SearchDone
  BY <1>8 DEF SearchDone, Defaulted
<1>9. CASE GatePasses
  BY <1>9 DEF GatePasses
<1>10. CASE GateDeclines
  BY <1>10 DEF GateDeclines, Failed
<1>11. CASE Deliver
  BY <1>11 DEF Deliver
<1>12. CASE AuditFails
  BY <1>12 DEF AuditFails, Failed
<1>13. CASE BlocksDone
  BY <1>13 DEF BlocksDone
<1>14. CASE SkipPair
  BY <1>14 DEF SkipPair
<1>15. CASE TryPair
  BY <1>15 DEF TryPair, Skippable
<1>16. CASE DeclinePair
  BY <1>16 DEF DeclinePair
<1>17. CASE GraftPair
  BY <1>17 DEF GraftPair, Reaudited
<1>18. CASE PairsDone
  BY <1>18 DEF PairsDone
<1>19. CASE Clone
  BY <1>19 DEF Clone
<1>20. CASE CloneFails
  BY <1>20 DEF CloneFails
<1>21. CASE VerifyPasses
  BY <1>21 DEF VerifyPasses
<1>22. CASE VerifyFails
  BY <1>22 DEF VerifyFails, RolledBack
<1>23. CASE UNCHANGED vars
  BY <1>23 DEF vars
<1> QED
  BY <1>1, <1>2, <1>3, <1>4, <1>5, <1>6, <1>7, <1>8, <1>9, <1>10, <1>11, <1>12, <1>13, <1>14, <1>15, <1>16, <1>17, <1>18, <1>19, <1>20, <1>21, <1>22, <1>23 DEF Next, Driver, BlockStep, PairStep, ComposeStep

\* A step returns grafts only in a clone that passed the whole-model check.
LEMMA ShipsKept ==
  ASSUME Unfinished, Gates, ShipsOnlyVerified, [Next]_vars
  PROVE  ShipsOnlyVerified'
<1> USE DEF NoGraft, Unreturned, blockVars, resultVars, Unfinished, Gates, ShipsOnlyVerified
<1>1. CASE Call
  BY <1>1 DEF Call
<1>2. CASE Raise
  BY <1>2 DEF Raise, Skippable
<1>3. CASE SkipBlock
  BY <1>3 DEF SkipBlock
<1>4. CASE ExportFails
  BY <1>4 DEF ExportFails, Failed
<1>5. CASE CacheHit
  BY <1>5 DEF CacheHit
<1>6. CASE GoSearch
  BY <1>6 DEF GoSearch
<1>7. CASE SearchFails
  BY <1>7 DEF SearchFails, Failed
<1>8. CASE SearchDone
  BY <1>8 DEF SearchDone, Defaulted
<1>9. CASE GatePasses
  BY <1>9 DEF GatePasses
<1>10. CASE GateDeclines
  BY <1>10 DEF GateDeclines, Failed
<1>11. CASE Deliver
  BY <1>11 DEF Deliver
<1>12. CASE AuditFails
  BY <1>12 DEF AuditFails, Failed
<1>13. CASE BlocksDone
  BY <1>13 DEF BlocksDone
<1>14. CASE SkipPair
  BY <1>14 DEF SkipPair
<1>15. CASE TryPair
  BY <1>15 DEF TryPair, Skippable
<1>16. CASE DeclinePair
  BY <1>16 DEF DeclinePair
<1>17. CASE GraftPair
  BY <1>17 DEF GraftPair, Reaudited
<1>18. CASE PairsDone
  BY <1>18 DEF PairsDone
<1>19. CASE Clone
  BY <1>19 DEF Clone
<1>20. CASE CloneFails
  BY <1>20 DEF CloneFails
<1>21. CASE VerifyPasses
  BY <1>21 DEF VerifyPasses
<1>22. CASE VerifyFails
  BY <1>22 DEF VerifyFails, RolledBack
<1>23. CASE UNCHANGED vars
  BY <1>23 DEF vars
<1> QED
  BY <1>1, <1>2, <1>3, <1>4, <1>5, <1>6, <1>7, <1>8, <1>9, <1>10, <1>11, <1>12, <1>13, <1>14, <1>15, <1>16, <1>17, <1>18, <1>19, <1>20, <1>21, <1>22, <1>23 DEF Next, Driver, BlockStep, PairStep, ComposeStep

\* A step installs and removes the two halves of a fused pair together.
LEMMA PairsKept ==
  ASSUME TypeOK, Counts, Unfinished, Consumed, Reported, PairsWhole, [Next]_vars
  PROVE  PairsWhole'
<1> USE SizesAreNat, NoneIsNothing DEF Blocks, Pairs, NoGraft, Unreturned, blockVars, pairVars, resultVars, TypeOK, DriverTypeOK, BlockTypeOK, PairTypeOK, Counts, Unfinished, Consumed, Skippable, Reported, Whole, PairsWhole
<1>1. CASE Call
  BY <1>1 DEF Call
<1>2. CASE Raise
  BY <1>2 DEF Raise, Skippable
<1>3. CASE SkipBlock
  BY <1>3 DEF SkipBlock
<1>4. CASE ExportFails
  BY <1>4 DEF ExportFails, Failed
<1>5. CASE CacheHit
  BY <1>5 DEF CacheHit
<1>6. CASE GoSearch
  BY <1>6 DEF GoSearch
<1>7. CASE SearchFails
  BY <1>7 DEF SearchFails, Failed
<1>8. CASE SearchDone
  BY <1>8 DEF SearchDone, Defaulted
<1>9. CASE GatePasses
  BY <1>9 DEF GatePasses
<1>10. CASE GateDeclines
  BY <1>10 DEF GateDeclines, Failed
<1>11. CASE Deliver
  BY <1>11 DEF Deliver
<1>12. CASE AuditFails
  BY <1>12 DEF AuditFails, Failed
<1>13. CASE BlocksDone
  BY <1>13 DEF BlocksDone
<1>14. CASE SkipPair
  BY <1>14 DEF SkipPair
<1>15. CASE TryPair
  BY <1>15 DEF TryPair, Skippable
<1>16. CASE DeclinePair
  BY <1>16 DEF DeclinePair
<1>17. CASE GraftPair
  BY <1>17 DEF GraftPair, Reaudited
<1>18. CASE PairsDone
  BY <1>18 DEF PairsDone
<1>19. CASE Clone
  BY <1>19 DEF Clone
<1>20. CASE CloneFails
  BY <1>20 DEF CloneFails
<1>21. CASE VerifyPasses
  BY <1>21 DEF VerifyPasses
<1>22. CASE VerifyFails
  BY <1>22 DEF VerifyFails, RolledBack
<1>23. CASE UNCHANGED vars
  BY <1>23 DEF vars
<1> QED
  BY <1>1, <1>2, <1>3, <1>4, <1>5, <1>6, <1>7, <1>8, <1>9, <1>10, <1>11, <1>12, <1>13, <1>14, <1>15, <1>16, <1>17, <1>18, <1>19, <1>20, <1>21, <1>22, <1>23 DEF Next, Driver, BlockStep, PairStep, ComposeStep

\* A step keeps the aggregate report the sum over what is installed.
LEMMA AuditKept ==
  ASSUME DriverTypeOK, BlockTypeOK, Counts, Consumed, AuditSumsReplacements, [Next]_vars
  PROVE  AuditSumsReplacements'
<1> USE SizesAreNat, NoneIsNothing DEF Blocks, Pairs, NoGraft, blockVars, DriverTypeOK, BlockTypeOK, Counts, Consumed, Skippable, AuditSumsReplacements
<1>1. CASE Call
  BY <1>1 DEF Call
<1>2. CASE Raise
  BY <1>2 DEF Raise, Skippable
<1>3. CASE SkipBlock
  BY <1>3 DEF SkipBlock
<1>4. CASE ExportFails
  BY <1>4 DEF ExportFails, Failed
<1>5. CASE CacheHit
  BY <1>5 DEF CacheHit
<1>6. CASE GoSearch
  BY <1>6 DEF GoSearch
<1>7. CASE SearchFails
  BY <1>7 DEF SearchFails, Failed
<1>8. CASE SearchDone
  BY <1>8 DEF SearchDone, Defaulted
<1>9. CASE GatePasses
  BY <1>9 DEF GatePasses
<1>10. CASE GateDeclines
  BY <1>10 DEF GateDeclines, Failed
<1>11. CASE Deliver
  BY <1>11 DEF Deliver
<1>12. CASE AuditFails
  BY <1>12 DEF AuditFails, Failed
<1>13. CASE BlocksDone
  BY <1>13 DEF BlocksDone
<1>14. CASE SkipPair
  BY <1>14 DEF SkipPair
<1>15. CASE TryPair
  BY <1>15 DEF TryPair, Skippable
<1>16. CASE DeclinePair
  BY <1>16 DEF DeclinePair
<1>17. CASE GraftPair
  <2>1. /\ at \in Pairs /\ ~Skippable(at)
        /\ audited' = (audited \ {<<at>>, <<at + 1>>}) \cup {<<at, at + 1>>}
        /\ replacements' = [replacements EXCEPT ![at] = "fused", ![at + 1] = "stub"]
        /\ status' = status /\ pc # "idle"
    BY <1>17 DEF GraftPair, Reaudited
  <2> SUFFICES ASSUME NEW b \in Blocks
               PROVE  /\ <<b>> \in audited' => replacements'[b] = "own"
                      /\ replacements'[b] = "own" /\ status'[b] = "optimized"
                           => <<b>> \in audited'
                      /\ b \in Pairs =>
                           (<<b, b + 1>> \in audited' <=> replacements'[b] = "fused")
    OBVIOUS
  <2>2. \A c : <<b>> # <<at, at + 1>> /\ (<<b>> = <<c>> => b = c)
    OBVIOUS
  <2>3. \A c : <<b, b + 1>> # <<c>> /\ (<<b, b + 1>> = <<at, at + 1>> => b = at)
    OBVIOUS
  <2>4. replacements[at] \notin {"fused", "stub"} /\ replacements[at + 1] \notin {"fused", "stub"}
    BY <2>1
  <2>5. replacements'[b] =
          IF b = at THEN "fused" ELSE IF b = at + 1 THEN "stub" ELSE replacements[b]
    BY <2>1
  <2>6. <<b>> \in audited' => replacements'[b] = "own"
    BY <2>1, <2>2, <2>5
  <2>7. replacements'[b] = "own" /\ status'[b] = "optimized" => <<b>> \in audited'
    BY <2>1, <2>2, <2>5
  <2>8. b \in Pairs => (<<b, b + 1>> \in audited' <=> replacements'[b] = "fused")
    BY <2>1, <2>3, <2>4, <2>5
  <2> QED
    BY <2>6, <2>7, <2>8
<1>18. CASE PairsDone
  BY <1>18 DEF PairsDone
<1>19. CASE Clone
  BY <1>19 DEF Clone
<1>20. CASE CloneFails
  BY <1>20 DEF CloneFails
<1>21. CASE VerifyPasses
  BY <1>21 DEF VerifyPasses
<1>22. CASE VerifyFails
  BY <1>22 DEF VerifyFails, RolledBack
<1>23. CASE UNCHANGED vars
  BY <1>23 DEF vars
<1> QED
  BY <1>1, <1>2, <1>3, <1>4, <1>5, <1>6, <1>7, <1>8, <1>9, <1>10, <1>11, <1>12, <1>13, <1>14, <1>15, <1>16, <1>17, <1>18, <1>19, <1>20, <1>21, <1>22, <1>23 DEF Next, Driver, BlockStep, PairStep, ComposeStep

-----------------------------------------------------------------------------
\* The initial state satisfies the invariant: nothing is installed, counted,
\* consumed or returned.
LEMMA InitOK == Init => IInv
<1> SUFFICES ASSUME Init PROVE IInv
  OBVIOUS
<1> USE SizesAreNat, NoneIsNothing DEF Init, Blocks, Pairs, NoGraft, Unreturned
<1>1. TypeOK
  <2>1. DriverTypeOK
    BY DEF DriverTypeOK
  <2>2. CacheTypeOK
    <3>1. cache \in [Keys -> {None} \cup ((1 .. MaxCalls) \X Blocks)]
      OBVIOUS
    <3>2. caching \in BOOLEAN
      OBVIOUS
    <3>3. rep_cache \in [Blocks -> {None, "hit", "miss", "replay_failed"}]
      OBVIOUS
    <3> QED
      BY <3>1, <3>2, <3>3 DEF CacheTypeOK
  <2>3. BlockTypeOK
    BY DEF BlockTypeOK
  <2>4. PairTypeOK
    BY DEF PairTypeOK
  <2>5. ResultTypeOK
    BY DEF ResultTypeOK
  <2> QED
    BY <2>1, <2>2, <2>3, <2>4, <2>5 DEF TypeOK
<1>2. Counts /\ Unfinished
  BY DEF Counts, Unfinished
<1>3. Gates /\ Consumed /\ Reported
  BY DEF Gates, Consumed, Reported
<1>4. ShipsOnlyVerified /\ PairsWhole /\ AuditSumsReplacements
  BY DEF ShipsOnlyVerified, PairsWhole, Whole, AuditSumsReplacements
<1> QED
  BY <1>1, <1>2, <1>3, <1>4 DEF IInv

\* Every step, and every stutter, keeps the invariant.
LEMMA StepOK == IInv /\ [Next]_vars => IInv'
<1> SUFFICES ASSUME IInv, [Next]_vars PROVE IInv'
  OBVIOUS
<1> USE DEF IInv
<1>1. TypeOK'
  BY DriverTypeKept, CacheTypeKept, BlockTypeKept, PairTypeKept, ResultTypeKept
     DEF TypeOK
<1>2. Counts' /\ Unfinished'
  BY CountsKept, UnfinishedKept DEF TypeOK
<1>3. Gates' /\ Consumed' /\ Reported'
  BY GatesKept, ConsumedKept, ReportedKept DEF TypeOK
<1>4. ShipsOnlyVerified' /\ PairsWhole' /\ AuditSumsReplacements'
  BY ShipsKept, PairsKept, AuditKept DEF TypeOK
<1> QED
  BY <1>1, <1>2, <1>3, <1>4

\* The inductive invariant holds in every reachable state.
THEOREM Invariance == Spec => []IInv
BY InitOK, StepOK, PTL DEF Spec

\* Type correctness of the driver, its cache and its reports.
THEOREM TypeCorrect == Spec => []TypeOK
<1>1. IInv => TypeOK
  BY DEF IInv
<1> QED
  BY <1>1, Invariance, PTL

\* A module that was not verified, alone and in the whole, is never delivered,
\* and the caller's model is never touched.
THEOREM OnlyVerifiedShips == Spec => []ShipsOnlyVerified
<1>1. IInv => ShipsOnlyVerified
  BY DEF IInv
<1> QED
  BY <1>1, Invariance, PTL

\* No block is left with half of a fused pair, whatever pairs overlap and
\* whichever of them were declined.
THEOREM FusionIsWhole == Spec => []PairsWhole
<1>1. IInv => PairsWhole
  BY DEF IInv
<1> QED
  BY <1>1, Invariance, PTL

\* Until the delivery the aggregate report counts each installed module once.
THEOREM AuditIsExact == Spec => []AuditSumsReplacements
<1>1. IInv => AuditSumsReplacements
  BY DEF IInv
<1> QED
  BY <1>1, Invariance, PTL

\* No sequence of calls evicts a template from the cache they share.
THEOREM TemplatesAreKept == Spec => TemplatesStay
<1> DEFINE Kept == \A k \in Keys : cache[k] # None => cache'[k] = cache[k]
<1>1. TypeOK /\ [Next]_vars => [Kept]_vars
  <2> SUFFICES ASSUME TypeOK, Next PROVE Kept
    OBVIOUS
  <2>1. CASE SearchDone
    BY <2>1 DEF SearchDone, Defaulted, TypeOK, CacheTypeOK
  <2>2. CASE ~SearchDone
    <3>1. cache' = cache
      BY <2>2 DEF Next, Driver, BlockStep, PairStep, ComposeStep, cacheVars, Call,
         Raise, SkipBlock, ExportFails, CacheHit, GoSearch, SearchFails, GatePasses,
         GateDeclines, Deliver, AuditFails, BlocksDone, SkipPair, TryPair, DeclinePair,
         GraftPair, PairsDone, Clone, CloneFails, VerifyPasses, VerifyFails
    <3> QED
      BY <3>1
  <2> QED
    BY <2>1, <2>2
<1> QED
  BY <1>1, TypeCorrect, PTL DEF Spec, TemplatesStay

\* The driver keeps the promise it makes its caller, for every number of blocks
\* and whatever its ports do: each step is a step of Delivery or is invisible.
THEOREM Implements == Spec => DeliversAsPromised
<1> USE DEF Promise!Blocks, Promise!NoGraft, Promise!Nothing, Blocks, NoGraft, Unreturned
<1>1. Init => Promise!Init
  BY DEF Init, Promise!Init
<1>2. IInv /\ [Next]_vars => [Promise!Next]_(Promise!vars)
  <2> SUFFICES ASSUME IInv, [Next]_vars
               PROVE  Promise!Next \/ UNCHANGED Promise!vars
    OBVIOUS
  <2>a. Unfinished /\ TypeOK /\ PairsWhole
    BY DEF IInv
  <2> USE DEF Unfinished, Promise!vars
  <2>1. CASE Call
    <3>1. Promise!Begin
      BY <2>1 DEF Call, Promise!Begin
    <3> QED BY <3>1 DEF Promise!Next
  <2>2. CASE Raise
    <3>1. pc # "idle"
      BY <2>2 DEF Raise
    <3>2. Promise!Raise
      BY <2>2, <3>1 DEF Raise, resultVars, Promise!Raise
    <3> QED BY <3>2 DEF Promise!Next
  <2>3. CASE BlockStep
    <3>1. pc # "idle" /\ pc' # "idle" /\ UNCHANGED resultVars
      BY <2>3 DEF BlockStep, SkipBlock, ExportFails, CacheHit, GoSearch, SearchFails,
         SearchDone, GatePasses, GateDeclines, Deliver, AuditFails, BlocksDone, Failed
    <3> QED BY <3>1 DEF resultVars
  <2>4. CASE PairStep
    <3>1. pc # "idle" /\ pc' # "idle" /\ UNCHANGED resultVars
      BY <2>4 DEF PairStep, SkipPair, TryPair, DeclinePair, GraftPair, PairsDone
    <3> QED BY <3>1 DEF resultVars
  <2>5. CASE Clone
    <3>1. pc # "idle" /\ pc' # "idle" /\ UNCHANGED resultVars
      BY <2>5 DEF Clone
    <3> QED BY <3>1 DEF resultVars
  <2>6. CASE CloneFails
    <3>1. live = NoGraft
      BY DEF IInv, ShipsOnlyVerified
    <3>2. Promise!Decline
      BY <2>6, <3>1 DEF CloneFails, Promise!Decline
    <3> QED BY <3>2 DEF Promise!Next
  <2>7. CASE VerifyPasses
    <3>1. replacements \in Promise!WholeGrafts
      BY <2>a DEF TypeOK, BlockTypeOK, PairsWhole, Whole, Pairs, Promise!WholeGrafts
    <3>2. Promise!Deliver
      BY <2>7, <3>1 DEF VerifyPasses, Promise!Deliver
    <3> QED BY <3>2 DEF Promise!Next
  <2>8. CASE VerifyFails
    <3>1. PICK o \in {"clone", "caller"} : returned' = [object |-> o, grafts |-> NoGraft]
      BY <2>8 DEF VerifyFails, RolledBack
    <3>2. Promise!Decline
      BY <2>8, <3>1 DEF VerifyFails, Promise!Decline
    <3> QED BY <3>2 DEF Promise!Next
  <2>9. CASE UNCHANGED vars
    BY <2>9 DEF vars, resultVars
  <2> QED
    BY <2>1, <2>2, <2>3, <2>4, <2>5, <2>6, <2>7, <2>8, <2>9 DEF Next, Driver, ComposeStep
<1> QED
  BY <1>1, <1>2, Invariance, PTL DEF Spec, DeliversAsPromised, Promise!Spec
=============================================================================
