------------------------------ MODULE Generators -------------------------------
(***************************************************************************)
(* The three guided generators side by side.  They share no state: a       *)
(* behaviour is about one of them, the others stay as they are.            *)
(***************************************************************************)
EXTENDS GssGenerator

CONSTANTS DoLoopBounds   \* the integers a Fortran loop may begin and end at

VARIABLES which,
          count, pairGrain, pairProcesses, pair, inLastRow, remaining, pairChunks, st,
          bounds, grainsize, threadCount, index, indexChunks, ended

pairVars  == <<count, pairGrain, pairProcesses, pair, inLastRow, remaining, pairChunks, st>>
indexVars == <<bounds, grainsize, threadCount, index, indexChunks, ended>>

Pairs ==
    INSTANCE Collapse2Generator
    WITH Counts <- UInt, grain <- pairGrain, processes <- pairProcesses, current <- pair,
         chunks <- pairChunks
Indices ==
    INSTANCE FortranGss
    WITH DoLoops <- DoLoopBounds \X DoLoopBounds, ThreadCounts <- ProcessCounts,
         current <- index, chunks <- indexChunks, done <- ended

ASSUME PairsAssumption   == Pairs!ConstantsAssumption
ASSUME IndicesAssumption == Indices!ConstantsAssumption

Init3 ==
    /\ which \in {"gss", "collapse2", "fortran"}
    /\ IF which = "gss" THEN TRUE ELSE range = <<0, 1>> /\ grain = 0 /\ processes = 1
    /\ IF which = "collapse2" THEN TRUE ELSE count = 1 /\ pairGrain = 0 /\ pairProcesses = 1
    /\ IF which = "fortran" THEN TRUE ELSE bounds = <<1, 1>> /\ grainsize = 0 /\ threadCount = 1
    /\ Init /\ Pairs!Init /\ Indices!Init

Next3 ==
    /\ UNCHANGED which
    /\ \/ which = "gss" /\ Next /\ UNCHANGED <<pairVars, indexVars>>
       \/ which = "collapse2" /\ Pairs!Next /\ UNCHANGED <<vars, indexVars>>
       \/ which = "fortran" /\ Indices!Next /\ UNCHANGED <<vars, pairVars>>

Spec3 == Init3 /\ [][Next3]_<<which, vars, pairVars, indexVars>>

-----------------------------------------------------------------------------
\* The pairs of two nested loops are shared, each once, see Collapse2Generator.
PairsTile       == Pairs!PairsTile
PairsDoNotFail  == Pairs!PairsDoNotFail

\* The indices of a Fortran loop are shared, each once, see FortranGss.
IndicesOnce     == Indices!IndicesOnce

=============================================================================
