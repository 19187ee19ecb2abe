------------------------------ MODULE MCFiles ------------------------------
(***************************************************************************)
(* The two files the application keeps, the configuration and the history, *)
(* for TLC.  What matters to the history of the first, the library it      *)
(* holds, ActionHistory keeps as a value of its own: a behaviour is about  *)
(* one of them, and the other stays as it is at the start.                 *)
(***************************************************************************)
EXTENDS MCMenuConfigLoader

CONSTANTS Actions, Libraries, Fallback, MaxRecent, MaxUses, MaxRank, MaxApplied, CanCrash, CanEdit

ASSUME FilesAssumption ==
  /\ IsFiniteSet(Actions) /\ Actions \subseteq Nat \ {0}
  /\ MaxRecent \in Nat \ {0} /\ MaxRank \in Nat

\* What the theorems about the configuration suppose.
ASSUME HypothesesHold ==
  MenusLeft /\ ChannelsInRange /\ ~CrashInSave /\ \A m, n \in 0 .. 20 : Numeral(m) = Numeral(n) => m = n

VARIABLES focus, process, library, applied, mem, uses, libFile, memFile, opened, saved, worker, answers

historyVars ==
  <<process, library, applied, mem, uses, libFile, memFile, opened, saved, worker, answers>>

\* Three actions: all of them, the third a helper, or without the third; the
\* fallback has one of its own.
Configured == {[ids |-> {1, 2, 3}, helpers |-> {}], [ids |-> {1, 2, 3}, helpers |-> {1}],
               [ids |-> {1, 2}, helpers |-> {}]}

Missing == [ids |-> {4}, helpers |-> {}]

History == INSTANCE ActionHistory WITH app <- process, config <- libFile, file <- memFile

FilesInit ==
  /\ Init /\ History!Init
  /\ focus \in {"config", "history"}
  /\ focus = "config" => libFile.lib.helpers # {}   \* any one of the three

FilesNext ==
  /\ \/ focus = "config" /\ Next /\ UNCHANGED historyVars
     \/ focus = "history" /\ History!Next /\ UNCHANGED vars
  /\ UNCHANGED focus

FilesSpec == FilesInit /\ [][FilesNext]_<<focus, vars, historyVars>>

\* While the application is up and at rest, a restart would load the history
\* it has in memory, if the last save could open its file.
\* (executeActionById, resetActionFrequencies, applyConfig)
RestartKeepsHistory == History!RestartKeepsHistory

\* A lookup that met no helper gives an answer that was right at some moment
\* of the lookup, for the frequent actions while none drops off the recent
\* ones.  (nthRecentAction, nthFrequentAction)
PlainLookupConsistent == History!PlainLookupConsistent
=============================================================================
